------------------------------- MODULE Session -------------------------------
(***************************************************************************)
(* The two sides of the session protocol: the shell of                     *)
(* src/src/fs_shell.h and the thread in serve_client of                    *)
(* src/src/fs_server.h, the connection between them, and what they wait    *)
(* for: each other's messages, data_mutex_, and the disk behind it.        *)
(*                                                                         *)
(* What the methods do is FileSystem's matter; here a method returns or    *)
(* throws.  A message is a sequence of fields.  One side sends the fields  *)
(* of a message in one go, and the other blocks until it has all it wants, *)
(* so each is one step; only the end of either process may leave the first *)
(* fields of a message, and the other side then meets the end of the       *)
(* stream behind them.                                                     *)
(*                                                                         *)
(* The server receives a user name before anything else, and the shell     *)
(* waits for a reply before it sends anything.  The shells of the          *)
(* repository wait in "hello" for ever (see Prompted).  Greeters stand for *)
(* clients that the repository does not have: they send the name the       *)
(* server wants and then work as the shell does.                           *)
(***************************************************************************)
EXTENDS Integers, Sequences

CONSTANTS
    Clients,     \* connections
    Greeters,    \* external: those whose client sends a user name first
    Commands,    \* the commands that each client's user types
    Nobody,      \* no thread holds data_mutex_
    MaxPath,     \* bound: the deepest path
    MaxEntries   \* bound: the longest listing

\* "mk" stands for mk, mkdir, rm and rmdir, which differ in nothing here.
Kinds == {"cd", "ls", "mk", "cat", "w", "i", "d", "format"}

ASSUME CommandsAssumption == Commands \in [Clients -> SUBSET Kinds]
ASSUME GreetersAssumption == Greeters \subseteq Clients
ASSUME NobodyAssumption == Nobody \notin Clients
ASSUME LengthAssumption == MaxPath \in Nat /\ MaxEntries \in Nat

VARIABLES
    shell,      \* "off"; "hello" before the first reply; "ready" at the prompt; "waiting"
    asked,      \* the command the shell waits for the answer to
    prompt,     \* path_prompt_: how many names deep
    toServer,   \* fields on their way to the thread
    toShell,    \* fields on their way to the shell
    wire,       \* "none"; "open"; "closed" by the shell, "reset" if it left with an
                \* answer unread; "hungup" by the server
    thread,     \* "none"; "login"; "idle"; "serving" between methods; "inside" one,
                \* with data_mutex_; "ok" or "fail" when it has that to answer
    req,        \* the command it serves
    left,       \* the methods of that command that are still to run
    path,       \* the local variable path: how many names deep
    lock,       \* who holds data_mutex_
    disk,       \* "up", or "lost" with its connection
    process     \* "up"; "closing" in the destructor of the server; "ended"

shellVars == <<shell, asked, prompt>>
threadVars == <<thread, req, left, path>>
vars == <<shell, asked, prompt, toServer, toShell, wire, thread, req, left, path, lock, disk, process>>

-----------------------------------------------------------------------------
(* The messages: what each side sends, and what the other takes *)

Words == Kinds \cup {"str", "u64", "u32", "ok", "fail"}
Fields == [type : Words, n : Nat]
Field(t, n) == [type |-> t, n |-> n]

\* A slip of the shell: the text of an "i" goes before the position.
ArgsSentSwapped(k) == CASE k \in {"ls", "format"} -> << >>
                        [] k \in {"cd", "mk", "cat"} -> <<"str">>
                        [] k = "w" -> <<"str", "str">>
                        [] k = "i" -> <<"str", "str", "u64">>
                        [] k = "d" -> <<"str", "u64", "u64">>

\* What the shell sends behind the instruction
ArgsSent(k) == CASE k \in {"ls", "format"} -> << >>
                 [] k \in {"cd", "mk", "cat"} -> <<"str">>
                 [] k = "w" -> <<"str", "str">>
                 [] k = "i" -> <<"str", "u64", "str">>
                 [] k = "d" -> <<"str", "u64", "u64">>

\* What the thread receives behind it
ArgsTaken(k) == CASE k \in {"ls", "format"} -> << >>
                  [] k \in {"cd", "mk", "cat"} -> <<"str">>
                  [] k = "w" -> <<"str", "str">>
                  [] k = "i" -> <<"str", "u64", "str">>
                  [] k = "d" -> <<"str", "u64", "u64">>

Request(k) == <<Field(k, 0)>> \o [i \in 1 .. Len(ArgsSent(k)) |-> Field(ArgsSent(k)[i], 0)]

\* What follows an OK from the thread: the path, the entries and their number, the
\* content; n is what the first of them says.
Follows(k, n) == CASE k \in {"cd", "cat"} -> <<Field("str", n)>>
                   [] k = "ls" -> <<Field("u32", n)>> \o [i \in 1 .. n |-> Field("str", 0)]
                   [] OTHER -> << >>

Answer(k, r, n) == <<Field(r, 0)>> \o (IF r = "ok" THEN Follows(k, n) ELSE << >>)

\* How many fields the shell takes behind an OK, the first of them being f.
Expects(k, f) == CASE k \in {"cd", "cat"} -> 1
                   [] k = "ls" -> 1 + f.n
                   [] OTHER -> 0

Types(fs) == [i \in DOMAIN fs |-> fs[i].type]

\* fs is a request that the thread can receive, whole or up to the end of the stream.
Receivable(fs, k) == Types(fs) = <<k>> \o ArgsTaken(k)
CutShort(fs) == \E k \in Kinds : /\ Len(fs) <= Len(ArgsTaken(k))
                                 /\ Types(fs) = SubSeq(<<k>> \o ArgsTaken(k), 1, Len(fs))

\* fs is an OK that the shell, waiting for an answer to k, receives field by field
\* as what it takes there; Wanted is how many fields it takes behind it, if it stops.
IsOk(fs) == /\ fs # << >> /\ fs[1].type = "ok"
InOrder(fs, k) == \A i \in 2 .. Len(fs) : fs[i].type = (IF k = "ls" /\ i = 2 THEN "u32" ELSE "str")
Wanted(fs, k) == Expects(k, IF Len(fs) = 1 THEN Field("str", 0) ELSE fs[2])

\* The shell takes fs to its last field; or it takes fs and waits for more.
Understood(fs, k) ==
    \/ Types(fs) = <<"fail">>
    \/ IsOk(fs) /\ InOrder(fs, k) /\ Len(fs) - 1 = Wanted(fs, k)
HeardInPart(fs, k) == IsOk(fs) /\ InOrder(fs, k) /\ Len(fs) - 1 < Wanted(fs, k)

\* open, read_all, write_all; the others are one method each.
Methods(k) == CASE k \in {"i", "d"} -> 3 [] k \in {"w", "cat"} -> 2 [] OTHER -> 1

\* The method of k with n still to run, itself among them, may throw an error that
\* is answered: open, open_folder, create and remove, and write_all.
MayFail(k, n) == \/ n = Methods(k) /\ k \notin {"ls", "format"}
                 \/ n = 1 /\ k \in {"w", "i", "d"}

-----------------------------------------------------------------------------
Init ==
    /\ shell = [c \in Clients |-> "off"]
    /\ asked = [c \in Clients |-> "none"]
    /\ prompt = [c \in Clients |-> 0]
    /\ toServer = [c \in Clients |-> << >>]
    /\ toShell = [c \in Clients |-> << >>]
    /\ wire = [c \in Clients |-> "none"]
    /\ thread = [c \in Clients |-> "none"]
    /\ req = [c \in Clients |-> "none"]
    /\ left = [c \in Clients |-> 0]
    /\ path = [c \in Clients |-> 0]
    /\ lock = Nobody
    /\ disk = "up"
    /\ process = "up"

-----------------------------------------------------------------------------
(* The shell *)

\* It connects. The next connection of a client is made when the thread of the one
\* before has returned: the model has one slot for each.
Start(c) ==
    /\ process # "ended"
    /\ shell[c] = "off" /\ wire[c] = "none"
    /\ shell' = [shell EXCEPT ![c] = IF c \in Greeters THEN "ready" ELSE "hello"]
    /\ toServer' = [toServer EXCEPT ![c] = IF c \in Greeters THEN <<Field("str", 0)>> ELSE << >>]
    /\ wire' = [wire EXCEPT ![c] = "open"]
    /\ UNCHANGED <<asked, prompt, toShell, threadVars, lock, disk, process>>

\* A command is typed. What is sent to a connection that the server has given up
\* reaches nobody.
Ask(c) ==
    /\ shell[c] = "ready"
    /\ shell' = [shell EXCEPT ![c] = "waiting"]
    /\ \E k \in Commands[c] :
          /\ asked' = [asked EXCEPT ![c] = k]
          /\ toServer' = IF wire[c] = "open" THEN [toServer EXCEPT ![c] = @ \o Request(k)] ELSE toServer
    /\ UNCHANGED <<prompt, toShell, wire, threadVars, lock, disk, process>>

\* A slip of the shell: it shows the path it asked for, whatever the answer.
HearHopeful(c) ==
    /\ shell[c] \in {"hello", "waiting"}
    /\ Understood(toShell[c], asked[c])
    /\ shell' = [shell EXCEPT ![c] = "ready"]
    /\ asked' = [asked EXCEPT ![c] = "none"]
    /\ prompt' = IF asked[c] = "cd"
                 THEN [prompt EXCEPT ![c] = IF toShell[c][1].type = "ok" THEN toShell[c][2].n
                                            ELSE IF @ < MaxPath THEN @ + 1 ELSE @]
                 ELSE prompt
    /\ toShell' = [toShell EXCEPT ![c] = << >>]
    /\ UNCHANGED <<toServer, wire, threadVars, lock, disk, process>>

\* The answer is received, to its last field, and the prompt shown again, or for the
\* first time; but nothing is ever sent to a shell in "hello".
Hear(c) ==
    /\ shell[c] \in {"hello", "waiting"}
    /\ Understood(toShell[c], asked[c])
    /\ shell' = [shell EXCEPT ![c] = "ready"]
    /\ asked' = [asked EXCEPT ![c] = "none"]
    /\ prompt' = IF asked[c] = "cd" /\ toShell[c][1].type = "ok"
                 THEN [prompt EXCEPT ![c] = toShell[c][2].n] ELSE prompt
    /\ toShell' = [toShell EXCEPT ![c] = << >>]
    /\ UNCHANGED <<toServer, wire, threadVars, lock, disk, process>>

\* The process of the shell is over; w becomes of its connection.
Gone(c, w) ==
    /\ shell' = [shell EXCEPT ![c] = "off"]
    /\ asked' = [asked EXCEPT ![c] = "none"]
    /\ prompt' = [prompt EXCEPT ![c] = 0]
    /\ toShell' = [toShell EXCEPT ![c] = << >>]
    /\ wire' = [wire EXCEPT ![c] = IF @ = "hungup" THEN "none" ELSE w]

\* "e" is typed, or the process is killed, perhaps in the middle of a message. Its
\* kernel resets the connection if there is an answer that was not received.
Depart(c) ==
    /\ shell[c] # "off"
    /\ Gone(c, IF toShell[c] = << >> THEN "closed" ELSE "reset")
    /\ toServer' \in IF shell[c] = "ready" /\ wire[c] = "open"
                     THEN UNION {{[toServer EXCEPT ![c] = @ \o SubSeq(Request(k), 1, n)] :
                                     n \in 0 .. Len(ArgsSent(k))} : k \in Commands[c]}
                     ELSE {toServer}
    /\ UNCHANGED <<threadVars, lock, disk, process>>

\* recv meets the end of the stream, or an error, perhaps behind the beginning of an
\* answer: the exception ends the shell.
SeeEnd(c) ==
    /\ shell[c] \in {"hello", "waiting"}
    /\ wire[c] = "hungup" /\ ~Understood(toShell[c], asked[c])
    /\ Gone(c, "none")
    /\ UNCHANGED <<toServer, threadVars, lock, disk, process>>

-----------------------------------------------------------------------------
(* The thread *)

Goto(c, t) == thread' = [thread EXCEPT ![c] = t]

\* serve_client returns: its connection and its handles are destroyed.
Over(c) ==
    /\ Goto(c, "none")
    /\ req' = [req EXCEPT ![c] = "none"]
    /\ left' = [left EXCEPT ![c] = 0]
    /\ path' = [path EXCEPT ![c] = 0]
    /\ toServer' = [toServer EXCEPT ![c] = << >>]
    /\ wire' = [wire EXCEPT ![c] = IF @ = "open" THEN "hungup" ELSE "none"]

\* accept, and serve_client in a new thread
Accept(c) ==
    /\ process = "up"
    /\ thread[c] = "none" /\ wire[c] \in {"open", "closed"}
    /\ Goto(c, "login")
    /\ UNCHANGED <<shellVars, toServer, toShell, wire, req, left, path, lock, disk, process>>

\* recv_str(username)
Login(c) ==
    /\ thread[c] = "login"
    /\ toServer[c] # << >>
    /\ IF process = "closing" THEN Over(c)
       ELSE /\ Goto(c, "idle")
            /\ toServer' = [toServer EXCEPT ![c] = Tail(@)]
            /\ UNCHANGED <<wire, req, left, path>>
    /\ UNCHANGED <<shellVars, toShell, lock, disk, process>>

\* The instruction and all that belongs to it are received.
Receive(c) ==
    /\ thread[c] = "idle"
    /\ \E k \in Kinds :
          /\ Receivable(toServer[c], k)
          /\ req' = [req EXCEPT ![c] = k]
          /\ left' = [left EXCEPT ![c] = Methods(k)]
    /\ toServer' = [toServer EXCEPT ![c] = << >>]
    /\ Goto(c, "serving")
    /\ UNCHANGED <<shellVars, toShell, wire, path, lock, disk, process>>

\* data_mutex_ is taken.
Enter(c) ==
    /\ thread[c] = "serving"
    /\ lock = Nobody
    /\ lock' = c
    /\ Goto(c, "inside")
    /\ UNCHANGED <<shellVars, toServer, toShell, wire, req, left, path, disk, process>>

\* What "cd" makes of path: nothing for ".", one name less or more.
Turns(p) == {p} \cup {q \in 0 .. MaxPath : q = p - 1 \/ q = p + 1}

\* A slip of the methods: one that throws leaves data_mutex_ locked.
ReturnsLocked(c) ==
    /\ thread[c] = "inside" /\ disk = "up"
    /\ \/ /\ left[c] > 1
          /\ left' = [left EXCEPT ![c] = @ - 1]
          /\ Goto(c, "serving")
          /\ lock' = Nobody
          /\ UNCHANGED path
       \/ /\ left[c] = 1
          /\ left' = [left EXCEPT ![c] = 0]
          /\ Goto(c, "ok")
          /\ lock' = Nobody
          /\ path' \in IF req[c] = "cd" THEN {[path EXCEPT ![c] = q] : q \in Turns(path[c])} ELSE {path}
       \/ /\ MayFail(req[c], left[c])
          /\ left' = [left EXCEPT ![c] = 0]
          /\ Goto(c, "fail")
          /\ UNCHANGED <<lock, path>>
    /\ UNCHANGED <<shellVars, toServer, toShell, wire, req, disk, process>>

\* The method returns, or throws what the thread answers; either way the guard
\* releases data_mutex_.
Returns(c) ==
    /\ thread[c] = "inside" /\ disk = "up"
    /\ lock' = Nobody
    /\ \/ /\ left[c] > 1
          /\ left' = [left EXCEPT ![c] = @ - 1]
          /\ Goto(c, "serving")
          /\ UNCHANGED path
       \/ /\ left[c] = 1
          /\ left' = [left EXCEPT ![c] = 0]
          /\ Goto(c, "ok")
          /\ path' \in IF req[c] = "cd" THEN {[path EXCEPT ![c] = q] : q \in Turns(path[c])} ELSE {path}
       \/ /\ MayFail(req[c], left[c])
          /\ left' = [left EXCEPT ![c] = 0]
          /\ Goto(c, "fail")
          /\ UNCHANGED path
    /\ UNCHANGED <<shellVars, toServer, toShell, wire, req, disk, process>>

\* "cd ." is done, and a name that cannot be one is refused, without data_mutex_.
Unlocked(c) ==
    /\ thread[c] = "serving" /\ req[c] \in {"cd", "mk"}
    /\ left' = [left EXCEPT ![c] = 0]
    /\ Goto(c, IF req[c] = "cd" THEN "ok" ELSE "fail")
    /\ UNCHANGED <<shellVars, toServer, toShell, wire, req, path, lock, disk, process>>

\* What an answer says: the path, how many names there are, or nothing
Says(c) == IF req[c] = "cd" THEN {path[c]} ELSE IF req[c] = "ls" THEN 0 .. MaxEntries ELSE {0}

\* The reply and what follows it are sent, and threads_sig_term_ is looked at. What
\* is sent to a shell that has left nobody reads.
Reply(c) ==
    /\ thread[c] \in {"ok", "fail"}
    /\ \E n \in Says(c) :
          toShell' = IF wire[c] = "open" THEN [toShell EXCEPT ![c] = @ \o Answer(req[c], thread[c], n)]
                     ELSE toShell
    /\ IF process = "closing" THEN Over(c)
       ELSE /\ Goto(c, "idle")
            /\ req' = [req EXCEPT ![c] = "none"]
            /\ UNCHANGED <<toServer, wire, left, path>>
    /\ UNCHANGED <<shellVars, lock, disk, process>>

\* A slip of recv_raw: nothing received is nothing yet, and its loop goes on.
EofUnseen(c) ==
    /\ wire[c] = "closed"
    /\ \/ thread[c] = "login" /\ toServer[c] = << >>
       \/ thread[c] = "idle" /\ CutShort(toServer[c])
    /\ UNCHANGED vars

\* recv throws CLOSED_BY_REMOTE: no more than the beginning of a message is there.
Eof(c) ==
    /\ wire[c] = "closed"
    /\ \/ thread[c] = "login" /\ toServer[c] = << >>
       \/ thread[c] = "idle" /\ CutShort(toServer[c])
    /\ Over(c)
    /\ UNCHANGED <<shellVars, toShell, lock, disk, process>>

\* A method's request cannot be sent to the disk, which throws CLOSED_BY_REMOTE
\* too: the thread takes it for its own client's end.
DiskThrows(c) ==
    /\ thread[c] = "inside" /\ disk = "lost"
    /\ lock' = Nobody
    /\ Over(c)
    /\ UNCHANGED <<shellVars, toShell, disk, process>>

\* What the thread of c may have sent of the answer that it has to give
Sent(c) ==
    IF thread[c] \in {"ok", "fail"} /\ wire[c] = "open"
    THEN UNION {{SubSeq(Answer(req[c], thread[c], n), 1, i) :
                    i \in 0 .. Len(Answer(req[c], thread[c], n))} : n \in Says(c)}
    ELSE {<< >>}

\* The process ends, with all its threads, those too that have sent the beginning of
\* an answer; the kernel closes the connections.
Ends ==
    /\ process' = "ended"
    /\ thread' = [c \in Clients |-> "none"]
    /\ req' = [c \in Clients |-> "none"]
    /\ left' = [c \in Clients |-> 0]
    /\ path' = [c \in Clients |-> 0]
    /\ toServer' = [c \in Clients |-> << >>]
    /\ \E last \in [Clients -> UNION {Sent(c) : c \in Clients}] :
          /\ \A c \in Clients : last[c] \in Sent(c)
          /\ toShell' = [c \in Clients |-> toShell[c] \o last[c]]
    /\ wire' = [c \in Clients |-> IF wire[c] \in {"open", "hungup"} THEN "hungup" ELSE "none"]
    /\ lock' = Nobody
    /\ UNCHANGED <<shellVars, disk>>

\* recv fails with an error other than an orderly end: the exception leaves the
\* thread function. A shell with an answer unread has asked nothing since.
Reset(c) ==
    /\ wire[c] = "reset"
    /\ thread[c] = "idle"
    /\ Ends

Killed == process # "ended" /\ Ends

\* accept throws, for want of a descriptor, say, out of accept_connections: the
\* destructor sets threads_sig_term_ and joins all threads, one of which may be in
\* recv and see the flag only after the next command.
AcceptFails ==
    /\ process = "up"
    /\ process' = "closing"
    /\ UNCHANGED <<shellVars, toServer, toShell, wire, threadVars, lock, disk>>

\* The destructor of the server has joined them all, and the process goes on to its
\* end. In step 3 the destructor of the disk client comes in between and may have to
\* wait for the drive (DiskLink's JoinReturns); no shell sees the difference.
Joined ==
    /\ process = "closing"
    /\ \A c \in Clients : thread[c] = "none"
    /\ Ends

\* The connection to the disk ends. A call that is in send may throw; one that
\* waits for its answer, or whose request the kernel still takes, is never woken.
DiskLost ==
    /\ disk = "up" /\ process # "ended"
    /\ disk' = "lost"
    /\ UNCHANGED <<shellVars, toServer, toShell, wire, threadVars, lock, process>>

-----------------------------------------------------------------------------
ShellNext(c) == Start(c) \/ Ask(c) \/ Hear(c) \/ Depart(c) \/ SeeEnd(c)

ThreadNext(c) ==
    \/ Accept(c) \/ Login(c) \/ Receive(c) \/ Enter(c) \/ Returns(c) \/ Unlocked(c) \/ Reply(c)
    \/ Eof(c) \/ DiskThrows(c) \/ Reset(c)

Next == (\E c \in Clients : ShellNext(c) \/ ThreadNext(c)) \/ Killed \/ AcceptFails \/ Joined \/ DiskLost

Spec == Init /\ [][Next]_vars

\* A thread that can run does. data_mutex_ is strongly fair: who waits for it gets
\* it, however often others take it in between. Nothing says that a user types
\* anything or that a process or the disk ends, nor that a call to a lost disk does.
FairSpec ==
    /\ Spec
    /\ \A c \in Clients :
          /\ WF_vars(Hear(c) \/ SeeEnd(c))
          /\ WF_vars(Accept(c) \/ Login(c) \/ Receive(c) \/ Reply(c) \/ Eof(c) \/ Reset(c))
          /\ SF_vars(Enter(c))
          /\ WF_vars(Returns(c))
    /\ WF_vars(Joined)

-----------------------------------------------------------------------------
\* Every variable has its type; data_mutex_ is held by the one thread that is in a
\* method; only a waiting shell has asked, and only a serving thread has a request.
TypeOK ==
    /\ shell \in [Clients -> {"off", "hello", "ready", "waiting"}]
    /\ asked \in [Clients -> Kinds \cup {"none"}]
    /\ prompt \in [Clients -> 0 .. MaxPath]
    /\ toServer \in [Clients -> Seq(Fields)] /\ toShell \in [Clients -> Seq(Fields)]
    /\ wire \in [Clients -> {"none", "open", "closed", "reset", "hungup"}]
    /\ thread \in [Clients -> {"none", "login", "idle", "serving", "inside", "ok", "fail"}]
    /\ req \in [Clients -> Kinds \cup {"none"}]
    /\ left \in [Clients -> 0 .. 3]
    /\ path \in [Clients -> 0 .. MaxPath]
    /\ lock \in Clients \cup {Nobody}
    /\ disk \in {"up", "lost"} /\ process \in {"up", "closing", "ended"}
    /\ \A c \in Clients :
          /\ lock = c <=> thread[c] = "inside"
          /\ asked[c] # "none" <=> shell[c] = "waiting"
          /\ req[c] # "none" <=> thread[c] \in {"serving", "inside", "ok", "fail"}

\* The two sides never part: what is on its way to either is what it is going to
\* receive, field by field, with the end of the stream behind it if it is cut short;
\* the answer a shell meets is the one to its question; and a shell at its prompt has
\* nothing that it did not read.
InStep ==
    \A c \in Clients :
       /\ shell[c] # "waiting" => toShell[c] = << >>
       /\ toShell[c] # << >> => \/ Understood(toShell[c], asked[c])
                                \/ wire[c] = "hungup" /\ HeardInPart(toShell[c], asked[c])
       /\ thread[c] = "idle" /\ wire[c] = "open" =>
             /\ toServer[c] # << >> => Receivable(toServer[c], asked[c])
             /\ toServer[c] = << >> /\ toShell[c] = << >> => shell[c] # "waiting"
       /\ thread[c] = "idle" /\ wire[c] \in {"closed", "reset"} =>
             CutShort(toServer[c]) \/ \E k \in Kinds : Receivable(toServer[c], k)
       /\ req[c] # "none" /\ wire[c] = "open" => shell[c] = "waiting" /\ asked[c] = req[c]

\* The path in the prompt is the one of the folder that the thread is in.
PromptIsPath ==
    \A c \in Clients : shell[c] = "ready" /\ wire[c] = "open" => prompt[c] = path[c]

-----------------------------------------------------------------------------
(* The inductive invariant behind InStep and PromptIsPath *)

Username == <<Field("str", 0)>>
Beginnings == UNION {{SubSeq(Request(k), 1, n) : n \in 0 .. Len(Request(k))} : k \in Kinds}
Lengths(k) == 0 .. (IF k = "cd" THEN MaxPath ELSE MaxEntries)

\* Which ends of a connection are there
EndsOK(c) ==
    /\ shell[c] = "off" <=> wire[c] \in {"none", "closed", "reset"}
    /\ shell[c] = "off" => prompt[c] = 0
    /\ shell[c] # "waiting" => toShell[c] = << >>
    /\ toShell[c] # << >> =>
          \/ \E r \in {"ok", "fail"}, n \in Lengths(asked[c]) : toShell[c] = Answer(asked[c], r, n)
          \/ wire[c] = "hungup" /\ HeardInPart(toShell[c], asked[c])
    /\ wire[c] \in {"none", "hungup"} => thread[c] = "none" /\ toServer[c] = << >>
    /\ wire[c] = "reset" => thread[c] = "idle" /\ toServer[c] = << >>
    /\ thread[c] \in {"none", "login"} => path[c] = 0

\* Whose turn it is on an open one, and what is on its way
TurnOK(c) == wire[c] = "open" =>
    /\ thread[c] \in {"none", "login"} =>
          /\ prompt[c] = 0 /\ toShell[c] = << >>
          /\ shell[c] = "hello" => toServer[c] = << >>
          /\ shell[c] = "ready" => toServer[c] = Username
          /\ shell[c] = "waiting" => toServer[c] = Username \o Request(asked[c])
    /\ thread[c] = "idle" =>
          \/ shell[c] = "ready" /\ toServer[c] = << >> /\ prompt[c] = path[c]
          \/ /\ shell[c] = "waiting" /\ toServer[c] = Request(asked[c]) /\ toShell[c] = << >>
             /\ prompt[c] = path[c]
          \/ /\ shell[c] = "waiting" /\ toServer[c] = << >>
             /\ \E r \in {"ok", "fail"}, n \in Lengths(asked[c]) :
                   /\ toShell[c] = Answer(asked[c], r, n)
                   /\ (IF asked[c] = "cd" /\ r = "ok" THEN n ELSE prompt[c]) = path[c]
    /\ thread[c] \in {"serving", "inside", "ok", "fail"} =>
          /\ shell[c] = "waiting" /\ asked[c] = req[c]
          /\ toServer[c] = << >> /\ toShell[c] = << >>
          /\ prompt[c] = path[c] \/ (req[c] = "cd" /\ thread[c] = "ok")

\* What a shell has left behind
LeftOK(c) == wire[c] = "closed" =>
    /\ thread[c] \in {"none", "login"} =>
          toServer[c] = << >> \/ \E fs \in Beginnings : toServer[c] = Username \o fs
    /\ thread[c] = "idle" => toServer[c] \in Beginnings
    /\ thread[c] \in {"serving", "inside", "ok", "fail"} => toServer[c] = << >>

TalkOK == \A c \in Clients : EndsOK(c) /\ TurnOK(c) /\ LeftOK(c)

SessionInv == TypeOK /\ TalkOK

-----------------------------------------------------------------------------
(* What must happen *)

\* The thread of c is in a method that waits for the lost disk, or waits for
\* data_mutex_, which another such thread has.
Stuck(c) == disk = "lost" /\ thread[c] \in {"serving", "inside"}

\* "The client sends an instruction to a file system process that has been
\* terminated. The client will exit then": every command is answered, or the shell
\* ends. What is left out is a connection that nobody accepts any more, and a thread
\* that stays for ever in a call that the disk client never wakes; when a call to the
\* lost disk does throw, so that the server drops the shell, the shell ends.
Answered == \A c \in Clients :
    shell[c] = "waiting" ~> \/ shell[c] # "waiting"
                            \/ process = "closing" /\ thread[c] = "none"
                            \/ []Stuck(c)

\* When a shell has left, for whatever reason and in whatever moment, its thread
\* comes to its end, with its handles, so that nothing of it stays in use, unless it
\* is stuck for ever.
SessionEnds == \A c \in Clients :
    shell[c] = "off" /\ thread[c] # "none" ~> thread[c] = "none" \/ []Stuck(c)

\* The destructor of the server comes to its end when the last shell that was served
\* has left: no thread waits for another, nor for a connection that nobody accepts.
\* Only a thread that is stuck for ever holds it up.
CloseEnds ==
    process = "closing" /\ (\A c \in Clients : thread[c] # "none" => shell[c] = "off")
       ~> process = "ended" \/ \E c \in Clients : []Stuck(c)

\* "will connect the client to the file system server we created": a shell that has
\* connected comes to its prompt, or to its end, while the server and its disk are
\* there. The code does not keep this.
Prompted == \A c \in Clients :
    shell[c] = "hello" ~> shell[c] # "hello" \/ disk = "lost" \/ process # "up"
=============================================================================
