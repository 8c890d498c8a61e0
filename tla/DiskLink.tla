------------------------------- MODULE DiskLink -------------------------------
(***************************************************************************)
(* The storage of step 3: src/src/disk_client.h in the file system's       *)
(* process, src/src/virtual_drive.h in the disk's process, and the TCP     *)
(* connection between them.                                                *)
(*                                                                         *)
(* Several threads call read, write and shutdown; one thread of the client *)
(* hands the responses to them; one thread of the drive serves one         *)
(* connection at a time, one request after the other.  Each of the two     *)
(* processes may die at any moment and be started again; what the drive    *)
(* has stored stays in its file.                                           *)
(*                                                                         *)
(* The fields of one message are sent under socket_write_mutex_, or by the *)
(* one thread there is, and arrive in order: a message is one element of a *)
(* queue.  Only the message that a dying process was sending may be cut    *)
(* off, and only in a write's data does it matter where.                   *)
(***************************************************************************)
EXTENDS Integers, Sequences, FiniteSets

CONSTANTS
    Callers, Sectors, Values, Blank, Torn, Pending,   \* as in SectorStore
    Nobody,    \* no entry in waiting_list_
    MaxTid     \* bound: the transactions of one client process

ASSUME BoundAssumption == MaxTid \in Nat \ {0}   \* GET_DESC has number 0
ASSUME ValueAssumption == /\ Blank \notin Values /\ Torn \notin Values /\ Pending \notin Values
                          /\ Blank # Torn /\ Blank # Pending /\ Torn # Pending
ASSUME CallerAssumption == Nobody \notin Callers /\ "none" \notin Sectors

VARIABLES
    client,    \* "off"; "asking" in the constructor; "up"; "deaf" when the
               \* handler thread has returned; "closing" in the destructor; "astray"
               \* when the handler takes data for a header
    counter,   \* tid_counter_
    pc,        \* how many of the steps of a call a thread has done
    call,      \* the call it is in
    sig,       \* sig_wake_ of the call's transaction
    buf,       \* where writeback_data_ of a thread's reads points to
    waiting,   \* waiting_list_, from tids to the threads that own the transactions
    link,      \* "none"; "open"; "broken" by the client's end; "lost" by the drive's
    toDrive,   \* requests on the connection the drive serves
    toClient,  \* responses on it
    drive,     \* "off"; "accepting"; "serving"; "busy" with cur; "replying" to it
    cur,       \* the request the drive is busy with
    file,      \* the sectors in the mapped file
    effect     \* history, not in the code: what the drive did for each call

clientVars == <<client, counter, pc, call, sig, buf, waiting>>
vars == <<client, counter, pc, call, sig, buf, waiting, link, toDrive, toClient,
          drive, cur, file, effect>>

Contents == Values \cup {Blank, Torn}
Tids == 0 .. MaxTid

Requests == [kind : {"read"}, sector : Sectors, value : {Blank}]
       \cup [kind : {"write"}, sector : Sectors, value : Values]
       \cup {[kind |-> "shutdown", sector |-> "none", value |-> Blank]}
GetDesc == [kind |-> "desc", sector |-> "none", value |-> Blank]

Message(r, t, w) == [kind |-> r.kind, sector |-> r.sector, value |-> r.value, tid |-> t, whole |-> w]
NoMessage == Message(GetDesc, 0, TRUE)
Messages == {Message(r, t, w) : r \in Requests \cup {GetDesc}, t \in Tids, w \in BOOLEAN}

\* A response: instr, tid and the data that follows them after a read.
Response(m, v) == [kind |-> m.kind, tid |-> m.tid, value |-> v]
Responses == [kind : {"desc", "read", "write", "shutdown"}, tid : Tids, value : Contents]

NoCall == [kind |-> "none", sector |-> "none", value |-> Blank, tid |-> 0]
Numbered(r, t) == [kind |-> r.kind, sector |-> r.sector, value |-> r.value, tid |-> t]
Calls == {NoCall} \cup {Numbered(r, t) : r \in Requests, t \in Tids}

-----------------------------------------------------------------------------
(* The client process: what read, write and shutdown do, in this order *)

\* A slip: the transaction is listed when the request is already on its way.
StepsSentFirst == <<"number", "send", "list", "wait">>

Steps == <<"number", "list", "send", "wait">>

At(c, s) == pc[c] < Len(Steps) /\ Steps[pc[c] + 1] = s

Init ==
    /\ client = "off" /\ counter = 0
    /\ pc = [c \in Callers |-> 0]
    /\ call = [c \in Callers |-> NoCall]
    /\ sig = [c \in Callers |-> FALSE]
    /\ buf = [c \in Callers |-> Blank]
    /\ waiting = [t \in Tids |-> Nobody]
    /\ link = "none" /\ toDrive = << >> /\ toClient = << >>
    /\ drive = "accepting" /\ cur = NoMessage
    /\ file = [s \in Sectors |-> Blank]
    /\ effect = [c \in Callers |-> Pending]

\* The constructor connects, which needs no more than a listening socket, and
\* sends GET_DESC with transaction number 0.
ClientStart ==
    /\ client = "off"
    /\ drive # "off"
    /\ client' = "asking"
    /\ counter' = 0
    /\ waiting' = [t \in Tids |-> Nobody]
    /\ UNCHANGED <<pc, call, sig, buf, link, toDrive, toClient, drive, cur, file, effect>>

\* The description has arrived and start_handler runs the handler.
ClientReady ==
    /\ client = "asking"
    /\ toClient # << >>
    /\ client' = "up"
    /\ counter' = 1
    /\ toClient' = Tail(toClient)
    /\ UNCHANGED <<pc, call, sig, buf, waiting, link, toDrive, drive, cur, file, effect>>

\* A slip: counter_mutex_ is not held, and of two threads that step the counter at once
\* the second takes the number of the first.
TidStepRaced == counter' \in {counter, counter + 1}

TidStep == counter' = counter + 1

\* A thread calls read, write or shutdown: tid_step, and a new transaction.
Number(c) ==
    /\ At(c, "number")
    /\ client \in {"up", "deaf"}
    /\ counter < MaxTid
    /\ TidStep
    /\ \E r \in Requests : call' = [call EXCEPT ![c] = Numbered(r, counter)]
    /\ pc' = [pc EXCEPT ![c] = 1]
    /\ sig' = [sig EXCEPT ![c] = FALSE]
    /\ effect' = [effect EXCEPT ![c] = Pending]
    /\ UNCHANGED <<client, buf, waiting, link, toDrive, toClient, drive, cur, file>>

\* waiting_list_add
List(c) ==
    /\ At(c, "list")
    /\ waiting' = [waiting EXCEPT ![call[c].tid] = c]
    /\ pc' = [pc EXCEPT ![c] = @ + 1]
    /\ UNCHANGED <<client, counter, call, sig, buf, link, toDrive, toClient, drive, cur, file, effect>>

\* The drive may be gone already: what the kernel takes then reaches nobody.
Send(c) ==
    /\ At(c, "send")
    /\ toDrive' = IF link = "open" THEN Append(toDrive, Message(call[c], call[c].tid, TRUE))
                                   ELSE toDrive
    /\ pc' = [pc EXCEPT ![c] = @ + 1]
    /\ UNCHANGED <<client, counter, call, sig, buf, waiting, link, toClient, drive, cur, file, effect>>

\* send throws CLOSED_BY_REMOTE: the call ends, its transaction with it, and the
\* entry in waiting_list_ stays.
SendFails(c) ==
    /\ At(c, "send")
    /\ link = "lost"
    /\ pc' = [pc EXCEPT ![c] = 0]
    /\ call' = [call EXCEPT ![c] = NoCall]
    /\ UNCHANGED <<client, counter, sig, buf, waiting, link, toDrive, toClient, drive, cur, file, effect>>

\* sig_wake_ is acquired and the call returns.
Wake(c) ==
    /\ At(c, "wait")
    /\ sig[c]
    /\ pc' = [pc EXCEPT ![c] = 0]
    /\ call' = [call EXCEPT ![c] = NoCall]
    /\ sig' = [sig EXCEPT ![c] = FALSE]
    /\ UNCHANGED <<client, counter, buf, waiting, link, toDrive, toClient, drive, cur, file, effect>>

\* response_handler: the response's transaction is taken off the list, its data
\* is read to where it says, and its thread is woken. Nobody reads the data of a
\* response that belongs to none: the next header is looked for in it.
Handle ==
    /\ client = "up"
    /\ toClient # << >>
    /\ LET m == Head(toClient)
           c == waiting[m.tid]
       IN  IF c # Nobody
           THEN /\ waiting' = [waiting EXCEPT ![m.tid] = Nobody]
                /\ buf' = IF m.kind = "read" THEN [buf EXCEPT ![c] = m.value] ELSE buf
                /\ sig' = [sig EXCEPT ![c] = TRUE]
                /\ UNCHANGED client
           ELSE /\ client' = IF m.kind = "read" THEN "astray" ELSE client
                /\ UNCHANGED <<waiting, buf, sig>>
    /\ toClient' = Tail(toClient)
    /\ UNCHANGED <<counter, pc, call, link, toDrive, drive, cur, file, effect>>

\* The destructor: handler_loop_ is cleared, and the handler joined, which is in
\* recv and sees the flag when that returns. Nobody closes the socket for it.
Leave ==
    /\ client = "up"
    /\ \A c \in Callers : pc[c] = 0
    /\ client' = "closing"
    /\ UNCHANGED <<counter, pc, call, sig, buf, waiting, link, toDrive, toClient, drive, cur, file, effect>>

\* A slip: an end of the connection is met with another recv.
HandlerGoesOn ==
    /\ client \in {"up", "asking", "closing"}
    /\ link = "lost" /\ toClient = << >>
    /\ UNCHANGED vars

\* recv throws CLOSED_BY_REMOTE and the handler returns, whoever waits; in the
\* constructor the exception ends the process, in the destructor the join is over.
HandlerReturns ==
    /\ client \in {"up", "asking", "closing"}
    /\ link = "lost" /\ toClient = << >>
    /\ client' = IF client = "up" THEN "deaf" ELSE "off"
    /\ link' = IF client = "up" THEN link ELSE "none"
    /\ buf' = IF client = "up" THEN buf ELSE [c \in Callers |-> Blank]
    /\ UNCHANGED <<counter, pc, call, sig, waiting, toDrive, toClient, drive, cur, file, effect>>

\* Connected to a drive that died before it accepted: the same.
AskFails ==
    /\ client = "asking"
    /\ drive = "off" /\ link = "none"
    /\ client' = "off"
    /\ UNCHANGED <<counter, pc, call, sig, buf, waiting, link, toDrive, toClient, drive, cur, file, effect>>

\* The messages whose last bytes a dying process has not sent: none, or the one of
\* a thread that is in send.
CutOff == {<< >>} \cup {<<Message(call[c], call[c].tid, FALSE)>> :
                            c \in {d \in Callers : At(d, "send") /\ call[d].kind = "write"}}

\* The process ends: it is killed, an exception leaves one of its threads, or it
\* is done. What it sent is still on its way.
ClientDies ==
    /\ client # "off"
    /\ client' = "off"
    /\ pc' = [c \in Callers |-> 0]
    /\ call' = [c \in Callers |-> NoCall]
    /\ sig' = [c \in Callers |-> FALSE]
    /\ buf' = [c \in Callers |-> Blank]
    /\ effect' = [c \in Callers |-> Pending]
    /\ link' = IF link \in {"open", "broken"} THEN "broken" ELSE "none"
    /\ IF link = "open" THEN \E m \in CutOff : toDrive' = toDrive \o m
                        ELSE UNCHANGED toDrive
    /\ toClient' = << >>
    /\ UNCHANGED <<counter, waiting, drive, cur, file>>

-----------------------------------------------------------------------------
(* The drive process: request_receiver *)

\* accept, and the constructor's request on the new connection. (A connection that
\* ended before it was accepted carries no other request and is left out.)
Accept ==
    /\ drive = "accepting"
    /\ client = "asking" /\ link = "none"
    /\ drive' = "serving"
    /\ link' = "open"
    /\ toDrive' = <<Message(GetDesc, 0, TRUE)>>
    /\ toClient' = << >>
    /\ UNCHANGED <<clientVars, cur, file, effect>>

\* instr, tid and addr are received; the head moves.
Take ==
    /\ drive = "serving"
    /\ toDrive # << >>
    /\ drive' = "busy"
    /\ cur' = Head(toDrive)
    /\ toDrive' = Tail(toDrive)
    /\ UNCHANGED <<clientVars, link, toClient, file, effect>>

\* The thread goes on to the next request, or out of its loops.
Respond(v, next) ==
    /\ toClient' = IF link = "open" THEN Append(toClient, Response(cur, v)) ELSE toClient
    /\ drive' = next
    /\ cur' = NoMessage

\* The call that the request in cur belongs to has had its effect.
Effect(v) ==
    effect' = IF link = "open" /\ waiting[cur.tid] # Nobody
              THEN [effect EXCEPT ![waiting[cur.tid]] = v] ELSE effect

Describe ==
    /\ drive = "busy" /\ cur.kind = "desc"
    /\ Respond(Blank, "serving")
    /\ UNCHANGED <<clientVars, link, toDrive, file, effect>>

Read ==
    /\ drive = "busy" /\ cur.kind = "read"
    /\ Respond(file[cur.sector], "serving")
    /\ Effect(file[cur.sector])
    /\ UNCHANGED <<clientVars, link, toDrive, file>>

\* A slip: the data is received into the transaction's buffer and left there, as in
\* the scheduler that the source keeps in comments.
WriteToBuffer ==
    /\ drive = "busy" /\ cur.kind = "write" /\ cur.whole
    /\ Effect(cur.value)
    /\ drive' = "replying"
    /\ UNCHANGED <<clientVars, link, toDrive, toClient, cur, file>>

\* The data is received into the mapped file, and the answer sent after that.
Write ==
    /\ drive = "busy" /\ cur.kind = "write" /\ cur.whole
    /\ file' = [file EXCEPT ![cur.sector] = cur.value]
    /\ Effect(cur.value)
    /\ drive' = "replying"
    /\ UNCHANGED <<clientVars, link, toDrive, toClient, cur>>

\* A slip: the thread waits for the next request without having answered.
AcknowledgeNot ==
    /\ drive = "replying"
    /\ drive' = "serving"
    /\ cur' = NoMessage
    /\ UNCHANGED <<clientVars, link, toDrive, toClient, file, effect>>

Acknowledge ==
    /\ drive = "replying"
    /\ Respond(Blank, "serving")
    /\ UNCHANGED <<clientVars, link, toDrive, file, effect>>

\* Both loops end after the answer, the process ends, and its connection with it:
\* the requests behind this one are never served.
ShutDown ==
    /\ drive = "busy" /\ cur.kind = "shutdown"
    /\ Respond(Blank, "off")
    /\ Effect(Blank)
    /\ link' = IF link = "open" THEN "lost" ELSE "none"
    /\ toDrive' = << >>
    /\ UNCHANGED <<clientVars, file>>

\* A slip: connection_socket_ keeps the connection that has ended.
HangUpNot(next) ==
    /\ UNCHANGED <<link, toDrive>>
    /\ drive' = next
    /\ cur' = NoMessage

\* The connection is given up, and what is still in it dropped.
HangUp(next) ==
    /\ link' = IF link = "open" THEN "lost" ELSE IF link = "broken" THEN "none" ELSE link
    /\ toDrive' = << >>
    /\ drive' = next
    /\ cur' = NoMessage

\* A slip: continue for break, when the client has left.
StayOnEof ==
    /\ drive = "serving"
    /\ link = "broken" /\ toDrive = << >>
    /\ UNCHANGED vars

\* recv or send throws CLOSED_BY_REMOTE: recv when everything that the client sent
\* is read, send at any time after its end.
Eof ==
    /\ drive = "serving"
    /\ link = "broken" /\ toDrive = << >>
    /\ HangUp("accepting")
    /\ UNCHANGED <<clientVars, toClient, file, effect>>

SendFailed ==
    /\ drive = "busy" => cur.kind \in {"desc", "read"}
    /\ drive \in {"busy", "replying"}
    /\ link = "broken"
    /\ HangUp("accepting")
    /\ UNCHANGED <<clientVars, toClient, file, effect>>

\* The sector holds as much of the data as there was.
Spoiled(m) == {file} \cup {[file EXCEPT ![s] = Torn] : s \in {m.sector} \ {"none"}}

DataCutOff ==
    /\ drive = "busy" /\ cur.kind = "write" /\ ~cur.whole
    /\ file' \in Spoiled(cur)
    /\ HangUp("accepting")
    /\ UNCHANGED <<clientVars, toClient, effect>>

\* The process ends: it is killed, or recv or send fails in another way (a reset),
\* which leaves the thread as an exception. A sector it was storing is cut off.
DriveDies ==
    /\ drive # "off"
    /\ file' \in IF drive = "busy" /\ cur.kind = "write" THEN Spoiled(cur) ELSE {file}
    /\ HangUp("off")
    /\ UNCHANGED <<clientVars, toClient, effect>>

\* The file is mapped as the process before left it. (The constructor clears the
\* disk's last byte, which RawDisk has: the sectors here are not the last one.)
DriveStart ==
    /\ drive = "off"
    /\ drive' = "accepting"
    /\ UNCHANGED <<clientVars, link, toDrive, toClient, cur, file, effect>>

-----------------------------------------------------------------------------
ClientNext ==
    \/ ClientStart \/ ClientReady \/ Handle \/ Leave \/ HandlerReturns \/ AskFails \/ ClientDies
    \/ \E c \in Callers : Number(c) \/ List(c) \/ Send(c) \/ SendFails(c) \/ Wake(c)

Serve == Take \/ Describe \/ Read \/ Write \/ Acknowledge \/ ShutDown \/ Eof \/ SendFailed \/ DataCutOff

DriveNext == Accept \/ Serve \/ DriveDies \/ DriveStart

Next == ClientNext \/ DriveNext

Spec == Init /\ [][Next]_vars

\* A thread that can run does, sooner or later. Nothing says that a call is ever
\* made, that a process dies, or that a process is started.
FairSpec ==
    /\ Spec
    /\ WF_vars(ClientReady) /\ WF_vars(Handle) /\ WF_vars(HandlerReturns)
    /\ \A c \in Callers : WF_vars(List(c)) /\ WF_vars(Send(c) \/ SendFails(c)) /\ WF_vars(Wake(c))
    /\ WF_vars(Accept) /\ WF_vars(Serve)

-----------------------------------------------------------------------------
\* Every variable has its type; a thread is in a call only while its process runs,
\* and the drive has a connection exactly while it serves one.
TypeOK ==
    /\ client \in {"off", "asking", "up", "deaf", "closing", "astray"}
    /\ counter \in Tids
    /\ pc \in [Callers -> 0 .. Len(Steps) - 1]
    /\ call \in [Callers -> Calls]
    /\ sig \in [Callers -> BOOLEAN]
    /\ buf \in [Callers -> Contents]
    /\ waiting \in [Tids -> Callers \cup {Nobody}]
    /\ link \in {"none", "open", "broken", "lost"}
    /\ toDrive \in Seq(Messages)
    /\ toClient \in Seq(Responses)
    /\ drive \in {"off", "accepting", "serving", "busy", "replying"}
    /\ cur \in Messages
    /\ file \in [Sectors -> Contents]
    /\ effect \in [Callers -> Contents \cup {Pending}]
    /\ \A c \in Callers : /\ pc[c] > 0 => client \in {"up", "deaf", "astray"}
                          /\ pc[c] > 0 <=> call[c] # NoCall
    /\ link \in {"open", "broken"} <=> drive \in {"serving", "busy", "replying"}

\* The handler never meets a response that it cannot hand to the thread it is for:
\* the transaction on the list is that of a call of the same kind, which waits and
\* was not woken yet. Else a thread waits for ever, or another one's data is
\* written through a pointer to a call that has returned, or data is taken for a header.
HandlerInStep ==
    /\ client # "astray"
    /\ client = "up" => \A i \in DOMAIN toClient :
          LET m == toClient[i]
              c == waiting[m.tid]
          IN  /\ c # Nobody
              /\ At(c, "wait") /\ ~sig[c]
              /\ call[c].tid = m.tid /\ call[c].kind = m.kind

\* Where the message with number t is: on its way to the drive, in the drive, or on
\* its way back.
Places(t) == {<<"asked", i>> : i \in {j \in DOMAIN toDrive : toDrive[j].tid = t}}
        \cup {<<"served", 1>> : m \in {n \in {cur} : drive \in {"busy", "replying"} /\ n.tid = t}}
        \cup {<<"answered", i>> : i \in {j \in DOMAIN toClient : toClient[j].tid = t}}

\* While the connection is open, what a thread waits for is in exactly one place:
\* lost, it would wait for ever; there twice, the second answer would come when the
\* call is over, or to the call that has its number next.
InOnePlace ==
    client = "up" /\ link = "open" =>
        \A c \in Callers : At(c, "wait") /\ ~sig[c] =>
            \E p \in Places(call[c].tid) : Places(call[c].tid) = {p}

-----------------------------------------------------------------------------
(* The inductive invariant behind HandlerInStep, InOnePlace and StoreSpec *)

\* Calls have numbers of their own; one that is not sent yet is listed and had no
\* effect; only one that waits is woken.
CallsOK == \A c \in Callers :
    /\ pc[c] > 0 => call[c].tid < counter
    /\ \A d \in Callers \ {c} : pc[c] > 0 /\ pc[d] > 0 => call[c].tid # call[d].tid
    /\ sig[c] => At(c, "wait")
    /\ At(c, "list") \/ At(c, "send") => effect[c] = Pending
    /\ At(c, "send") => waiting[call[c].tid] = c

\* What is left on a connection when one of its ends is gone
LinkOK ==
    /\ link \in {"none", "broken"} => client \in {"off", "asking"} /\ toClient = << >>
    /\ link \in {"none", "lost"} => toDrive = << >>
    /\ client = "deaf" => link = "lost" /\ toClient = << >>
    /\ client = "off" => link \in {"none", "broken"}
    /\ client \in {"off", "asking"} => buf = [c \in Callers |-> Blank]
    /\ client # "astray"

\* The first request of a connection is alone on it.
AskingOK == client = "asking" =>
    /\ Len(toClient) <= 1
    /\ link = "open" => LET ask == Message(GetDesc, 0, TRUE)
                        IN  \/ drive = "serving" /\ toDrive = <<ask>> /\ toClient = << >>
                            \/ drive = "busy" /\ cur = ask /\ toDrive = << >> /\ toClient = << >>
                            \/ drive = "serving" /\ toDrive = << >> /\ Len(toClient) = 1

\* The thread that message m belongs to waits for its answer.
Awaits(c, m) == /\ waiting[m.tid] = c
                /\ At(c, "wait") /\ ~sig[c]
                /\ call[c].tid = m.tid /\ call[c].kind = m.kind

\* A request that had no effect yet, one that had, and a response
Asked(m) == m.whole /\ \E c \in Callers : /\ Awaits(c, m) /\ effect[c] = Pending
                                          /\ call[c].sector = m.sector /\ call[c].value = m.value
Done(m) == m.kind = "write" /\ \E c \in Callers : Awaits(c, m) /\ effect[c] # Pending
Answered(m) == \E c \in Callers : /\ Awaits(c, m) /\ effect[c] # Pending
                                  /\ m.kind = "read" => effect[c] = m.value

\* No two messages of a queue have one number.
Distinct(q) == \A i, j \in DOMAIN q : q[i].tid = q[j].tid => i = j

\* Each message on an open connection is the one message of a thread that waits.
MessagesOK == client \in {"up", "closing"} =>
    /\ Distinct(toClient)
    /\ \A i \in DOMAIN toClient : Answered(toClient[i])
    /\ link = "open" =>
          /\ Distinct(toDrive)
          /\ \A i \in DOMAIN toDrive : Asked(toDrive[i])
          /\ drive = "busy" => /\ Asked(cur)
                               /\ \A i \in DOMAIN toDrive : toDrive[i].tid # cur.tid
          /\ drive = "replying" => /\ Done(cur)
                                   /\ \A i \in DOMAIN toClient : toClient[i].tid # cur.tid

LinkInv == TypeOK /\ CallsOK /\ LinkOK /\ AskingOK /\ MessagesOK

\* The other direction: what a thread waits for is somewhere.
Present(t) == \/ \E i \in DOMAIN toDrive : toDrive[i].tid = t
              \/ drive \in {"busy", "replying"} /\ cur.tid = t
              \/ \E i \in DOMAIN toClient : toClient[i].tid = t

NoneLost == client = "up" /\ link = "open" =>
    \A c \in Callers : At(c, "wait") /\ ~sig[c] => Present(call[c].tid)

-----------------------------------------------------------------------------
(* The storage that the threads see *)

\* What the threads see is a storage whose reads and writes each take effect at one
\* moment of the call, and on which nothing of a dead process happens any more when
\* the next one has started.
LateWrites == IF link # "broken" THEN {} ELSE
    {[sector |-> m.sector, value |-> m.value] :
        m \in {n \in {toDrive[i] : i \in DOMAIN toDrive} \cup (IF drive = "busy" THEN {cur} ELSE {}) :
                  n.kind = "write"}}

Store == INSTANCE SectorStore WITH
    store <- file,
    up <- client \in {"up", "deaf", "closing", "astray"},
    op <- [c \in Callers |->
              IF pc[c] = 0 \/ sig[c]
              THEN [kind |-> "none", sector |-> "none", value |-> Blank, effect |-> Pending]
              ELSE [kind |-> call[c].kind, sector |-> call[c].sector,
                    value |-> call[c].value, effect |-> effect[c]]],
    ret <- buf,
    late <- LateWrites

StoreSpec == Store!SSpec

\* A call returns, unless the connection ends: a response is not lost, and no
\* response wakes another thread. (When the connection ends, nobody is woken.)
CallsReturn == \A c \in Callers : pc[c] > 0 ~> (pc[c] = 0 \/ link # "open")

\* A new process gets the drive, whatever the one before left on its connection,
\* unless the drive ends.
NextIsServed == client = "asking" ~> (client # "asking" \/ drive = "off")

\* A process that destroys its disk client ends, once its connection has: the
\* shell after "E", for one. (Else the join waits for the drive to end.)
JoinReturns == client = "closing" /\ link = "lost" ~> client = "off"
=============================================================================
