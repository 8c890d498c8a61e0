----------------------------- MODULE DiskLinkProofs -----------------------------
(***************************************************************************)
(* The link between the file system and its disk, for every number of      *)
(* threads, sectors and calls: every response reaches the thread it is     *)
(* for, and what the threads see is the storage of SectorStore.            *)
(***************************************************************************)
EXTENDS DiskLink, SequenceTheorems, TLAPS

-----------------------------------------------------------------------------
(* Lemmas about the operators *)

\* Where a thread is in a call, by number.
LEMMA StepNumbers ==
    ASSUME TypeOK, NEW c \in Callers
    PROVE  /\ pc[c] \in 0 .. 3
           /\ At(c, "number") <=> pc[c] = 0
           /\ At(c, "list") <=> pc[c] = 1
           /\ At(c, "send") <=> pc[c] = 2
           /\ At(c, "wait") <=> pc[c] = 3
<1>1. Len(Steps) = 4 /\ Steps[1] = "number" /\ Steps[2] = "list" /\ Steps[3] = "send"
      /\ Steps[4] = "wait"
  BY DEF Steps
<1>2. pc[c] \in 0 .. 3
  BY <1>1 DEF TypeOK
<1>3. CASE pc[c] = 0
  BY <1>1, <1>3 DEF At
<1>4. CASE pc[c] = 1
  BY <1>1, <1>4 DEF At
<1>5. CASE pc[c] = 2
  BY <1>1, <1>5 DEF At
<1>6. CASE pc[c] = 3
  BY <1>1, <1>6 DEF At
<1> QED BY <1>2, <1>3, <1>4, <1>5, <1>6

LEMMA StepNumbersNext ==
    ASSUME TypeOK', NEW c \in Callers
    PROVE  /\ pc'[c] \in 0 .. 3
           /\ At(c, "number")' <=> pc'[c] = 0
           /\ At(c, "list")' <=> pc'[c] = 1
           /\ At(c, "send")' <=> pc'[c] = 2
           /\ At(c, "wait")' <=> pc'[c] = 3
<1>1. Len(Steps) = 4 /\ Steps[1] = "number" /\ Steps[2] = "list" /\ Steps[3] = "send"
      /\ Steps[4] = "wait"
  BY DEF Steps
<1>2. pc'[c] \in 0 .. 3
  BY <1>1 DEF TypeOK
<1>3. CASE pc'[c] = 0
  BY <1>1, <1>3 DEF At
<1>4. CASE pc'[c] = 1
  BY <1>1, <1>4 DEF At
<1>5. CASE pc'[c] = 2
  BY <1>1, <1>5 DEF At
<1>6. CASE pc'[c] = 3
  BY <1>1, <1>6 DEF At
<1> QED BY <1>2, <1>3, <1>4, <1>5, <1>6

\* What a request may be, and what is in a message of a call.
LEMMA RequestType ==
    ASSUME NEW r \in Requests
    PROVE  /\ r.kind \in {"read", "write", "shutdown"}
           /\ r.kind # "shutdown" => r.sector \in Sectors
           /\ r.kind = "shutdown" => r.sector = "none"
           /\ r.value \in Values \cup {Blank}
           /\ r.kind = "write" => r.value \in Values
BY DEF Requests

LEMMA MessageType ==
    ASSUME NEW m \in Messages
    PROVE  /\ m.kind \in {"desc", "read", "write", "shutdown"}
           /\ m.kind \in {"read", "write"} => m.sector \in Sectors
           /\ m.kind \notin {"read", "write"} => m.sector = "none"
           /\ m.value \in Values \cup {Blank}
           /\ m.kind = "write" => m.value \in Values
           /\ m.tid \in Tids
           /\ m.whole \in BOOLEAN
<1>1. PICK r \in Requests \cup {GetDesc}, t \in Tids, w \in BOOLEAN : m = Message(r, t, w)
  BY DEF Messages
<1> QED BY <1>1, RequestType DEF Message, GetDesc

LEMMA CallType ==
    ASSUME TypeOK, NEW c \in Callers, pc[c] > 0
    PROVE  /\ \E r \in Requests : call[c] = Numbered(r, call[c].tid)
           /\ call[c].tid \in Tids
           /\ call[c].kind \in {"read", "write", "shutdown"}
           /\ \A w \in BOOLEAN : Message(call[c], call[c].tid, w) \in Messages
<1>1. call[c] \in Calls \ {NoCall}
  BY DEF TypeOK
<1>2. PICK r \in Requests, t \in Tids : call[c] = Numbered(r, t)
  BY <1>1 DEF Calls
<1>3. call[c].tid = t /\ call[c].kind = r.kind
  BY <1>2 DEF Numbered
<1>4. \A w \in BOOLEAN : Message(call[c], call[c].tid, w) = Message(r, t, w)
  BY <1>2 DEF Numbered, Message
<1>5. \A w \in BOOLEAN : Message(call[c], call[c].tid, w) \in Messages
  BY <1>3, <1>4 DEF Messages
<1>6. call[c].kind \in {"read", "write", "shutdown"}
  BY <1>3, RequestType
<1> QED BY <1>2, <1>3, <1>5, <1>6

LEMMA MessageIn ==
    ASSUME NEW r \in Requests \cup {GetDesc}, NEW t \in Tids, NEW w \in BOOLEAN
    PROVE  Message(r, t, w) \in Messages
BY DEF Messages

LEMMA NoMessageType == NoMessage \in Messages
<1>1. 0 \in Tids /\ TRUE \in BOOLEAN /\ GetDesc \in Requests \cup {GetDesc}
  BY BoundAssumption DEF Tids
<1>2. Message(GetDesc, 0, TRUE) \in Messages
  <2> HIDE DEF GetDesc
  <2> QED BY <1>1, MessageIn
<1> QED BY <1>2 DEF NoMessage

\* A queue without its head, and with one message more.
LEMMA TailPlaces ==
    ASSUME NEW S, NEW q \in Seq(S), q # << >>
    PROVE  /\ Head(q) \in S /\ Tail(q) \in Seq(S)
           /\ 1 \in DOMAIN q /\ Head(q) = q[1]
           /\ \A i \in DOMAIN Tail(q) : i + 1 \in DOMAIN q /\ Tail(q)[i] = q[i + 1] /\ i \in Nat \ {0}
           /\ Len(Tail(q)) = Len(q) - 1 /\ Len(q) \in Nat
<1>1. Len(q) \in Nat \ {0} /\ DOMAIN q = 1 .. Len(q)
  BY EmptySeq, LenProperties
<1>2. Tail(q) \in Seq(S) /\ Len(Tail(q)) = Len(q) - 1
      /\ \A i \in 1 .. Len(q) - 1 : Tail(q)[i] = q[i + 1]
  BY HeadTailProperties
<1>3. DOMAIN Tail(q) = 1 .. Len(q) - 1
  BY <1>2, LenProperties
<1>4. Head(q) \in S /\ Head(q) = q[1]
  BY HeadTailProperties
<1> QED BY <1>1, <1>2, <1>3, <1>4

LEMMA AppendPlaces ==
    ASSUME NEW S, NEW q \in Seq(S), NEW m \in S
    PROVE  /\ Append(q, m) \in Seq(S)
           /\ Len(Append(q, m)) = Len(q) + 1 /\ Len(q) \in Nat
           /\ DOMAIN q = 1 .. Len(q) /\ DOMAIN Append(q, m) = 1 .. Len(q) + 1
           /\ \A i \in DOMAIN Append(q, m) :
                 \/ i \in DOMAIN q /\ Append(q, m)[i] = q[i]
                 \/ i = Len(q) + 1 /\ Append(q, m)[i] = m
<1>1. /\ Append(q, m) \in Seq(S) /\ Len(Append(q, m)) = Len(q) + 1
      /\ \A i \in 1 .. Len(q) : Append(q, m)[i] = q[i]
      /\ Append(q, m)[Len(q) + 1] = m
  BY AppendProperties
<1>2. Len(q) \in Nat /\ DOMAIN q = 1 .. Len(q) /\ DOMAIN Append(q, m) = 1 .. Len(q) + 1
  BY <1>1, LenProperties
<1>3. \A i \in 1 .. Len(q) + 1 : i \in 1 .. Len(q) \/ i = Len(q) + 1
  BY <1>2
<1> QED BY <1>1, <1>2, <1>3

\* If no message of a queue has the number of the next one, they stay distinct.
LEMMA DistinctAppend ==
    ASSUME NEW S, NEW q \in Seq(S), NEW m \in S, Distinct(q),
           \A i \in DOMAIN q : q[i].tid # m.tid
    PROVE  Distinct(Append(q, m))
<1> SUFFICES ASSUME NEW i \in DOMAIN Append(q, m), NEW j \in DOMAIN Append(q, m),
                    Append(q, m)[i].tid = Append(q, m)[j].tid
             PROVE  i = j
  BY DEF Distinct
<1>1. \/ i \in DOMAIN q /\ Append(q, m)[i] = q[i]
      \/ i = Len(q) + 1 /\ Append(q, m)[i] = m
  BY AppendPlaces
<1>2. \/ j \in DOMAIN q /\ Append(q, m)[j] = q[j]
      \/ j = Len(q) + 1 /\ Append(q, m)[j] = m
  BY AppendPlaces
<1> QED BY <1>1, <1>2 DEF Distinct

LEMMA DistinctTail ==
    ASSUME NEW S, NEW q \in Seq(S), q # << >>, Distinct(q)
    PROVE  /\ Distinct(Tail(q))
           /\ \A i \in DOMAIN Tail(q) : Tail(q)[i].tid # Head(q).tid
<1>1. ASSUME NEW i \in DOMAIN Tail(q), NEW j \in DOMAIN Tail(q), Tail(q)[i].tid = Tail(q)[j].tid
      PROVE  i = j
  <2>1. i + 1 = j + 1
    BY <1>1, TailPlaces DEF Distinct
  <2>2. i \in Nat /\ j \in Nat
    BY TailPlaces
  <2> QED BY <2>1, <2>2
<1>2. ASSUME NEW i \in DOMAIN Tail(q), Tail(q)[i].tid = Head(q).tid
      PROVE  FALSE
  <2>1. i + 1 = 1
    BY <1>2, TailPlaces DEF Distinct
  <2>2. i \in Nat \ {0}
    BY TailPlaces
  <2> QED BY <2>1, <2>2
<1> QED BY <1>1, <1>2 DEF Distinct

-----------------------------------------------------------------------------
(* Type correctness *)

LEMMA TypeInit == Init => TypeOK
BY BoundAssumption, NoMessageType
   DEF Init, TypeOK, Tids, Steps, Calls, Contents

\* The steps of the threads that call.
LEMMA CallerType ==
    ASSUME TypeOK, NEW c \in Callers, Number(c) \/ List(c) \/ Send(c) \/ SendFails(c) \/ Wake(c)
    PROVE  TypeOK'
<1>0. Len(Steps) = 4
  BY DEF Steps
<1>1. CASE Number(c)
  <2>1. pc[c] = 0 /\ counter \in Tids /\ counter' \in Tids
    BY <1>1, StepNumbers, BoundAssumption DEF Number, TidStep, TypeOK, Tids
  <2>2. PICK r \in Requests : call' = [call EXCEPT ![c] = Numbered(r, counter)]
    BY <1>1 DEF Number
  <2>3. Numbered(r, counter) \in Calls /\ Numbered(r, counter) # NoCall
    <3>1. Numbered(r, counter) \in Calls
      BY <2>1 DEF Calls
    <3>2. Numbered(r, counter).kind # NoCall.kind
      BY RequestType DEF Numbered, NoCall
    <3> QED BY <3>1, <3>2
  <2> QED BY <1>0, <1>1, <2>1, <2>2, <2>3 DEF Number, TypeOK
<1>2. CASE List(c)
  <2>1. pc[c] = 1 /\ call[c].tid \in Tids
    BY <1>2, StepNumbers, CallType DEF List
  <2> QED BY <1>0, <1>2, <2>1 DEF List, TypeOK
<1>3. CASE Send(c)
  <2>1. pc[c] = 2
    BY <1>3, StepNumbers DEF Send
  <2> DEFINE m == Message(call[c], call[c].tid, TRUE)
  <2>2. m \in Messages
    <3>1. pc[c] > 0
      BY <2>1
    <3> QED BY <3>1, CallType
  <2>3. toDrive' \in Seq(Messages)
    <3>1. toDrive' = Append(toDrive, m) \/ toDrive' = toDrive
      BY <1>3 DEF Send
    <3>2. toDrive \in Seq(Messages)
      BY DEF TypeOK
    <3> HIDE DEF m
    <3>3. Append(toDrive, m) \in Seq(Messages)
      BY <2>2, <3>2, AppendPlaces
    <3> QED BY <3>1, <3>2, <3>3
  <2>4. pc' = [pc EXCEPT ![c] = 3]
    BY <1>3, <2>1 DEF Send
  <2>5. pc' \in [Callers -> 0 .. 3] /\ \A d \in Callers : pc'[d] > 0 <=> pc[d] > 0
    BY <1>0, <2>1, <2>4 DEF TypeOK
  <2>6. UNCHANGED <<client, counter, call, sig, buf, waiting, link, toClient, drive, cur, file, effect>>
    BY <1>3 DEF Send
  <2> QED BY <1>0, <2>3, <2>5, <2>6 DEF TypeOK
<1>4. CASE SendFails(c)
  BY <1>0, <1>4 DEF SendFails, TypeOK, Calls
<1>5. CASE Wake(c)
  BY <1>0, <1>5 DEF Wake, TypeOK, Calls
<1> QED BY <1>1, <1>2, <1>3, <1>4, <1>5

\* The steps of the client process and its handler.
LEMMA ProcessType ==
    ASSUME TypeOK, \/ ClientStart \/ ClientReady \/ Handle \/ Leave \/ HandlerReturns
                   \/ AskFails \/ ClientDies
    PROVE  TypeOK'
<1>1. CASE ClientStart
  BY <1>1, BoundAssumption DEF ClientStart, TypeOK, Tids
<1>2. CASE ClientReady
  <2>1. toClient' \in Seq(Responses) /\ counter' \in Tids
    BY <1>2, TailPlaces, BoundAssumption DEF ClientReady, TypeOK, Tids
  <2> QED BY <1>2, <2>1 DEF ClientReady, TypeOK
<1>3. CASE Handle
  <2>1. toClient' \in Seq(Responses) /\ Head(toClient) \in Responses
    BY <1>3, TailPlaces DEF Handle, TypeOK
  <2>2. Head(toClient).tid \in Tids /\ Head(toClient).value \in Contents
    BY <2>1 DEF Responses
  <2>3. waiting[Head(toClient).tid] \in Callers \cup {Nobody}
    BY <2>2 DEF TypeOK
  <2>4. /\ client' \in {client, "astray"} /\ waiting' \in [Tids -> Callers \cup {Nobody}]
        /\ buf' \in [Callers -> Contents] /\ sig' \in [Callers -> BOOLEAN]
    BY <1>3, <2>2, <2>3 DEF Handle, TypeOK
  <2> QED BY <1>3, <2>1, <2>4 DEF Handle, TypeOK
<1>4. CASE Leave
  BY <1>4 DEF Leave, TypeOK
<1>5. CASE HandlerReturns
  BY <1>5 DEF HandlerReturns, TypeOK, Contents
<1>6. CASE AskFails
  BY <1>6 DEF AskFails, TypeOK
<1>7. CASE ClientDies
  <2>1. toDrive' \in Seq(Messages)
    <3>1. CASE link = "open"
      <4>1. PICK q \in CutOff : toDrive' = toDrive \o q
        BY <1>7, <3>1 DEF ClientDies
      <4>2. q \in Seq(Messages)
        <5>1. CASE q = << >>
          BY <5>1
        <5>2. CASE q # << >>
          <6>1. PICK c \in Callers : At(c, "send") /\ q = <<Message(call[c], call[c].tid, FALSE)>>
            BY <5>2 DEF CutOff
          <6> DEFINE m == Message(call[c], call[c].tid, FALSE)
          <6>2. pc[c] > 0
            BY <6>1, StepNumbers
          <6>3. m \in Messages
            BY <6>2, CallType
          <6> HIDE DEF m
          <6>4. <<m>> \in Seq(Messages)
            BY <6>3
          <6> QED BY <6>1, <6>4 DEF m
        <5> QED BY <5>1, <5>2
      <4> QED BY <4>1, <4>2, ConcatProperties DEF TypeOK
    <3>2. CASE link # "open"
      BY <1>7, <3>2 DEF ClientDies, TypeOK
    <3> QED BY <3>1, <3>2
  <2>2. pc' \in [Callers -> 0 .. Len(Steps) - 1]
    BY <1>7 DEF ClientDies, Steps
  <2>3. toClient' \in Seq(Responses)
    BY <1>7 DEF ClientDies
  <2> QED BY <1>7, <2>1, <2>2, <2>3 DEF ClientDies, TypeOK, Calls, Contents
<1> QED BY <1>1, <1>2, <1>3, <1>4, <1>5, <1>6, <1>7

\* A response to the request in cur is one.
LEMMA RespondType ==
    ASSUME TypeOK, NEW v \in Contents, NEW next, Respond(v, next)
    PROVE  toClient' \in Seq(Responses) /\ cur' \in Messages /\ drive' = next
<1>1. Response(cur, v) \in Responses
  BY MessageType DEF Response, Responses, TypeOK
<1> QED BY <1>1, AppendPlaces, NoMessageType DEF Respond, TypeOK

\* The steps of the drive.
LEMMA DriveType ==
    ASSUME TypeOK, DriveNext
    PROVE  TypeOK'
<1> USE DEF TypeOK, clientVars
<1>0. cur \in Messages /\ Blank \in Contents
  BY DEF Contents
<1>1. CASE Accept
  <2>1. NoMessage \in Messages
    BY NoMessageType
  <2>2. <<NoMessage>> \in Seq(Messages)
    BY <2>1
  <2>3. toDrive' \in Seq(Messages) /\ toClient' \in Seq(Responses)
    <3>1. toDrive' = <<NoMessage>> /\ toClient' = << >>
      BY <1>1 DEF Accept, NoMessage
    <3> QED BY <2>2, <3>1
  <2> QED BY <1>1, <2>3 DEF Accept
<1>2. CASE Take
  <2>1. toDrive' \in Seq(Messages) /\ cur' \in Messages
    BY <1>2, TailPlaces DEF Take
  <2> QED BY <1>2, <2>1 DEF Take
<1>3. CASE Describe
  BY <1>0, <1>3, RespondType DEF Describe
<1>4. CASE Read
  <2>1. file[cur.sector] \in Contents
    BY <1>0, <1>4, MessageType DEF Read
  <2>2. effect' \in [Callers -> Contents \cup {Pending}]
    BY <1>4, <2>1 DEF Read, Effect
  <2>3. toClient' \in Seq(Responses) /\ cur' \in Messages /\ drive' = "serving"
    BY <1>4, <2>1, RespondType DEF Read
  <2> QED BY <1>4, <2>2, <2>3 DEF Read
<1>5. CASE Write
  <2>1. cur.value \in Contents /\ cur.sector \in Sectors
    BY <1>0, <1>5, MessageType DEF Write, Contents
  <2>2. effect' \in [Callers -> Contents \cup {Pending}]
    BY <1>5, <2>1 DEF Write, Effect
  <2> QED BY <1>5, <2>1, <2>2 DEF Write
<1>6. CASE Acknowledge
  BY <1>0, <1>6, RespondType DEF Acknowledge
<1>7. CASE ShutDown
  <2>1. effect' \in [Callers -> Contents \cup {Pending}]
    BY <1>0, <1>7 DEF ShutDown, Effect
  <2>2. toClient' \in Seq(Responses) /\ cur' \in Messages /\ drive' = "off"
    BY <1>0, <1>7, RespondType DEF ShutDown
  <2> QED BY <1>7, <2>1, <2>2 DEF ShutDown
<1>8. ASSUME NEW m \in Messages, NEW g \in Spoiled(m) PROVE g \in [Sectors -> Contents]
  BY MessageType DEF Spoiled, Contents
<1>9. CASE Eof \/ SendFailed
  <2>1. toDrive' = << >> /\ cur' = NoMessage /\ drive' = "accepting" /\ link' = "none"
    BY <1>9 DEF Eof, SendFailed, HangUp
  <2>2. UNCHANGED <<client, counter, pc, call, sig, buf, waiting, toClient, file, effect>>
    BY <1>9 DEF Eof, SendFailed
  <2> QED BY <2>1, <2>2, NoMessageType
<1>10. CASE DataCutOff
  <2>1. file' \in [Sectors -> Contents]
    BY <1>0, <1>8, <1>10 DEF DataCutOff
  <2> QED BY <1>10, <2>1, NoMessageType DEF DataCutOff, HangUp
<1>11. CASE DriveDies
  <2>1. file' \in [Sectors -> Contents]
    BY <1>0, <1>8, <1>11 DEF DriveDies
  <2> QED BY <1>11, <2>1, NoMessageType DEF DriveDies, HangUp
<1>12. CASE DriveStart
  BY <1>12 DEF DriveStart
<1> QED BY <1>1, <1>2, <1>3, <1>4, <1>5, <1>6, <1>7, <1>9, <1>10, <1>11, <1>12 DEF DriveNext, Serve

LEMMA TypeStep == TypeOK /\ [Next]_vars => TypeOK'
<1>1. TypeOK /\ UNCHANGED vars => TypeOK'
  BY DEF vars, TypeOK
<1>2. TypeOK /\ Next => TypeOK'
  BY CallerType, ProcessType, DriveType DEF Next, ClientNext
<1> QED BY <1>1, <1>2

\* In every state each variable has its type, a thread is in a call only while its
\* process runs, and the drive has a connection exactly while it serves one.
THEOREM LinkTypeCorrect == Spec => []TypeOK
BY TypeInit, TypeStep, PTL DEF Spec

-----------------------------------------------------------------------------
(* Every message on an open connection is the message of one thread that waits *)

\* The thread of a message is one, and in a call.
LEMMA OneOwner ==
    ASSUME TypeOK, CallsOK, NEW m, NEW c \in Callers, Awaits(c, m)
    PROVE  /\ \A d \in Callers : Awaits(d, m) => d = c
           /\ pc[c] = 3 /\ ~sig[c] /\ waiting[m.tid] = c
           /\ m.kind \in {"read", "write", "shutdown"}
<1>1. pc[c] = 3
  BY StepNumbers DEF Awaits
<1>2. call[c].kind \in {"read", "write", "shutdown"}
  <2>1. pc[c] > 0
    BY <1>1
  <2> QED BY <2>1, CallType
<1> QED BY <1>1, <1>2 DEF Awaits

\* A step that leaves the calls that wait for an answer as they are.
Undisturbed(c) ==
    /\ pc'[c] = pc[c] /\ call'[c] = call[c] /\ sig'[c] = sig[c]
    /\ waiting'[call[c].tid] = waiting[call[c].tid]

LEMMA AwaitsStill ==
    ASSUME TypeOK, TypeOK', NEW c \in Callers, NEW m, Awaits(c, m), Undisturbed(c)
    PROVE  Awaits(c, m)'
<1>1. pc[c] = 3 /\ pc'[c] = 3
  BY StepNumbers DEF Awaits, Undisturbed
<1>2. At(c, "wait")'
  BY <1>1, StepNumbersNext
<1> QED BY <1>2 DEF Awaits, Undisturbed

Keeps == \A c \in Callers : At(c, "wait") /\ ~sig[c] => Undisturbed(c) /\ effect'[c] = effect[c]

LEMMA StillAsked ==
    ASSUME TypeOK, TypeOK', Keeps, NEW m
    PROVE  /\ Asked(m) => Asked(m)'
           /\ Done(m) => Done(m)'
           /\ Answered(m) => Answered(m)'
<1>1. ASSUME NEW c \in Callers, Awaits(c, m)
      PROVE  Awaits(c, m)' /\ effect'[c] = effect[c] /\ call'[c] = call[c]
  <2>1. Undisturbed(c) /\ effect'[c] = effect[c]
    BY <1>1 DEF Keeps, Awaits
  <2> QED BY <1>1, <2>1, AwaitsStill DEF Undisturbed
<1> QED BY <1>1 DEF Asked, Done, Answered

\* If such a step leaves the connection and the client's state, too, all is as it was.
LEMMA SameMessages ==
    ASSUME TypeOK, TypeOK', MessagesOK, Keeps,
           client' \in {"up", "closing"} => client \in {"up", "closing"},
           UNCHANGED <<toClient, toDrive, link, drive, cur>>
    PROVE  MessagesOK'
<1> SUFFICES ASSUME client \in {"up", "closing"} PROVE MessagesOK'
  BY DEF MessagesOK
<1>1. Distinct(toClient') /\ \A i \in DOMAIN toClient' : Answered(toClient[i])'
  BY StillAsked DEF MessagesOK
<1>2. ASSUME link' = "open"
      PROVE  /\ Distinct(toDrive')
             /\ \A i \in DOMAIN toDrive' : Asked(toDrive[i])'
             /\ drive' = "busy" => /\ Asked(cur)'
                                  /\ \A i \in DOMAIN toDrive' : toDrive'[i].tid # cur'.tid
             /\ drive' = "replying" => /\ Done(cur)'
                                      /\ \A i \in DOMAIN toClient' : toClient'[i].tid # cur'.tid
  BY <1>2, StillAsked DEF MessagesOK
<1> QED BY <1>1, <1>2 DEF MessagesOK

\* A thread that calls touches nobody else's call.
LEMMA CallerMessages ==
    ASSUME LinkInv, TypeOK', NEW c \in Callers, Number(c) \/ List(c) \/ SendFails(c) \/ Wake(c)
    PROVE  MessagesOK'
<1> USE DEF LinkInv
<1>1. ~(At(c, "wait") /\ ~sig[c])
  <2>1. pc[c] # 3 \/ sig[c]
    BY StepNumbers DEF Number, List, SendFails, Wake
  <2> QED BY <2>1, StepNumbers
<1>2. ASSUME NEW d \in Callers, At(d, "wait"), ~sig[d]
      PROVE  Undisturbed(d) /\ effect'[d] = effect[d]
  <2>1. d # c /\ pc[d] > 0
    BY <1>1, <1>2, StepNumbers
  <2>2. List(c) => pc[c] > 0 /\ call[c].tid # call[d].tid
    BY <2>1, StepNumbers DEF List, CallsOK
  <2>3. call[d].tid \in Tids
    BY <2>1, CallType
  <2>4. CASE Number(c)
    BY <2>1, <2>4 DEF Number, Undisturbed, TypeOK
  <2>5. CASE List(c)
    BY <2>1, <2>2, <2>3, <2>5 DEF List, Undisturbed, TypeOK
  <2>6. CASE SendFails(c)
    BY <2>1, <2>6 DEF SendFails, Undisturbed, TypeOK
  <2>7. CASE Wake(c)
    BY <2>1, <2>7 DEF Wake, Undisturbed, TypeOK
  <2> QED BY <2>4, <2>5, <2>6, <2>7
<1>3. Keeps
  BY <1>2 DEF Keeps
<1>4. UNCHANGED <<client, toClient, toDrive, link, drive, cur>>
  BY DEF Number, List, SendFails, Wake
<1> QED BY <1>3, <1>4, SameMessages

\* A request that is sent is a new message, of a thread that had none.
LEMMA SendMessages ==
    ASSUME LinkInv, TypeOK', NEW c \in Callers, Send(c)
    PROVE  MessagesOK'
<1> USE DEF LinkInv
<1>1. pc[c] = 2 /\ pc' = [pc EXCEPT ![c] = 3] /\ pc'[c] = 3
      /\ UNCHANGED <<client, call, sig, waiting, link, toClient, drive, cur, effect>>
  <2>1. pc[c] = 2 /\ At(c, "send") /\ pc' = [pc EXCEPT ![c] = @ + 1]
        /\ UNCHANGED <<client, call, sig, waiting, link, toClient, drive, cur, effect>>
    BY StepNumbers DEF Send
  <2>2. pc' = [pc EXCEPT ![c] = 3]
    BY <2>1
  <2> QED BY <2>1, <2>2 DEF TypeOK
<1>2. Keeps
  <2> SUFFICES ASSUME NEW d \in Callers, At(d, "wait") PROVE pc'[d] = pc[d]
    BY <1>1 DEF Keeps, Undisturbed
  <2>1. d # c
    BY <1>1, StepNumbers
  <2> QED BY <1>1, <2>1 DEF TypeOK
<1>3. CASE link # "open"
  <2>1. toDrive' = toDrive
    BY <1>3 DEF Send
  <2> QED BY <1>1, <1>2, <2>1, SameMessages
<1>4. CASE link = "open"
  <2>0. PICK m : m = Message(call[c], call[c].tid, TRUE)
    OBVIOUS
  <2>1. toDrive' = Append(toDrive, m) /\ toDrive \in Seq(Messages)
    BY <1>4, <2>0 DEF Send, TypeOK
  <2>2. m \in Messages
    <3>1. pc[c] > 0
      BY <1>1
    <3> QED BY <2>0, <3>1, CallType
  <2>3. /\ m.tid = call[c].tid /\ m.kind = call[c].kind /\ m.whole
        /\ m.sector = call[c].sector /\ m.value = call[c].value
    BY <2>0 DEF Message
  <2>4. Asked(m)'
    <3>1. waiting[call[c].tid] = c /\ effect[c] = Pending /\ ~sig[c]
      BY <1>1, StepNumbers DEF CallsOK
    <3>2. At(c, "wait")'
      BY <1>1, StepNumbersNext
    <3>3. Awaits(c, m)'
      BY <1>1, <2>3, <3>1, <3>2 DEF Awaits
    <3> QED BY <1>1, <2>3, <3>1, <3>3 DEF Asked
  <2>5. ASSUME NEW d \in Callers, NEW x, Awaits(d, x) PROVE x.tid # m.tid
    <3>1. pc[d] = 3 /\ call[d].tid = x.tid
      BY <2>5, StepNumbers DEF Awaits
    <3> QED BY <1>1, <2>3, <3>1 DEF CallsOK
  <2> SUFFICES ASSUME client \in {"up", "closing"} PROVE MessagesOK'
    BY <1>1 DEF MessagesOK
  <2>6. /\ Distinct(toDrive) /\ \A i \in DOMAIN toDrive : Asked(toDrive[i])
        /\ drive = "busy" => Asked(cur) /\ \A i \in DOMAIN toDrive : toDrive[i].tid # cur.tid
        /\ drive = "replying" => Done(cur) /\ \A i \in DOMAIN toClient : toClient[i].tid # cur.tid
        /\ Distinct(toClient) /\ \A i \in DOMAIN toClient : Answered(toClient[i])
    BY <1>4 DEF MessagesOK
  <2>7. \A i \in DOMAIN toDrive : toDrive[i].tid # m.tid
    BY <2>5, <2>6 DEF Asked
  <2>8. Distinct(toDrive)'
    BY <2>1, <2>2, <2>6, <2>7, DistinctAppend
  <2>9. \A i \in DOMAIN toDrive' : (i \in DOMAIN toDrive /\ toDrive'[i] = toDrive[i]) \/ toDrive'[i] = m
    BY <2>1, <2>2, AppendPlaces
  <2>10. \A i \in DOMAIN toDrive' : Asked(toDrive[i])'
    <3> SUFFICES ASSUME NEW i \in DOMAIN toDrive' PROVE Asked(toDrive[i])'
      OBVIOUS
    <3>1. CASE toDrive'[i] = m
      BY <2>4, <3>1 DEF Asked, Awaits
    <3>2. CASE i \in DOMAIN toDrive /\ toDrive'[i] = toDrive[i]
      <4>1. PICK x : x = toDrive[i]
        OBVIOUS
      <4>2. Asked(x)'
        BY <1>2, <2>6, <3>2, <4>1, StillAsked
      <4> QED BY <3>2, <4>1, <4>2 DEF Asked, Awaits
    <3> QED BY <2>9, <3>1, <3>2
  <2>11. drive = "busy" => Asked(cur)' /\ \A i \in DOMAIN toDrive' : toDrive'[i].tid # cur.tid
    <3> SUFFICES ASSUME drive = "busy"
                 PROVE  Asked(cur)' /\ \A i \in DOMAIN toDrive' : toDrive'[i].tid # cur.tid
      OBVIOUS
    <3>1. Asked(cur) /\ Asked(cur)'
      BY <1>1, <1>2, <2>6, StillAsked
    <3>2. cur.tid # m.tid
      BY <2>5, <3>1 DEF Asked
    <3> QED BY <2>6, <2>9, <3>1, <3>2
  <2>12. drive = "replying" => Done(cur)'
    BY <1>1, <1>2, <2>6, StillAsked
  <2>13. \A i \in DOMAIN toClient : Answered(toClient[i])'
    BY <1>1, <1>2, <2>6, StillAsked
  <2> QED BY <1>1, <2>6, <2>8, <2>10, <2>11, <2>12, <2>13 DEF MessagesOK
<1> QED BY <1>3, <1>4

\* The handler hands a response to the thread it is for, and leaves the others'.
LEMMA HandleMessages ==
    ASSUME LinkInv, TypeOK', Handle
    PROVE  /\ MessagesOK' /\ client' = client
           /\ \E c \in Callers : /\ Awaits(c, Head(toClient)) /\ effect[c] # Pending
                                 /\ Head(toClient).kind = "read" => effect[c] = Head(toClient).value
                                 /\ sig' = [sig EXCEPT ![c] = TRUE]
                                 /\ waiting' = [waiting EXCEPT ![call[c].tid] = Nobody]
                                 /\ buf' = IF call[c].kind = "read"
                                           THEN [buf EXCEPT ![c] = effect[c]] ELSE buf
<1> USE DEF LinkInv
<1> DEFINE m == Head(toClient)
<1>1. client = "up" /\ toClient # << >> /\ toClient' = Tail(toClient) /\ toClient \in Seq(Responses)
      /\ UNCHANGED <<pc, call, link, toDrive, drive, cur, effect>>
  BY DEF Handle, TypeOK
<1>2. 1 \in DOMAIN toClient /\ m = toClient[1]
  BY <1>1, TailPlaces
<1>3. Distinct(toClient) /\ \A i \in DOMAIN toClient : Answered(toClient[i])
  BY <1>1 DEF MessagesOK
<1>4. PICK c \in Callers : Awaits(c, m) /\ effect[c] # Pending /\ (m.kind = "read" => effect[c] = m.value)
  BY <1>2, <1>3 DEF Answered
<1>5. waiting[m.tid] = c /\ c # Nobody /\ call[c].tid = m.tid /\ call[c].kind = m.kind
  BY <1>4, CallerAssumption DEF Awaits
<1>6. /\ client' = client /\ sig' = [sig EXCEPT ![c] = TRUE]
      /\ waiting' = [waiting EXCEPT ![m.tid] = Nobody]
      /\ buf' = IF m.kind = "read" THEN [buf EXCEPT ![c] = m.value] ELSE buf
  BY <1>5 DEF Handle
<1>7. ASSUME NEW x, NEW d \in Callers, Awaits(d, x), x.tid # m.tid
      PROVE  Awaits(d, x)'
  <2>1. d # c /\ call[d].tid # m.tid
    BY <1>5, <1>7 DEF Awaits
  <2>2. Undisturbed(d)
    BY <1>1, <1>6, <2>1 DEF Undisturbed, TypeOK
  <2> QED BY <1>7, <2>2, AwaitsStill
<1>8. ASSUME NEW x, x.tid # m.tid
      PROVE  /\ Asked(x) => Asked(x)'
             /\ Done(x) => Done(x)'
             /\ Answered(x) => Answered(x)'
  BY <1>1, <1>7, <1>8 DEF Asked, Done, Answered
<1>9. ASSUME NEW x, Asked(x) PROVE x.tid # m.tid
  BY <1>4, <1>5, <1>9, OneOwner DEF Asked, Awaits
<1>10. /\ Distinct(toClient')
       /\ \A i \in DOMAIN toClient' : toClient'[i].tid # m.tid
       /\ \A i \in DOMAIN toClient' : \E j \in DOMAIN toClient : toClient'[i] = toClient[j]
  BY <1>1, <1>3, DistinctTail, TailPlaces
<1>11. \A i \in DOMAIN toClient' : Answered(toClient[i])'
  BY <1>3, <1>8, <1>10
<1>12. ASSUME link = "open"
       PROVE  /\ Distinct(toDrive')
              /\ \A i \in DOMAIN toDrive' : Asked(toDrive[i])'
              /\ drive' = "busy" => /\ Asked(cur)'
                                   /\ \A i \in DOMAIN toDrive' : toDrive'[i].tid # cur'.tid
              /\ drive' = "replying" => /\ Done(cur)'
                                       /\ \A i \in DOMAIN toClient' : toClient'[i].tid # cur'.tid
  <2>1. Distinct(toDrive) /\ \A i \in DOMAIN toDrive : Asked(toDrive[i])
    BY <1>1, <1>12 DEF MessagesOK
  <2>2. \A i \in DOMAIN toDrive : Asked(toDrive[i])'
    BY <1>1, <1>8, <1>9, <2>1
  <2>3. CASE drive = "busy"
    <3>1. Asked(cur) /\ \A i \in DOMAIN toDrive : toDrive[i].tid # cur.tid
      BY <1>1, <1>12, <2>3 DEF MessagesOK
    <3>2. Asked(cur)'
      BY <1>1, <1>8, <1>9, <3>1
    <3> QED BY <1>1, <2>1, <2>2, <2>3, <3>1, <3>2
  <2>4. CASE drive = "replying"
    <3>1. Done(cur) /\ \A i \in DOMAIN toClient : toClient[i].tid # cur.tid
      BY <1>1, <1>12, <2>4 DEF MessagesOK
    <3>2. cur.tid # m.tid
      BY <1>2, <3>1
    <3>3. Done(cur)'
      BY <1>1, <1>8, <3>1, <3>2
    <3> QED BY <1>1, <1>10, <2>1, <2>2, <2>4, <3>1, <3>3
  <2> QED BY <1>1, <2>1, <2>2, <2>3, <2>4
<1>13. MessagesOK'
  BY <1>1, <1>10, <1>11, <1>12 DEF MessagesOK
<1> QED BY <1>4, <1>5, <1>6, <1>13

\* When a process is started, ready, or leaves, nothing of its own is on the way.
LEMMA ProcessMessages ==
    ASSUME LinkInv, TypeOK',
           ClientStart \/ ClientReady \/ Leave \/ HandlerReturns \/ AskFails \/ ClientDies
    PROVE  MessagesOK'
<1> USE DEF LinkInv
<1>1. CASE client' \notin {"up", "closing"}
  BY <1>1 DEF MessagesOK
<1>2. CASE ClientReady
  <2>1. /\ client = "asking" /\ toClient # << >> /\ toClient' = Tail(toClient)
        /\ UNCHANGED <<toDrive, link, drive>>
    BY <1>2 DEF ClientReady
  <2>2. toClient' = << >>
    <3>1. Len(toClient) <= 1 /\ toClient \in Seq(Responses)
      BY <2>1 DEF AskingOK, TypeOK
    <3>2. Len(Tail(toClient)) = Len(toClient) - 1 /\ Len(toClient) \in Nat
          /\ Tail(toClient) \in Seq(Responses) /\ Len(Tail(toClient)) \in Nat
      BY <2>1, <3>1, TailPlaces, LenProperties
    <3> QED BY <2>1, <3>1, <3>2, EmptySeq
  <2>3. link = "open" => toDrive = << >> /\ drive = "serving"
    BY <2>1 DEF AskingOK
  <2> QED BY <2>1, <2>2, <2>3 DEF MessagesOK, Distinct
<1>3. CASE Leave
  BY <1>3, SameMessages DEF Leave, Keeps, Undisturbed
<1> QED BY <1>1, <1>2, <1>3 DEF ClientStart, HandlerReturns, AskFails, ClientDies

\* A request that the drive is busy with belongs to a call that had no effect yet.
LEMMA BusyOwner ==
    ASSUME LinkInv, drive = "busy", link = "open"
    PROVE  /\ client = "asking" => cur.kind = "desc" /\ cur = Message(GetDesc, 0, TRUE)
           /\ client # "asking" => /\ client \in {"up", "closing"} /\ Asked(cur)
                                   /\ cur.kind \in {"read", "write", "shutdown"}
<1> USE DEF LinkInv
<1>1. client \in {"asking", "up", "closing"}
  BY DEF LinkOK, TypeOK
<1>2. CASE client = "asking"
  BY <1>2 DEF AskingOK, Message, GetDesc
<1>3. CASE client # "asking"
  <2>1. client \in {"up", "closing"} /\ Asked(cur)
    BY <1>1, <1>3 DEF MessagesOK
  <2> QED BY <1>3, <2>1, OneOwner DEF Asked
<1> QED BY <1>2, <1>3

\* The effect of that request is one on its call, and on no other.
LEMMA EffectOfOne ==
    ASSUME LinkInv, TypeOK', drive = "busy", link = "open", client # "asking",
           NEW v \in Contents, Effect(v), UNCHANGED clientVars
    PROVE  /\ \E c \in Callers : /\ Awaits(c, cur) /\ effect[c] = Pending
                                 /\ call[c].sector = cur.sector /\ call[c].value = cur.value
                                 /\ effect' = [effect EXCEPT ![c] = v]
           /\ \A x : Answered(x) => Answered(x)' /\ x.tid # cur.tid
           /\ \A x : Asked(x) /\ x.tid # cur.tid => Asked(x)'
<1> USE DEF LinkInv
<1>1. PICK c \in Callers : /\ Awaits(c, cur) /\ effect[c] = Pending
                           /\ call[c].sector = cur.sector /\ call[c].value = cur.value
  BY BusyOwner DEF Asked
<1>2. waiting[cur.tid] = c /\ c # Nobody
  BY <1>1, CallerAssumption DEF Awaits
<1>3. effect' = [effect EXCEPT ![c] = v]
  BY <1>2 DEF Effect
<1>4. ASSUME NEW d \in Callers, NEW x, Awaits(d, x)
      PROVE  Awaits(d, x)' /\ (d = c <=> x.tid = cur.tid)
  <2>1. Awaits(d, x)'
    BY <1>4 DEF clientVars, Awaits, At
  <2> QED BY <1>1, <1>2, <1>4, <2>1 DEF Awaits
<1>5. \A d \in Callers : d # c => effect'[d] = effect[d]
  BY <1>3 DEF TypeOK
<1>6. ASSUME NEW x, Answered(x) PROVE Answered(x)' /\ x.tid # cur.tid
  <2>1. PICK d \in Callers : Awaits(d, x) /\ effect[d] # Pending /\ (x.kind = "read" => effect[d] = x.value)
    BY <1>6 DEF Answered
  <2>2. d # c
    BY <1>1, <2>1
  <2>3. Awaits(d, x)' /\ effect'[d] = effect[d] /\ x.tid # cur.tid
    BY <1>4, <1>5, <2>1, <2>2
  <2> QED BY <2>1, <2>3 DEF Answered
<1>7. ASSUME NEW x, Asked(x), x.tid # cur.tid PROVE Asked(x)'
  <2>1. PICK d \in Callers : /\ Awaits(d, x) /\ effect[d] = Pending
                             /\ call[d].sector = x.sector /\ call[d].value = x.value
    BY <1>7 DEF Asked
  <2>2. Awaits(d, x)' /\ effect'[d] = effect[d] /\ call'[d] = call[d]
    BY <1>4, <1>5, <1>7, <2>1 DEF clientVars
  <2> QED BY <1>7, <2>1, <2>2 DEF Asked
<1> QED BY <1>1, <1>3, <1>6, <1>7

\* One more response, of a call that had its effect and no response yet.
LEMMA OneResponse ==
    ASSUME TypeOK, MessagesOK, client \in {"up", "closing"}, NEW r \in Responses,
           toClient' = Append(toClient, r), Answered(r)',
           \A x : Answered(x) => Answered(x)' /\ x.tid # r.tid
    PROVE  Distinct(toClient') /\ \A i \in DOMAIN toClient' : Answered(toClient[i])'
<1>1. Distinct(toClient) /\ toClient \in Seq(Responses) /\ \A i \in DOMAIN toClient : Answered(toClient[i])
  BY DEF TypeOK, MessagesOK
<1>2. Distinct(toClient')
  BY <1>1, DistinctAppend
<1>3. \A i \in DOMAIN toClient' : (i \in DOMAIN toClient /\ toClient'[i] = toClient[i]) \/ toClient'[i] = r
  BY <1>1, AppendPlaces
<1>4. \A i \in DOMAIN toClient' : Answered(toClient[i])'
  BY <1>1, <1>3
<1> QED BY <1>2, <1>4

\* The drive reads a sector, and answers.
LEMMA ReadMessages ==
    ASSUME LinkInv, TypeOK', Read
    PROVE  MessagesOK'
<1> USE DEF LinkInv
<1>1. /\ drive = "busy" /\ cur.kind = "read" /\ cur \in Messages /\ drive' = "serving"
      /\ UNCHANGED <<clientVars, client, link, toDrive>>
  BY DEF Read, Respond, TypeOK, clientVars
<1> SUFFICES ASSUME client \in {"up", "closing"} PROVE MessagesOK'
  BY <1>1 DEF MessagesOK
<1>2. link = "open"
  BY <1>1 DEF LinkOK, TypeOK
<1>3. PICK v : v = file[cur.sector]
  OBVIOUS
<1>4. v \in Contents /\ Effect(v)
  BY <1>1, <1>3, MessageType DEF Read, TypeOK
<1>5. PICK r : r = Response(cur, v)
  OBVIOUS
<1>6. r \in Responses /\ r.tid = cur.tid /\ r.kind = "read" /\ r.value = v
  BY <1>1, <1>4, <1>5, MessageType DEF Response, Responses
<1>7. toClient' = Append(toClient, r)
  BY <1>2, <1>3, <1>5 DEF Read, Respond
<1>8. /\ \E c \in Callers : Awaits(c, cur) /\ effect' = [effect EXCEPT ![c] = v]
      /\ \A x : Answered(x) => Answered(x)' /\ x.tid # cur.tid
      /\ \A x : Asked(x) /\ x.tid # cur.tid => Asked(x)'
  BY <1>1, <1>2, <1>4, EffectOfOne
<1>9. Answered(r)'
  <2>1. PICK c \in Callers : Awaits(c, cur) /\ effect' = [effect EXCEPT ![c] = v]
    BY <1>8
  <2>2. Awaits(c, r)'
    BY <1>1, <1>6, <2>1 DEF Awaits, At, clientVars
  <2>3. effect'[c] = v /\ v # Pending
    BY <1>4, <2>1, ValueAssumption DEF TypeOK, Contents
  <2> QED BY <1>6, <2>2, <2>3 DEF Answered
<1>10. Distinct(toClient') /\ \A i \in DOMAIN toClient' : Answered(toClient[i])'
  BY <1>6, <1>7, <1>8, <1>9, OneResponse
<1>11. Distinct(toDrive') /\ \A i \in DOMAIN toDrive' : Asked(toDrive[i])'
  BY <1>1, <1>2, <1>8 DEF MessagesOK
<1> QED BY <1>1, <1>10, <1>11 DEF MessagesOK

\* The drive stores the data of a request, and has not answered yet.
LEMMA WriteMessages ==
    ASSUME LinkInv, TypeOK', Write
    PROVE  MessagesOK'
<1> USE DEF LinkInv
<1>1. /\ drive = "busy" /\ cur.kind = "write" /\ cur \in Messages /\ drive' = "replying"
      /\ UNCHANGED <<clientVars, client, link, toDrive, toClient, cur>>
  BY DEF Write, TypeOK, clientVars
<1> SUFFICES ASSUME client \in {"up", "closing"} PROVE MessagesOK'
  BY <1>1 DEF MessagesOK
<1>2. link = "open"
  BY <1>1 DEF LinkOK, TypeOK
<1>3. PICK v : v = cur.value
  OBVIOUS
<1>4. v \in Contents /\ v # Pending /\ Effect(v)
  BY <1>1, <1>3, MessageType, ValueAssumption DEF Write, Contents
<1>5. /\ \E c \in Callers : Awaits(c, cur) /\ effect' = [effect EXCEPT ![c] = v]
      /\ \A x : Answered(x) => Answered(x)' /\ x.tid # cur.tid
      /\ \A x : Asked(x) /\ x.tid # cur.tid => Asked(x)'
  BY <1>1, <1>2, <1>4, EffectOfOne
<1>6. Done(cur)'
  <2>1. PICK c \in Callers : Awaits(c, cur) /\ effect' = [effect EXCEPT ![c] = v]
    BY <1>5
  <2>2. Awaits(c, cur)'
    BY <1>1, <2>1 DEF Awaits, At, clientVars
  <2>3. effect'[c] # Pending
    BY <1>4, <2>1 DEF TypeOK
  <2> QED BY <1>1, <2>2, <2>3 DEF Done
<1>7. /\ Distinct(toClient) /\ \A i \in DOMAIN toClient : Answered(toClient[i])
      /\ Distinct(toDrive) /\ \A i \in DOMAIN toDrive : Asked(toDrive[i]) /\ toDrive[i].tid # cur.tid
  BY <1>1, <1>2 DEF MessagesOK
<1>8. \A i \in DOMAIN toClient' : Answered(toClient[i])' /\ toClient'[i].tid # cur'.tid
  BY <1>1, <1>5, <1>7
<1>9. \A i \in DOMAIN toDrive' : Asked(toDrive[i])'
  BY <1>1, <1>5, <1>7
<1> QED BY <1>1, <1>6, <1>7, <1>8, <1>9 DEF MessagesOK

\* The drive answers the write that it has stored.
LEMMA AcknowledgeMessages ==
    ASSUME LinkInv, TypeOK', Acknowledge
    PROVE  MessagesOK'
<1> USE DEF LinkInv
<1>1. /\ drive = "replying" /\ cur \in Messages /\ drive' = "serving"
      /\ UNCHANGED <<clientVars, client, link, toDrive, effect>>
  BY DEF Acknowledge, Respond, TypeOK, clientVars
<1> SUFFICES ASSUME client \in {"up", "closing"} PROVE MessagesOK'
  BY <1>1 DEF MessagesOK
<1>2. link = "open"
  BY <1>1 DEF LinkOK, TypeOK
<1>3. /\ Distinct(toClient) /\ \A i \in DOMAIN toClient : Answered(toClient[i]) /\ toClient[i].tid # cur.tid
      /\ Distinct(toDrive) /\ \A i \in DOMAIN toDrive : Asked(toDrive[i])
      /\ Done(cur)
  BY <1>1, <1>2 DEF MessagesOK
<1>4. Keeps
  BY <1>1 DEF Keeps, Undisturbed, clientVars
<1>5. PICK r : r = Response(cur, Blank)
  OBVIOUS
<1>6. r \in Responses /\ r.tid = cur.tid /\ r.kind = "write" /\ toClient' = Append(toClient, r)
  BY <1>1, <1>2, <1>3, <1>5, MessageType
     DEF Response, Responses, Contents, Done, Acknowledge, Respond
<1>7. Answered(r)'
  <2>1. PICK c \in Callers : Awaits(c, cur) /\ effect[c] # Pending
    BY <1>3 DEF Done
  <2>2. Awaits(c, r)'
    BY <1>1, <1>3, <1>6, <2>1 DEF Awaits, At, clientVars, Done
  <2> QED BY <1>1, <1>6, <2>1, <2>2 DEF Answered
<1>8. Distinct(toClient') /\ \A i \in DOMAIN toClient' : Answered(toClient[i])'
  <2>1. toClient \in Seq(Responses)
    BY DEF TypeOK
  <2>2. Distinct(toClient')
    BY <1>3, <1>6, <2>1, DistinctAppend
  <2>3. \A i \in DOMAIN toClient' : (i \in DOMAIN toClient /\ toClient'[i] = toClient[i]) \/ toClient'[i] = r
    BY <1>6, <2>1, AppendPlaces
  <2>4. \A i \in DOMAIN toClient' : Answered(toClient[i])'
    <3> SUFFICES ASSUME NEW i \in DOMAIN toClient' PROVE Answered(toClient[i])'
      OBVIOUS
    <3>1. CASE toClient'[i] = r
      BY <1>7, <3>1 DEF Answered, Awaits
    <3>2. CASE i \in DOMAIN toClient /\ toClient'[i] = toClient[i]
      BY <1>3, <1>4, <3>2, StillAsked
    <3> QED BY <2>3, <3>1, <3>2
  <2> QED BY <2>2, <2>4
<1>9. \A i \in DOMAIN toDrive' : Asked(toDrive[i])'
  BY <1>1, <1>3, <1>4, StillAsked
<1> QED BY <1>1, <1>3, <1>8, <1>9 DEF MessagesOK

\* The drive answers a shutdown and leaves: what it has answered is still handed over.
LEMMA ShutDownMessages ==
    ASSUME LinkInv, TypeOK', ShutDown
    PROVE  MessagesOK'
<1> USE DEF LinkInv
<1>1. /\ drive = "busy" /\ cur.kind = "shutdown" /\ cur \in Messages /\ Effect(Blank)
      /\ link' # "open" /\ UNCHANGED <<clientVars, client>>
  BY DEF ShutDown, Respond, TypeOK, clientVars
<1> SUFFICES ASSUME client \in {"up", "closing"} PROVE MessagesOK'
  BY <1>1 DEF MessagesOK
<1>2. link = "open" /\ Blank \in Contents /\ Blank # Pending
  BY <1>1, ValueAssumption DEF LinkOK, TypeOK, Contents
<1>5. PICK r : r = Response(cur, Blank)
  OBVIOUS
<1>6. r \in Responses /\ r.tid = cur.tid /\ r.kind = "shutdown" /\ toClient' = Append(toClient, r)
  BY <1>1, <1>2, <1>5, MessageType DEF Response, Responses, ShutDown, Respond
<1>7. /\ \E c \in Callers : Awaits(c, cur) /\ effect' = [effect EXCEPT ![c] = Blank]
      /\ \A x : Answered(x) => Answered(x)' /\ x.tid # cur.tid
  BY <1>1, <1>2, EffectOfOne
<1>8. Answered(r)'
  <2>1. PICK c \in Callers : Awaits(c, cur) /\ effect' = [effect EXCEPT ![c] = Blank]
    BY <1>7
  <2>2. Awaits(c, r)'
    BY <1>1, <1>6, <2>1 DEF Awaits, At, clientVars
  <2>3. effect'[c] # Pending
    BY <1>2, <2>1 DEF TypeOK
  <2> QED BY <1>6, <2>2, <2>3 DEF Answered
<1>9. Distinct(toClient') /\ \A i \in DOMAIN toClient' : Answered(toClient[i])'
  BY <1>6, <1>7, <1>8, OneResponse
<1> QED BY <1>1, <1>9 DEF MessagesOK

\* The drive takes the next request.
LEMMA TakeMessages ==
    ASSUME LinkInv, TypeOK', Take
    PROVE  MessagesOK'
<1> USE DEF LinkInv
<1>1. /\ drive' = "busy" /\ toDrive # << >> /\ cur' = Head(toDrive) /\ toDrive' = Tail(toDrive)
      /\ toDrive \in Seq(Messages) /\ UNCHANGED <<clientVars, client, link, toClient, effect>>
  BY DEF Take, TypeOK, clientVars
<1> SUFFICES ASSUME client \in {"up", "closing"} PROVE MessagesOK'
  BY <1>1 DEF MessagesOK
<1>2. Keeps
  BY <1>1 DEF Keeps, Undisturbed, clientVars
<1>3. Distinct(toClient') /\ \A i \in DOMAIN toClient' : Answered(toClient[i])'
  BY <1>1, <1>2, StillAsked DEF MessagesOK
<1>4. ASSUME link = "open"
      PROVE  /\ Distinct(toDrive')
             /\ \A i \in DOMAIN toDrive' : Asked(toDrive[i])'
             /\ Asked(cur)'
             /\ \A i \in DOMAIN toDrive' : toDrive'[i].tid # cur'.tid
  <2>1. Distinct(toDrive) /\ \A x : (\E j \in DOMAIN toDrive : x = toDrive[j]) => Asked(x)'
    BY <1>2, <1>4, StillAsked DEF MessagesOK
  <2>2. /\ 1 \in DOMAIN toDrive /\ cur' = toDrive[1]
        /\ \A i \in DOMAIN toDrive' : i + 1 \in DOMAIN toDrive /\ toDrive'[i] = toDrive[i + 1]
    BY <1>1, TailPlaces
  <2>3. Distinct(toDrive') /\ \A i \in DOMAIN toDrive' : toDrive'[i].tid # cur'.tid
    BY <1>1, <2>1, DistinctTail
  <2>4. Asked(cur)'
    BY <2>1, <2>2
  <2>5. \A i \in DOMAIN toDrive' : Asked(toDrive[i])'
    BY <2>1, <2>2
  <2> QED BY <2>3, <2>4, <2>5
<1> QED BY <1>1, <1>3, <1>4 DEF MessagesOK

\* When the drive gives the connection up, the responses on it are still handed over.
LEMMA HangUpMessages ==
    ASSUME LinkInv, TypeOK', Eof \/ SendFailed \/ DataCutOff \/ DriveDies \/ DriveStart
    PROVE  MessagesOK'
<1> USE DEF LinkInv
<1>1. link' # "open" /\ UNCHANGED <<clientVars, client, toClient, effect>>
  BY DEF Eof, SendFailed, DataCutOff, DriveDies, DriveStart, HangUp, TypeOK, clientVars
<1> SUFFICES ASSUME client \in {"up", "closing"} PROVE MessagesOK'
  BY <1>1 DEF MessagesOK
<1>2. Keeps
  BY <1>1 DEF Keeps, Undisturbed, clientVars
<1>3. Distinct(toClient') /\ \A i \in DOMAIN toClient' : Answered(toClient[i])'
  BY <1>1, <1>2, StillAsked DEF MessagesOK
<1> QED BY <1>1, <1>3 DEF MessagesOK

\* The first request of a connection is served while the process asks.
LEMMA AskMessages ==
    ASSUME LinkInv, TypeOK', Accept \/ Describe
    PROVE  MessagesOK'
<1> USE DEF LinkInv
<1>1. client' = client
  BY DEF Accept, Describe, clientVars
<1> SUFFICES ASSUME client \in {"up", "closing"} PROVE MessagesOK'
  BY <1>1 DEF MessagesOK
<1>2. drive = "busy" /\ cur.kind = "desc"
  BY DEF Accept, Describe
<1>3. link = "open"
  BY <1>2 DEF LinkOK, TypeOK
<1> QED BY <1>2, <1>3, BusyOwner

LEMMA MessagesStep ==
    ASSUME LinkInv, TypeOK', Next
    PROVE  MessagesOK'
<1>1. CASE ClientNext
  BY <1>1, CallerMessages, SendMessages, HandleMessages, ProcessMessages DEF ClientNext
<1>2. CASE DriveNext
  BY <1>2, ReadMessages, WriteMessages, AcknowledgeMessages, ShutDownMessages, TakeMessages,
     HangUpMessages, AskMessages DEF DriveNext, Serve
<1> QED BY <1>1, <1>2 DEF Next

-----------------------------------------------------------------------------
(* The other parts of the invariant *)

\* CallsOK, with the steps of the calls as numbers
CallOf(c) ==
    /\ pc[c] > 0 => call[c].tid < counter
    /\ \A d \in Callers \ {c} : pc[c] > 0 /\ pc[d] > 0 => call[c].tid # call[d].tid
    /\ sig[c] => pc[c] = 3
    /\ pc[c] \in {1, 2} => effect[c] = Pending
    /\ pc[c] = 2 => waiting[call[c].tid] = c

LEMMA CallsByNumber == ASSUME TypeOK PROVE CallsOK <=> \A c \in Callers : CallOf(c)
BY StepNumbers DEF CallsOK, CallOf

LEMMA CallsByNumberNext == ASSUME TypeOK' PROVE CallsOK' <=> \A c \in Callers : CallOf(c)'
BY StepNumbersNext DEF CallsOK, CallOf

\* A thread's own steps keep its call, and every other's, in order.
LEMMA CallerCalls ==
    ASSUME LinkInv, TypeOK', NEW c \in Callers,
           Number(c) \/ List(c) \/ Send(c) \/ SendFails(c) \/ Wake(c)
    PROVE  CallsOK'
<1> USE DEF LinkInv
<1> SUFFICES ASSUME NEW d \in Callers PROVE CallOf(d)'
  BY CallsByNumberNext
<1>1. \A e \in Callers : CallOf(e)
  BY CallsByNumber
<1>2. \A e \in Callers : pc[e] \in 0 .. 3 /\ (pc[e] > 0 => call[e].tid \in Tids)
  BY StepNumbers, CallType
<1>3. counter \in Nat /\ Tids \subseteq Int
  BY DEF TypeOK, Tids
<1>4. CASE Number(c)
  <2>1. pc[c] = 0 /\ pc' = [pc EXCEPT ![c] = 1] /\ sig' = [sig EXCEPT ![c] = FALSE]
        /\ effect' = [effect EXCEPT ![c] = Pending] /\ counter' = counter + 1 /\ waiting' = waiting
    BY <1>4, StepNumbers DEF Number, TidStep
  <2>2. PICK r \in Requests : call' = [call EXCEPT ![c] = Numbered(r, counter)]
    BY <1>4 DEF Number
  <2>3. call'[c].tid = counter /\ \A e \in Callers \ {c} : call'[e] = call[e]
    BY <2>2 DEF Numbered, TypeOK
  <2>4. /\ pc'[c] = 1 /\ ~sig'[c] /\ effect'[c] = Pending
        /\ \A e \in Callers \ {c} : pc'[e] = pc[e] /\ sig'[e] = sig[e] /\ effect'[e] = effect[e]
    BY <2>1 DEF TypeOK
  <2>5. \A e \in Callers \ {c} : pc[e] > 0 => call[e].tid < counter /\ call[e].tid \in Int
    BY <1>1, <1>2, <1>3 DEF CallOf
  <2> QED BY <1>1, <1>3, <2>1, <2>3, <2>4, <2>5 DEF CallOf
<1>5. CASE List(c)
  <2>1. pc[c] = 1 /\ pc' = [pc EXCEPT ![c] = @ + 1] /\ waiting' = [waiting EXCEPT ![call[c].tid] = c]
        /\ UNCHANGED <<counter, call, sig, effect>>
    BY <1>5, StepNumbers DEF List
  <2>2. pc'[c] = 2 /\ \A e \in Callers \ {c} : pc'[e] = pc[e]
    BY <2>1 DEF TypeOK
  <2>3. /\ waiting'[call[c].tid] = c
        /\ \A e \in Callers \ {c} : pc[e] > 0 => waiting'[call[e].tid] = waiting[call[e].tid]
    BY <1>1, <1>2, <2>1 DEF CallOf, TypeOK
  <2> QED BY <1>1, <2>1, <2>2, <2>3 DEF CallOf
<1>6. CASE Send(c)
  <2>1. pc[c] = 2 /\ pc' = [pc EXCEPT ![c] = @ + 1] /\ UNCHANGED <<counter, call, sig, effect, waiting>>
    BY <1>6, StepNumbers DEF Send
  <2>2. pc'[c] = 3 /\ \A e \in Callers \ {c} : pc'[e] = pc[e]
    BY <2>1 DEF TypeOK
  <2> QED BY <1>1, <2>1, <2>2 DEF CallOf
<1>7. CASE SendFails(c) \/ Wake(c)
  <2>1. pc' = [pc EXCEPT ![c] = 0] /\ call' = [call EXCEPT ![c] = NoCall]
        /\ UNCHANGED <<counter, effect, waiting>>
        /\ ((pc[c] = 2 /\ sig' = sig) \/ sig' = [sig EXCEPT ![c] = FALSE])
    BY <1>7, StepNumbers DEF SendFails, Wake
  <2>2. pc'[c] = 0 /\ \A e \in Callers \ {c} : pc'[e] = pc[e] /\ call'[e] = call[e]
    BY <2>1 DEF TypeOK
  <2>3. \A e \in Callers \ {c} : sig'[e] = sig[e]
    BY <2>1 DEF TypeOK
  <2>4. ~sig'[c]
    BY <1>1, <2>1 DEF CallOf, TypeOK
  <2>5. CASE d = c
    BY <2>2, <2>4, <2>5 DEF CallOf
  <2>6. CASE d # c
    BY <1>1, <2>1, <2>2, <2>3, <2>6 DEF CallOf
  <2> QED BY <2>5, <2>6
<1> QED BY <1>4, <1>5, <1>6, <1>7

\* The process starts and ends without a call; the handler wakes one that waits.
LEMMA ProcessCalls ==
    ASSUME LinkInv, TypeOK', \/ ClientStart \/ ClientReady \/ Handle \/ Leave \/ HandlerReturns
                             \/ AskFails \/ ClientDies
    PROVE  CallsOK'
<1> USE DEF LinkInv
<1> SUFFICES ASSUME NEW d \in Callers PROVE CallOf(d)'
  BY CallsByNumberNext
<1>1. \A e \in Callers : CallOf(e)
  BY CallsByNumber
<1>2. CASE ClientStart \/ ClientReady
  <2>1. \A e \in Callers : pc'[e] = 0 /\ ~sig'[e]
    BY <1>1, <1>2 DEF ClientStart, ClientReady, CallOf, TypeOK
  <2> QED BY <2>1 DEF CallOf
<1>3. CASE Handle
  <2>1. PICK c \in Callers : /\ Awaits(c, Head(toClient)) /\ sig' = [sig EXCEPT ![c] = TRUE]
                             /\ waiting' = [waiting EXCEPT ![call[c].tid] = Nobody]
    BY <1>3, HandleMessages
  <2>2. UNCHANGED <<counter, pc, call, effect>> /\ pc[c] = 3
    BY <1>3, <2>1, OneOwner DEF Handle
  <2>3. /\ \A e \in Callers \ {c} : sig'[e] = sig[e]
        /\ \A e \in Callers \ {c} : pc[e] = 2 => waiting'[call[e].tid] = waiting[call[e].tid]
    <3>1. \A e \in Callers \ {c} : pc[e] = 2 => call[e].tid # call[c].tid /\ call[e].tid \in Tids
      BY <1>1, <2>2, CallType DEF CallOf
    <3> QED BY <2>1, <3>1 DEF TypeOK
  <2> QED BY <1>1, <2>1, <2>2, <2>3 DEF CallOf
<1>4. CASE Leave \/ HandlerReturns \/ AskFails
  BY <1>1, <1>4 DEF Leave, HandlerReturns, AskFails, CallOf
<1>5. CASE ClientDies
  BY <1>5 DEF ClientDies, CallOf
<1> QED BY <1>2, <1>3, <1>4, <1>5

\* The drive has an effect on calls that wait, and on no others.
LEMMA DriveCalls ==
    ASSUME LinkInv, TypeOK', DriveNext
    PROVE  CallsOK'
<1> USE DEF LinkInv
<1> SUFFICES ASSUME NEW d \in Callers PROVE CallOf(d)'
  BY CallsByNumberNext
<1>1. \A e \in Callers : CallOf(e)
  BY CallsByNumber
<1>2. UNCHANGED clientVars /\ UNCHANGED <<pc, call, sig, counter, waiting>>
  BY DEF DriveNext, Serve, Accept, Take, Describe, Read, Write, Acknowledge, ShutDown, Eof, SendFailed,
         DataCutOff, DriveDies, DriveStart, clientVars
<1>3. ASSUME effect' # effect PROVE pc[d] = 0 \/ effect'[d] = effect[d] \/ pc[d] = 3
  <2>1. PICK v \in Contents : drive = "busy" /\ Effect(v)
    <3>1. CASE Read
      BY <3>1, MessageType DEF Read, TypeOK
    <3>2. CASE Write
      BY <3>2, MessageType DEF Write, TypeOK, Contents
    <3>3. CASE ShutDown
      BY <3>3 DEF ShutDown, Contents
    <3>4. Read \/ Write \/ ShutDown
      BY <1>3 DEF DriveNext, Serve, Accept, Take, Describe, Acknowledge, Eof, SendFailed,
         DataCutOff, DriveDies, DriveStart
    <3> QED BY <3>1, <3>2, <3>3, <3>4
  <2>2. link = "open"
    BY <1>3, <2>1 DEF Effect
  <2>3. CASE client = "asking"
    BY <2>3 DEF TypeOK
  <2>4. CASE client # "asking"
    <3>1. PICK c \in Callers : Awaits(c, cur) /\ effect' = [effect EXCEPT ![c] = v]
      BY <1>2, <2>1, <2>2, <2>4, EffectOfOne
    <3>2. pc[c] = 3
      BY <3>1, OneOwner
    <3> QED BY <3>1, <3>2 DEF TypeOK
  <2> QED BY <2>3, <2>4
<1> QED BY <1>1, <1>2, <1>3 DEF CallOf

\* The connection and the client's state agree about which of the ends is gone.
LEMMA LinkStep ==
    ASSUME LinkInv, TypeOK', Next
    PROVE  LinkOK'
<1> USE DEF LinkInv, LinkOK
<1>1. CASE \E c \in Callers : Number(c) \/ List(c) \/ Send(c) \/ SendFails(c) \/ Wake(c)
  <2>1. /\ UNCHANGED <<client, buf, link, toClient>>
        /\ link # "open" => toDrive' = toDrive
    BY <1>1 DEF Number, List, Send, SendFails, Wake
  <2> QED BY <2>1
<1>2. CASE ClientStart \/ ClientReady
  BY <1>2 DEF ClientStart, ClientReady
<1>3. CASE Handle
  <2>1. client' = client /\ client = "up" /\ UNCHANGED <<link, toDrive>>
    BY <1>3, HandleMessages DEF Handle
  <2> QED BY <2>1
<1>4. CASE Leave \/ HandlerReturns \/ AskFails
  BY <1>4 DEF Leave, HandlerReturns, AskFails
<1>5. CASE ClientDies
  BY <1>5 DEF ClientDies, TypeOK
<1>6. CASE Accept
  BY <1>6 DEF Accept, clientVars
<1>7. CASE Take \/ Eof \/ SendFailed \/ DataCutOff \/ DriveDies \/ DriveStart
  <2>1. UNCHANGED <<client, buf, toClient>>
    BY <1>7 DEF Take, Eof, SendFailed, DataCutOff, DriveDies, DriveStart, clientVars
  <2>2. \/ Take /\ link' = link /\ drive = "serving"
        \/ DriveStart /\ link' = link /\ toDrive' = toDrive
        \/ toDrive' = << >> /\ link' = IF link = "open" THEN "lost" ELSE IF link = "broken" THEN "none" ELSE link
    BY <1>7 DEF Take, Eof, SendFailed, DataCutOff, DriveDies, DriveStart, HangUp
  <2> QED BY <2>1, <2>2 DEF TypeOK
<1>8. CASE Describe \/ Read \/ Write \/ Acknowledge
  <2>1. UNCHANGED <<client, buf, link, toDrive>> /\ (link # "open" => toClient' = toClient)
    BY <1>8 DEF Describe, Read, Write, Acknowledge, Respond, clientVars
  <2> QED BY <2>1
<1>9. CASE ShutDown
  <2>1. UNCHANGED <<client, buf>> /\ (link # "open" => toClient' = toClient) /\ toDrive' = << >>
        /\ link' = IF link = "open" THEN "lost" ELSE "none"
    BY <1>9 DEF ShutDown, Respond, clientVars
  <2>2. link \in {"open", "broken"}
    BY <1>9 DEF ShutDown, TypeOK
  <2> QED BY <2>1, <2>2
<1> QED BY <1>1, <1>2, <1>3, <1>4, <1>5, <1>6, <1>7, <1>8, <1>9
     DEF Next, ClientNext, DriveNext, Serve

\* The first request of a connection stays alone on it until it is answered.
LEMMA AskingStep ==
    ASSUME LinkInv, TypeOK', Next
    PROVE  AskingOK'
<1> USE DEF LinkInv
<1> SUFFICES ASSUME client' = "asking" PROVE AskingOK'
  BY DEF AskingOK
<1>1. CASE ClientStart
  <2>1. toClient' = << >> /\ link' # "open"
    BY <1>1 DEF ClientStart, LinkOK
  <2>2. Len(toClient') <= 1
    BY <2>1
  <2> QED BY <2>1, <2>2 DEF AskingOK
<1>2. CASE ClientNext /\ ~ClientStart
  <2>1. CASE \E c \in Callers : Number(c) \/ List(c) \/ Send(c) \/ SendFails(c) \/ Wake(c)
    <3>1. PICK c \in Callers : Number(c) \/ List(c) \/ Send(c) \/ SendFails(c) \/ Wake(c)
      BY <2>1
    <3>2. client' = client
      BY <3>1 DEF Number, List, Send, SendFails, Wake
    <3>3. client = "up" \/ client = "deaf" \/ pc[c] > 0
      <4>1. client \in {"up", "deaf"} \/ At(c, "list") \/ At(c, "send") \/ At(c, "wait")
        BY <3>1 DEF Number, List, Send, SendFails, Wake
      <4>2. pc[c] \in 1 .. 3 => pc[c] > 0
        OBVIOUS
      <4> QED BY <4>1, <4>2, StepNumbers
    <3> QED BY <3>2, <3>3 DEF TypeOK
  <2>2. CASE ClientReady \/ Handle \/ Leave \/ HandlerReturns \/ AskFails \/ ClientDies
    BY <2>2 DEF ClientReady, Handle, Leave, HandlerReturns, AskFails, ClientDies
  <2> QED BY <1>2, <2>1, <2>2 DEF ClientNext
<1>3. CASE Accept
  <2>1. drive' = "serving" /\ toDrive' = <<Message(GetDesc, 0, TRUE)>> /\ toClient' = << >>
    BY <1>3 DEF Accept
  <2> QED BY <2>1 DEF AskingOK
<1>4. CASE DriveNext /\ ~Accept
  <2>1. client = "asking"
    BY <1>4 DEF DriveNext, Serve, Accept, Take, Describe, Read, Write, Acknowledge, ShutDown, Eof,
                SendFailed, DataCutOff, DriveDies, DriveStart, clientVars
  <2>2. Len(toClient) <= 1
    BY <2>1 DEF AskingOK
  <2>3. CASE link # "open"
    <3>1. link' # "open" /\ toClient' = toClient
      BY <1>4, <2>3 DEF DriveNext, Serve, Take, Describe, Read, Write, Acknowledge, ShutDown, Eof,
                SendFailed, DataCutOff, DriveDies, DriveStart, Respond, HangUp
    <3> QED BY <2>2, <3>1 DEF AskingOK
  <2>4. CASE link = "open"
    <3>1. CASE Take
      <4>1. drive = "serving" /\ toDrive = <<Message(GetDesc, 0, TRUE)>> /\ toClient = << >>
        BY <2>1, <2>4, <3>1 DEF AskingOK, Take
      <4>2. /\ drive' = "busy" /\ cur' = Message(GetDesc, 0, TRUE) /\ toDrive' = << >> /\ toClient' = << >>
        BY <3>1, <4>1 DEF Take
      <4> QED BY <4>2 DEF AskingOK
    <3>2. CASE Describe
      <4>1. toDrive = << >> /\ toClient = << >>
        BY <2>1, <2>4, <3>2 DEF AskingOK, Describe
      <4>2. PICK r : toClient' = Append(toClient, r)
        BY <2>4, <3>2 DEF Describe, Respond
      <4>3. toClient' = <<r>> /\ toDrive' = << >> /\ drive' = "serving"
        BY <3>2, <4>1, <4>2 DEF Describe, Respond
      <4> QED BY <4>3 DEF AskingOK
    <3>3. CASE Eof \/ SendFailed \/ DataCutOff \/ DriveDies
      <4>1. link' # "open" /\ toClient' = toClient
        BY <3>3 DEF Eof, SendFailed, DataCutOff, DriveDies, HangUp
      <4> QED BY <2>2, <4>1 DEF AskingOK
    <3>4. ~(Read \/ Write \/ ShutDown \/ Acknowledge \/ DriveStart)
      BY <2>1, <2>4, BusyOwner DEF AskingOK, Read, Write, ShutDown, Acknowledge, DriveStart
    <3> QED BY <1>4, <3>1, <3>2, <3>3, <3>4 DEF DriveNext, Serve
  <2> QED BY <2>3, <2>4
<1> QED BY <1>1, <1>2, <1>3, <1>4 DEF Next

-----------------------------------------------------------------------------
(* The invariant holds, and with it HandlerInStep *)

LEMMA LinkInit == Init => LinkInv
<1> SUFFICES ASSUME Init PROVE LinkInv
  OBVIOUS
<1>1. TypeOK
  BY TypeInit
<1>2. CallsOK
  <2>1. \A c \in Callers : CallOf(c)
    BY DEF Init, CallOf
  <2> QED BY <1>1, <2>1, CallsByNumber
<1>3. LinkOK /\ AskingOK /\ MessagesOK
  BY DEF Init, LinkOK, AskingOK, MessagesOK
<1> QED BY <1>1, <1>2, <1>3 DEF LinkInv

LEMMA LinkInductive == LinkInv /\ [Next]_vars => LinkInv'
<1> SUFFICES ASSUME LinkInv, [Next]_vars PROVE LinkInv'
  OBVIOUS
<1>1. TypeOK'
  BY TypeStep DEF LinkInv
<1>2. CASE Next
  <2>1. CallsOK'
    BY <1>1, <1>2, CallerCalls, ProcessCalls, DriveCalls DEF Next, ClientNext
  <2>2. LinkOK' /\ AskingOK' /\ MessagesOK'
    BY <1>1, <1>2, LinkStep, AskingStep, MessagesStep
  <2> QED BY <1>1, <2>1, <2>2 DEF LinkInv
<1>3. CASE UNCHANGED vars
  <2> USE <1>3 DEF vars, LinkInv
  <2>1. CallsOK'
    BY DEF CallsOK, At
  <2>2. LinkOK' /\ AskingOK'
    BY DEF LinkOK, AskingOK
  <2>3. MessagesOK'
    BY <1>1, SameMessages DEF Keeps, Undisturbed
  <2> QED BY <1>1, <2>1, <2>2, <2>3
<1> QED BY <1>2, <1>3

\* Calls have numbers of their own, the connection and its ends agree, and each message
\* on an open connection belongs to a thread that waits, and no two to the same.
THEOREM LinkInvariant == Spec => []LinkInv
BY LinkInit, LinkInductive, PTL DEF Spec

\* The handler never meets a response that it cannot hand to the thread it is for.
THEOREM HandlerIsInStep == Spec => []HandlerInStep
<1>1. ASSUME LinkInv PROVE HandlerInStep
  <2>1. client # "astray"
    BY <1>1 DEF LinkInv, LinkOK
  <2>2. ASSUME client = "up", NEW i \in DOMAIN toClient
        PROVE  \E c \in Callers : Awaits(c, toClient[i])
    BY <1>1, <2>2 DEF LinkInv, MessagesOK, Answered
  <2> QED BY <2>1, <2>2, CallerAssumption DEF HandlerInStep, Awaits
<1> QED BY <1>1, LinkInvariant, PTL

-----------------------------------------------------------------------------
(* What a thread waits for is in exactly one place *)

\* The thread's step sends its own message, and loses no other.
LEMMA CallerLosesNone ==
    ASSUME LinkInv, TypeOK', NoneLost, NEW c \in Callers,
           Number(c) \/ List(c) \/ Send(c) \/ SendFails(c) \/ Wake(c)
    PROVE  NoneLost'
<1> USE DEF LinkInv
<1> SUFFICES ASSUME client' = "up", link' = "open", NEW d \in Callers, At(d, "wait")', ~sig'[d]
             PROVE  Present(call[d].tid)'
  BY DEF NoneLost
<1>1. UNCHANGED <<client, link, toClient, drive, cur>> /\ client = "up" /\ link = "open"
  BY DEF Number, List, Send, SendFails, Wake
<1>2. pc'[d] = 3
  BY StepNumbersNext
<1>3. CASE Send(c)
  <2>1. PICK m \in Messages : m = Message(call[c], call[c].tid, TRUE)
    <3>1. pc[c] > 0
      BY <1>3, StepNumbers DEF Send
    <3> QED BY <3>1, CallType
  <2>2. m.tid = call[c].tid /\ toDrive' = Append(toDrive, m) /\ call' = call /\ sig' = sig
        /\ pc' = [pc EXCEPT ![c] = @ + 1]
    BY <1>1, <1>3, <2>1 DEF Send, Message
  <2>3. toDrive \in Seq(Messages)
    BY DEF TypeOK
  <2>4. /\ Len(toDrive) + 1 \in DOMAIN toDrive' /\ toDrive'[Len(toDrive) + 1] = m
        /\ \A i \in DOMAIN toDrive : i \in DOMAIN toDrive' /\ toDrive'[i] = toDrive[i]
    BY <2>2, <2>3, AppendProperties, LenProperties
  <2>5. CASE d = c
    BY <2>2, <2>4, <2>5 DEF Present
  <2>6. CASE d # c
    <3>1. pc[d] = 3
      BY <1>2, <2>2, <2>6 DEF TypeOK
    <3>2. Present(call[d].tid)
      BY <1>1, <2>2, <3>1, StepNumbers DEF NoneLost
    <3> QED BY <1>1, <2>2, <2>4, <3>2 DEF Present
  <2> QED BY <2>5, <2>6
<1>4. CASE Number(c) \/ List(c) \/ SendFails(c) \/ Wake(c)
  <2>1. toDrive' = toDrive
    BY <1>4 DEF Number, List, SendFails, Wake
  <2>2. d # c
    <3>1. pc'[c] \in {0, 1, 2}
      <4>1. CASE Number(c)
        BY <4>1 DEF Number, TypeOK
      <4>2. CASE List(c)
        BY <4>2, StepNumbers DEF List, TypeOK
      <4>3. CASE SendFails(c) \/ Wake(c)
        BY <4>3 DEF SendFails, Wake, TypeOK
      <4> QED BY <1>4, <4>1, <4>2, <4>3
    <3> QED BY <1>2, <3>1
  <2>3. pc'[d] = pc[d] /\ call'[d] = call[d] /\ sig'[d] = sig[d]
    BY <1>4, <2>2 DEF Number, List, SendFails, Wake, TypeOK
  <2>4. Present(call[d].tid)
    BY <1>1, <1>2, <2>3, StepNumbers DEF NoneLost
  <2> QED BY <1>1, <2>1, <2>3, <2>4 DEF Present
<1> QED BY <1>3, <1>4

\* The handler takes the message of the one thread that it wakes.
LEMMA HandleLosesNone ==
    ASSUME LinkInv, TypeOK', NoneLost, Handle
    PROVE  NoneLost'
<1> USE DEF LinkInv
<1> SUFFICES ASSUME link' = "open", NEW d \in Callers, At(d, "wait")', ~sig'[d]
             PROVE  Present(call[d].tid)'
  BY DEF NoneLost
<1>1. PICK c \in Callers : Awaits(c, Head(toClient)) /\ sig' = [sig EXCEPT ![c] = TRUE]
  BY HandleMessages
<1>2. /\ UNCHANGED <<pc, call, link, toDrive, drive, cur>>
      /\ client = "up" /\ toClient # << >> /\ toClient' = Tail(toClient)
  BY DEF Handle
<1>3. d # c /\ ~sig[d] /\ sig[c] = FALSE
  BY <1>1 DEF TypeOK, Awaits
<1>4. pc[d] = 3 /\ pc[c] = 3
  BY <1>1, <1>2, StepNumbers, StepNumbersNext DEF Awaits
<1>5. call[d].tid # Head(toClient).tid
  BY <1>1, <1>3, <1>4 DEF CallsOK, Awaits
<1>6. Present(call[d].tid)
  BY <1>2, <1>3, <1>4, StepNumbers DEF NoneLost
<1>7. ASSUME NEW i \in DOMAIN toClient, toClient[i].tid = call[d].tid
      PROVE  \E j \in DOMAIN toClient' : toClient'[j].tid = call[d].tid
  <2>1. toClient \in Seq(Responses) /\ Head(toClient) = toClient[1]
    BY <1>2, TailPlaces DEF TypeOK
  <2>2. i # 1 /\ i \in 1 .. Len(toClient) /\ Len(toClient) \in Nat
    BY <1>5, <1>7, <2>1, LenProperties
  <2>3. i - 1 \in 1 .. Len(toClient) - 1 /\ (i - 1) + 1 = i
    BY <2>2
  <2>4. /\ Tail(toClient) \in Seq(Responses) /\ Len(Tail(toClient)) = Len(toClient) - 1
        /\ \A j \in 1 .. Len(toClient) - 1 : Tail(toClient)[j] = toClient[j + 1]
    BY <1>2, <2>1, HeadTailProperties
  <2>5. i - 1 \in DOMAIN Tail(toClient) /\ Tail(toClient)[i - 1] = toClient[i]
    BY <2>3, <2>4, LenProperties
  <2> QED BY <1>2, <1>7, <2>5
<1> QED BY <1>2, <1>6, <1>7 DEF Present

\* The drive answers what it takes, while the connection is open.
LEMMA DriveLosesNone ==
    ASSUME LinkInv, TypeOK', NoneLost, DriveNext
    PROVE  NoneLost'
<1> USE DEF LinkInv
<1> SUFFICES ASSUME client' = "up", link' = "open", NEW d \in Callers, At(d, "wait")', ~sig'[d]
             PROVE  Present(call[d].tid)'
  BY DEF NoneLost
<1>1. UNCHANGED <<client, pc, call, sig>>
  BY DEF DriveNext, Serve, Accept, Take, Describe, Read, Write, Acknowledge, ShutDown, Eof, SendFailed,
         DataCutOff, DriveDies, DriveStart, clientVars
<1>2. link = "open" /\ link' = link
  <2>1. ~Accept
    BY <1>1 DEF Accept
  <2> QED BY <2>1 DEF DriveNext, Serve, Take, Describe, Read, Write, Acknowledge, ShutDown, Eof, SendFailed,
             DataCutOff, DriveDies, DriveStart, HangUp
<1>3. Present(call[d].tid)
  <2>1. At(d, "wait")
    BY <1>1, StepNumbers, StepNumbersNext
  <2> QED BY <1>1, <1>2, <2>1 DEF NoneLost
<1>4. CASE Take
  <2>1. /\ toDrive # << >> /\ drive = "serving" /\ drive' = "busy"
        /\ cur' = Head(toDrive) /\ toDrive' = Tail(toDrive) /\ toClient' = toClient
    BY <1>4 DEF Take
  <2>2. ASSUME NEW i \in DOMAIN toDrive, toDrive[i].tid = call[d].tid, cur'.tid # call[d].tid
        PROVE  \E j \in DOMAIN toDrive' : toDrive'[j].tid = call[d].tid
    <3>1. toDrive \in Seq(Messages) /\ Head(toDrive) = toDrive[1]
      BY <2>1, TailPlaces DEF TypeOK
    <3>2. i # 1 /\ i \in 1 .. Len(toDrive) /\ Len(toDrive) \in Nat
      BY <2>1, <2>2, <3>1, LenProperties
    <3>3. i - 1 \in 1 .. Len(toDrive) - 1 /\ (i - 1) + 1 = i
      BY <3>2
    <3>4. /\ Tail(toDrive) \in Seq(Messages) /\ Len(Tail(toDrive)) = Len(toDrive) - 1
          /\ \A j \in 1 .. Len(toDrive) - 1 : Tail(toDrive)[j] = toDrive[j + 1]
      BY <2>1, <3>1, HeadTailProperties
    <3>5. i - 1 \in DOMAIN Tail(toDrive) /\ Tail(toDrive)[i - 1] = toDrive[i]
      BY <3>3, <3>4, LenProperties
    <3> QED BY <2>1, <2>2, <3>5
  <2> QED BY <1>1, <1>3, <2>1, <2>2 DEF Present
<1>5. CASE Describe \/ Read \/ Acknowledge
  <2>1. PICK v \in Contents : Respond(v, "serving") /\ drive \in {"busy", "replying"} /\ toDrive' = toDrive
    <3>1. CASE Read
      BY <3>1, MessageType DEF Read, TypeOK
    <3>2. CASE Describe \/ Acknowledge
      BY <3>2 DEF Describe, Acknowledge, Contents
    <3> QED BY <1>5, <3>1, <3>2
  <2>2. PICK r \in Responses : r = Response(cur, v)
    BY MessageType DEF Response, Responses, TypeOK
  <2>3. r.tid = cur.tid /\ toClient' = Append(toClient, r) /\ toClient \in Seq(Responses)
    BY <1>2, <2>1, <2>2 DEF Respond, Response, TypeOK
  <2>4. /\ Len(toClient) + 1 \in DOMAIN toClient' /\ toClient'[Len(toClient) + 1] = r
        /\ \A i \in DOMAIN toClient : i \in DOMAIN toClient' /\ toClient'[i] = toClient[i]
    BY <2>2, <2>3, AppendProperties, LenProperties
  <2> QED BY <1>1, <1>3, <2>1, <2>3, <2>4 DEF Present
<1>6. CASE Write
  <2>1. UNCHANGED <<toDrive, toClient, cur>> /\ drive' = "replying"
    BY <1>6 DEF Write
  <2> QED BY <1>1, <1>3, <2>1 DEF Present
<1>7. CASE DriveStart
  BY <1>1, <1>3, <1>7 DEF DriveStart, Present
<1>8. Take \/ Describe \/ Read \/ Acknowledge \/ Write \/ DriveStart
  <2>1. ~Accept
    BY <1>1 DEF Accept
  <2>2. ~(ShutDown \/ Eof \/ SendFailed \/ DataCutOff \/ DriveDies)
    BY <1>2 DEF ShutDown, Eof, SendFailed, DataCutOff, DriveDies, HangUp
  <2> QED BY <2>1, <2>2 DEF DriveNext, Serve
<1> QED BY <1>4, <1>5, <1>6, <1>7, <1>8

LEMMA NoneLostStep == LinkInv /\ LinkInv' /\ NoneLost /\ [Next]_vars => NoneLost'
<1> SUFFICES ASSUME LinkInv, LinkInv', NoneLost, [Next]_vars PROVE NoneLost'
  OBVIOUS
<1> USE DEF LinkInv
<1>1. CASE ClientStart \/ Leave \/ HandlerReturns \/ AskFails \/ ClientDies
  BY <1>1 DEF ClientStart, Leave, HandlerReturns, AskFails, ClientDies, NoneLost
<1>2. CASE ClientReady
  <2>1. \A c \in Callers : pc'[c] = 0
    BY <1>2 DEF ClientReady, TypeOK
  <2>2. \A c \in Callers : ~At(c, "wait")'
    BY <2>1, StepNumbersNext
  <2> QED BY <2>2 DEF NoneLost
<1>3. CASE UNCHANGED vars
  BY <1>3 DEF vars, NoneLost, Present, At
<1> QED BY <1>1, <1>2, <1>3, CallerLosesNone, HandleLosesNone, DriveLosesNone DEF Next, ClientNext

\* A request in two places would have had its effect and not.
LEMMA OnePlace ==
    ASSUME LinkInv, client = "up", link = "open", NEW c \in Callers, pc[c] = 3, NEW t, t = call[c].tid
    PROVE  \A p, q \in Places(t) : p = q
<1> USE DEF LinkInv
<1>1. ASSUME NEW m, NEW e \in Callers, Awaits(e, m), m.tid = t PROVE e = c
  <2>1. pc[e] = 3 /\ call[e].tid = t
    BY <1>1, OneOwner DEF Awaits
  <2> QED BY <2>1 DEF CallsOK
<1>2. \A m : m.tid = t => /\ Asked(m) => effect[c] = Pending
                          /\ Done(m) \/ Answered(m) => effect[c] # Pending
  BY <1>1 DEF Asked, Done, Answered
<1>3. /\ Distinct(toDrive) /\ Distinct(toClient)
      /\ \A i \in DOMAIN toDrive : toDrive[i].tid = t => effect[c] = Pending
      /\ \A i \in DOMAIN toClient : toClient[i].tid = t => effect[c] # Pending
  BY <1>2 DEF MessagesOK
<1>4. drive \in {"busy", "replying"} /\ cur.tid = t =>
          /\ \A i \in DOMAIN toDrive : toDrive[i].tid # t
          /\ \A i \in DOMAIN toClient : toClient[i].tid # t
  BY <1>2 DEF MessagesOK
<1>5. ASSUME NEW p \in Places(t)
      PROVE  \/ \E i \in DOMAIN toDrive : toDrive[i].tid = t /\ p = <<"asked", i>>
             \/ drive \in {"busy", "replying"} /\ cur.tid = t /\ p = <<"served", 1>>
             \/ \E i \in DOMAIN toClient : toClient[i].tid = t /\ p = <<"answered", i>>
  BY <1>5 DEF Places
<1> SUFFICES ASSUME NEW p \in Places(t), NEW q \in Places(t) PROVE p = q
  OBVIOUS
<1> QED BY <1>3, <1>4, <1>5 DEF Distinct

\* While the connection is open, the request of every thread that waits, or the answer to
\* it, is in exactly one place: on its way to the drive, in the drive, or on its way back.
THEOREM CallsInOnePlace == Spec => []InOnePlace
<1>1. Init => NoneLost
  BY DEF Init, NoneLost
<1>2. LinkInv /\ NoneLost => InOnePlace
  <2> SUFFICES ASSUME LinkInv, NoneLost, client = "up", link = "open",
                      NEW c \in Callers, At(c, "wait"), ~sig[c]
               PROVE  \E p \in Places(call[c].tid) : Places(call[c].tid) = {p}
    BY DEF InOnePlace
  <2>1. pc[c] = 3
    BY StepNumbers DEF LinkInv
  <2>2. PICK p : p \in Places(call[c].tid)
    BY DEF NoneLost, Present, Places
  <2>3. \A q \in Places(call[c].tid) : p = q
    BY <2>1, <2>2, OnePlace
  <2> QED BY <2>2, <2>3
<1> QED BY <1>1, <1>2, NoneLostStep, LinkInvariant, PTL DEF Spec

-----------------------------------------------------------------------------
(* What the threads see is the storage of SectorStore *)

\* The state of SectorStore that a state of the link maps to
NoOp == [kind |-> "none", sector |-> "none", value |-> Blank, effect |-> Pending]
Op(c) == IF pc[c] = 0 \/ sig[c]
         THEN [kind |-> "none", sector |-> "none", value |-> Blank, effect |-> Pending]
         ELSE [kind |-> call[c].kind, sector |-> call[c].sector,
               value |-> call[c].value, effect |-> effect[c]]
Ops == [c \in Callers |-> Op(c)]
Up == client \in {"up", "deaf", "closing", "astray"}

\* Nothing that a storage shows has changed.
StoreSame == file' = file /\ Up' = Up /\ Ops' = Ops /\ buf' = buf /\ LateWrites' = LateWrites

LEMMA SameMaps == ASSUME StoreSame PROVE UNCHANGED Store!svars
BY DEF StoreSame, Store!svars, Ops, Op, Up

LEMMA StartMaps ==
    ASSUME ~Up, Up', LateWrites = {}, LateWrites' = {}, Ops' = Ops, file' = file, buf' = buf
    PROVE  Store!Start
BY DEF Store!Start, Ops, Op, Up

LEMMA InvokeMaps ==
    ASSUME NEW c \in Callers, Up, Up', Ops[c] = NoOp, NEW r \in Requests,
           Ops' = [Ops EXCEPT ![c] = [kind |-> r.kind, sector |-> r.sector, value |-> r.value,
                                      effect |-> Pending]],
           file' = file, buf' = buf, LateWrites' = LateWrites
    PROVE  Store!Invoke(c)
BY DEF Store!Invoke, Store!NoOp, Store!Requests, Store!Call, Requests, Ops, Op, Up, NoOp

LEMMA FailMaps ==
    ASSUME NEW c \in Callers, Ops[c] # NoOp, Ops[c].effect = Pending, Ops' = [Ops EXCEPT ![c] = NoOp],
           Up' = Up, file' = file, buf' = buf, LateWrites' = LateWrites
    PROVE  Store!Fail(c)
BY DEF Store!Fail, Store!NoOp, Ops, Op, Up, NoOp

LEMMA ReturnMaps ==
    ASSUME NEW c \in Callers, Ops[c].effect # Pending, Ops' = [Ops EXCEPT ![c] = NoOp],
           buf' = IF Ops[c].kind = "read" THEN [buf EXCEPT ![c] = Ops[c].effect] ELSE buf,
           Up' = Up, file' = file, LateWrites' = LateWrites
    PROVE  Store!Return(c)
BY DEF Store!Return, Store!NoOp, Ops, Op, Up, NoOp

LEMMA EffectMaps ==
    ASSUME NEW c \in Callers, Ops[c] # NoOp, Ops[c].effect = Pending,
           \/ /\ Ops[c].kind = "read" /\ file' = file
              /\ Ops' = [Ops EXCEPT ![c].effect = file[Ops[c].sector]]
           \/ /\ Ops[c].kind = "write" /\ file' = [file EXCEPT ![Ops[c].sector] = Ops[c].value]
              /\ Ops' = [Ops EXCEPT ![c].effect = Ops[c].value]
           \/ /\ Ops[c].kind = "shutdown" /\ file' = file
              /\ Ops' = [Ops EXCEPT ![c].effect = Blank],
           Up' = Up, buf' = buf, LateWrites' = LateWrites
    PROVE  Store!Effect(c)
BY DEF Store!Effect, Store!NoOp, Ops, Op, Up, NoOp

LEMMA SpoilMaps ==
    ASSUME NEW c \in Callers, Ops[c].kind = "write", Ops[c].effect = Pending,
           file' = [file EXCEPT ![Ops[c].sector] = Torn],
           Up' = Up, Ops' = Ops, buf' = buf, LateWrites' = LateWrites
    PROVE  Store!Spoil(c)
BY DEF Store!Spoil, Ops, Op, Up

LEMMA DieMaps ==
    ASSUME Up, ~Up', Ops' = [c \in Callers |-> NoOp], buf' = [c \in Callers |-> Blank], file' = file,
           \A w \in LateWrites' : \E c \in Callers :
              Ops[c].kind = "write" /\ w = [sector |-> Ops[c].sector, value |-> Ops[c].value]
    PROVE  Store!Die
<1>1. LateWrites' \subseteq {[sector |-> Ops[c].sector, value |-> Ops[c].value] :
                                c \in {d \in Callers : Ops[d].kind = "write"}}
  OBVIOUS
<1>2. LateWrites' \subseteq Store!Unanswered
  BY <1>1 DEF Store!Unanswered, Ops, Op
<1> QED BY <1>2 DEF Store!Die, Store!NoOp, Ops, Op, Up, NoOp

LEMMA SettleMaps ==
    ASSUME NEW w \in LateWrites,
           \/ file' = [file EXCEPT ![w.sector] = w.value]
           \/ file' = [file EXCEPT ![w.sector] = Torn]
           \/ file' = file,
           LateWrites' \subseteq LateWrites, Up' = Up, Ops' = Ops, buf' = buf
    PROVE  Store!Settle
BY DEF Store!Settle, Ops, Op, Up

\* What a storage shows of a thread
LEMMA OpsAre ==
    /\ \A c \in Callers : Ops[c] = Op(c)
    /\ UNCHANGED <<pc, sig, call, effect>> => Ops' = Ops
    /\ \A c \in Callers : \A x : Op(c)' = x /\ (\A d \in Callers \ {c} : Op(d)' = Op(d))
                                => Ops' = [Ops EXCEPT ![c] = x]
    /\ (\A c \in Callers : Op(c)' = Op(c)) => Ops' = Ops
<1>1. ASSUME UNCHANGED <<pc, sig, call, effect>> PROVE Ops' = Ops
  BY <1>1 DEF Ops, Op
<1>2. ASSUME NEW c \in Callers, NEW x, Op(c)' = x, \A d \in Callers \ {c} : Op(d)' = Op(d)
      PROVE  Ops' = [Ops EXCEPT ![c] = x]
  BY <1>2 DEF Ops
<1>3. (\A c \in Callers : Op(c)' = Op(c)) => Ops' = Ops
  BY DEF Ops
<1>4. \A c \in Callers : Ops[c] = Op(c)
  BY DEF Ops
<1> QED BY <1>1, <1>2, <1>3, <1>4

\* The call of a thread that is in one and not woken is what the storage shows of it.
LEMMA InCall ==
    ASSUME LinkInv, NEW c \in Callers, pc[c] > 0, ~sig[c]
    PROVE  /\ Ops[c].kind = call[c].kind /\ Ops[c].sector = call[c].sector
           /\ Ops[c].value = call[c].value /\ Ops[c].effect = effect[c]
           /\ Ops[c] # NoOp
           /\ Ops[c] = [kind |-> call[c].kind, sector |-> call[c].sector,
                        value |-> call[c].value, effect |-> effect[c]]
<1>1. pc[c] # 0 /\ call[c].kind \in {"read", "write", "shutdown"}
  BY CallType DEF LinkInv
<1>2. Ops[c] = [kind |-> call[c].kind, sector |-> call[c].sector,
                value |-> call[c].value, effect |-> effect[c]]
  BY <1>1, OpsAre DEF Op
<1>3. NoOp.kind = "none"
  BY DEF NoOp
<1> QED BY <1>1, <1>2, <1>3

\* Nothing is late while the connection is not broken.
LEMMA NothingLate ==
    /\ link # "broken" => LateWrites = {}
    /\ link' # "broken" => LateWrites' = {}
    /\ UNCHANGED <<link, toDrive, drive, cur>> => LateWrites' = LateWrites
BY DEF LateWrites

\* While a connection is broken nobody uses the storage and nobody is in a call.
LEMMA BrokenIsDown ==
    ASSUME LinkInv, link = "broken"
    PROVE  ~Up /\ client \in {"off", "asking"} /\ \A c \in Callers : pc[c] = 0
BY DEF LinkInv, LinkOK, TypeOK, Up

\* A thread's step is a call, the failure of one, or shows nothing.
LEMMA CallerMaps ==
    ASSUME LinkInv, TypeOK', NEW c \in Callers,
           Number(c) \/ List(c) \/ Send(c) \/ SendFails(c) \/ Wake(c)
    PROVE  Store!SNext \/ UNCHANGED Store!svars
<1> USE DEF LinkInv
<1>1. /\ Up' = Up /\ file' = file /\ buf' = buf /\ client' = client
      /\ UNCHANGED <<link, drive, cur>>
  BY DEF Number, List, Send, SendFails, Wake, Up
<1>2. LateWrites' = LateWrites
  <2>1. CASE link = "open"
    BY <1>1, <2>1, NothingLate
  <2>2. CASE link # "open"
    BY <1>1, <2>2, NothingLate DEF Number, List, Send, SendFails, Wake
  <2> QED BY <2>1, <2>2
<1>3. CASE Number(c)
  <2>1. pc[c] = 0 /\ Up /\ pc' = [pc EXCEPT ![c] = 1] /\ sig' = [sig EXCEPT ![c] = FALSE]
        /\ effect' = [effect EXCEPT ![c] = Pending]
    BY <1>3, StepNumbers DEF Number, Up
  <2>2. PICK r \in Requests : call' = [call EXCEPT ![c] = Numbered(r, counter)]
    BY <1>3 DEF Number
  <2>3. /\ pc'[c] = 1 /\ ~sig'[c] /\ effect'[c] = Pending
        /\ \A e \in Callers \ {c} : pc'[e] = pc[e] /\ sig'[e] = sig[e] /\ effect'[e] = effect[e]
    BY <2>1 DEF TypeOK
  <2>4. call'[c] = Numbered(r, counter) /\ \A e \in Callers \ {c} : call'[e] = call[e]
    BY <2>2 DEF TypeOK
  <2>5. \A e \in Callers \ {c} : Op(e)' = Op(e)
    BY <2>3, <2>4 DEF Op
  <2>6. Op(c)' = [kind |-> r.kind, sector |-> r.sector, value |-> r.value, effect |-> Pending]
    BY <2>3, <2>4 DEF Op, Numbered
  <2>7. Ops[c] = NoOp
    BY <2>1, OpsAre DEF Op, NoOp
  <2>8. Ops' = [Ops EXCEPT ![c] = [kind |-> r.kind, sector |-> r.sector, value |-> r.value,
                                   effect |-> Pending]]
    BY <2>5, <2>6, OpsAre
  <2>9. Store!Invoke(c)
    BY <1>1, <1>2, <2>1, <2>7, <2>8, InvokeMaps
  <2> QED BY <2>9 DEF Store!SNext
<1>4. CASE List(c) \/ Send(c)
  <2>1. pc[c] \in {1, 2} /\ pc' = [pc EXCEPT ![c] = @ + 1] /\ UNCHANGED <<call, sig, effect>>
    BY <1>4, StepNumbers DEF List, Send
  <2>2. \A e \in Callers : pc'[e] = 0 <=> pc[e] = 0
    BY <2>1 DEF TypeOK
  <2>3. \A e \in Callers : Op(e)' = Op(e)
    BY <2>1, <2>2 DEF Op
  <2> QED BY <1>1, <1>2, <2>3, OpsAre, SameMaps DEF StoreSame
<1>5. CASE SendFails(c)
  <2>1. pc[c] = 2 /\ ~sig[c] /\ effect[c] = Pending
    <3>1. pc[c] = 2 /\ CallOf(c)
      BY <1>5, StepNumbers, CallsByNumber DEF SendFails
    <3> QED BY <3>1 DEF CallOf
  <2>2. /\ pc'[c] = 0 /\ UNCHANGED <<sig, effect>>
        /\ \A e \in Callers \ {c} : pc'[e] = pc[e] /\ call'[e] = call[e]
    BY <1>5 DEF SendFails, TypeOK
  <2>3. Op(c)' = NoOp /\ \A e \in Callers \ {c} : Op(e)' = Op(e)
    BY <2>2 DEF Op, NoOp
  <2>4. Ops' = [Ops EXCEPT ![c] = NoOp]
    BY <2>3, OpsAre
  <2>5. Ops[c] # NoOp /\ Ops[c].effect = Pending
    <3>1. pc[c] > 0
      BY <2>1
    <3> QED BY <2>1, <3>1, InCall
  <2>6. Store!Fail(c)
    BY <1>1, <1>2, <2>4, <2>5, FailMaps
  <2> QED BY <2>6 DEF Store!SNext
<1>6. CASE Wake(c)
  <2>1. sig[c] /\ effect' = effect /\ pc' = [pc EXCEPT ![c] = 0] /\ call' = [call EXCEPT ![c] = NoCall]
        /\ sig' = [sig EXCEPT ![c] = FALSE]
    BY <1>6 DEF Wake
  <2>2. pc'[c] = 0 /\ \A e \in Callers \ {c} : pc'[e] = pc[e] /\ call'[e] = call[e]
    BY <2>1 DEF TypeOK
  <2>3. \A e \in Callers \ {c} : sig'[e] = sig[e]
    BY <2>1 DEF TypeOK
  <2>4. \A e \in Callers : Op(e)' = Op(e)
    BY <2>1, <2>2, <2>3 DEF Op
  <2> QED BY <1>1, <1>2, <2>4, OpsAre, SameMaps DEF StoreSame
<1> QED BY <1>3, <1>4, <1>5, <1>6

\* The handler's step is a return.
LEMMA HandleMaps ==
    ASSUME LinkInv, TypeOK', Handle
    PROVE  Store!SNext
<1> USE DEF LinkInv
<1>1. PICK c \in Callers : /\ Awaits(c, Head(toClient)) /\ effect[c] # Pending
                           /\ sig' = [sig EXCEPT ![c] = TRUE]
                           /\ buf' = IF call[c].kind = "read" THEN [buf EXCEPT ![c] = effect[c]] ELSE buf
  BY HandleMessages
<1>2. UNCHANGED <<client, pc, call, link, toDrive, drive, cur, file, effect>>
  BY HandleMessages DEF Handle
<1>3. pc[c] = 3 /\ pc[c] > 0 /\ ~sig[c]
  BY <1>1, OneOwner
<1>4. sig'[c] /\ \A e \in Callers \ {c} : sig'[e] = sig[e]
  BY <1>1 DEF TypeOK
<1>5. Op(c)' = NoOp /\ \A e \in Callers \ {c} : Op(e)' = Op(e)
  BY <1>2, <1>4 DEF Op, NoOp
<1>6. Ops' = [Ops EXCEPT ![c] = NoOp]
  BY <1>5, OpsAre
<1>7. Ops[c].kind = call[c].kind /\ Ops[c].effect = effect[c]
  BY <1>3, InCall
<1>8. Up' = Up /\ LateWrites' = LateWrites /\ file' = file
  BY <1>2, NothingLate DEF Up
<1>9. Store!Return(c)
  BY <1>1, <1>6, <1>7, <1>8, ReturnMaps
<1> QED BY <1>9 DEF Store!SNext

\* A write on an open connection, or one that is cut off, is in a thread's call.
LEMMA LateAreCalled ==
    ASSUME LinkInv, TypeOK', ClientDies, Up, NEW w \in LateWrites'
    PROVE  \E c \in Callers : /\ Ops[c].kind = "write"
                              /\ w = [sector |-> Ops[c].sector, value |-> Ops[c].value]
<1> USE DEF LinkInv
<1>1. link = "open" /\ client \in {"up", "closing"}
  <2>1. link' = "broken"
    BY NothingLate
  <2> QED BY <2>1 DEF ClientDies, Up, LinkOK
<1>2. PICK m : /\ m.kind = "write" /\ w = [sector |-> m.sector, value |-> m.value]
               /\ \/ \E i \in DOMAIN toDrive' : m = toDrive'[i]
                  \/ drive = "busy" /\ m = cur
  BY DEF LateWrites, ClientDies
<1>3. ASSUME NEW c \in Callers, pc[c] > 0, ~sig[c], call[c].kind = "write",
             call[c].sector = m.sector, call[c].value = m.value
      PROVE  Ops[c].kind = "write" /\ w = [sector |-> Ops[c].sector, value |-> Ops[c].value]
  BY <1>2, <1>3, InCall
<1>4. CASE Asked(m)
  <2>1. PICK c \in Callers : Awaits(c, m) /\ call[c].sector = m.sector /\ call[c].value = m.value
    BY <1>4 DEF Asked
  <2>2. pc[c] = 3 /\ pc[c] > 0 /\ ~sig[c] /\ call[c].kind = "write"
    BY <1>2, <2>1, OneOwner DEF Awaits
  <2> QED BY <1>3, <2>1, <2>2
<1>5. CASE \E c \in Callers : At(c, "send") /\ call[c].kind = "write"
                              /\ m = Message(call[c], call[c].tid, FALSE)
  <2>1. PICK c \in Callers : At(c, "send") /\ call[c].kind = "write"
                              /\ m = Message(call[c], call[c].tid, FALSE)
    BY <1>5
  <2>2. pc[c] = 2 /\ CallOf(c)
    BY <2>1, StepNumbers, CallsByNumber
  <2>3. pc[c] > 0 /\ ~sig[c]
    BY <2>2 DEF CallOf
  <2> QED BY <1>3, <2>1, <2>3 DEF Message
<1>6. CASE drive = "busy" /\ m = cur
  BY <1>1, <1>4, <1>6 DEF MessagesOK
<1>7. CASE \E i \in DOMAIN toDrive' : m = toDrive'[i]
  <2>1. PICK q \in CutOff : toDrive' = toDrive \o q
    BY <1>1 DEF ClientDies
  <2>2. toDrive \in Seq(Messages) /\ \A i \in DOMAIN toDrive : Asked(toDrive[i])
    BY <1>1 DEF MessagesOK, TypeOK
  <2>3. CASE q = << >>
    <3>1. toDrive' = toDrive
      BY <2>1, <2>2, <2>3, ConcatEmptySeq
    <3> QED BY <1>4, <1>7, <2>2, <3>1
  <2>4. CASE q # << >>
    <3>1. PICK c \in Callers : /\ At(c, "send") /\ call[c].kind = "write"
                               /\ q = <<Message(call[c], call[c].tid, FALSE)>>
      BY <2>4 DEF CutOff
    <3>2. PICK y : y = Message(call[c], call[c].tid, FALSE)
      OBVIOUS
    <3>3. y \in Messages
      <4>1. pc[c] = 2
        BY <3>1, StepNumbers
      <4>2. pc[c] > 0
        BY <4>1
      <4> QED BY <3>2, <4>2, CallType
    <3>4. toDrive' = Append(toDrive, y)
      BY <2>1, <2>2, <3>1, <3>2, <3>3, AppendIsConcat
    <3>5. m = y \/ \E i \in DOMAIN toDrive : m = toDrive[i]
      BY <1>7, <2>2, <3>3, <3>4, AppendPlaces
    <3> QED BY <1>4, <1>5, <2>2, <3>1, <3>2, <3>5
  <2> QED BY <2>3, <2>4
<1> QED BY <1>2, <1>6, <1>7

\* A process that dies in its constructor leaves nothing but its question.
LEMMA NothingAsked ==
    ASSUME LinkInv, TypeOK', ClientDies, client = "asking"
    PROVE  LateWrites' = LateWrites
<1> USE DEF LinkInv
<1>1. CASE link # "open"
  BY <1>1, NothingLate DEF ClientDies, LateWrites
<1>2. CASE link = "open"
  <2>1. LateWrites = {}
    BY <1>2, NothingLate
  <2>2. CutOff = {<< >>}
    <3>1. \A c \in Callers : pc[c] = 0
      BY DEF TypeOK
    <3>2. \A c \in Callers : ~At(c, "send")
      BY <3>1, StepNumbers
    <3> QED BY <3>2 DEF CutOff
  <2>3. toDrive' = toDrive
    <3>1. toDrive' = toDrive \o << >> /\ toDrive \in Seq(Messages)
      BY <1>2, <2>2 DEF ClientDies, TypeOK
    <3> QED BY <3>1, ConcatEmptySeq
  <2>4. PICK ask : ask = Message(GetDesc, 0, TRUE)
    OBVIOUS
  <2>5. /\ toDrive \in {<< >>, <<ask>>}
        /\ drive = "busy" => cur = ask
    BY <1>2, <2>4 DEF AskingOK
  <2>6. ask.kind = "desc" /\ \A i \in DOMAIN toDrive : toDrive[i].kind # "write"
    BY <2>4, <2>5 DEF Message, GetDesc
  <2>7. LateWrites' = {}
    BY <2>3, <2>5, <2>6 DEF LateWrites, ClientDies
  <2> QED BY <2>1, <2>7
<1> QED BY <1>1, <1>2

\* A process starts its use of the storage when it has the description, and ends it when
\* it dies or its destructor is done; its other steps show nothing.
LEMMA ProcessMaps ==
    ASSUME LinkInv, TypeOK',
           ClientStart \/ ClientReady \/ Leave \/ HandlerReturns \/ AskFails \/ ClientDies
    PROVE  Store!SNext \/ UNCHANGED Store!svars
<1> USE DEF LinkInv
<1>0. ~Up \/ client = "closing" => \A c \in Callers : pc[c] = 0
  BY DEF TypeOK, Up
<1>1. CASE ClientStart \/ AskFails
  <2>1. Up' = Up /\ UNCHANGED <<pc, sig, call, effect, buf, file>>
        /\ UNCHANGED <<link, toDrive, drive, cur>>
    BY <1>1 DEF ClientStart, AskFails, Up
  <2> QED BY <2>1, OpsAre, NothingLate, SameMaps DEF StoreSame
<1>2. CASE ClientReady
  <2>1. ~Up /\ Up' /\ UNCHANGED <<pc, sig, call, effect>>
        /\ UNCHANGED <<link, toDrive, drive, cur>> /\ file' = file /\ buf' = buf
    BY <1>2 DEF ClientReady, Up
  <2>2. link # "broken"
    BY <1>2 DEF ClientReady, LinkOK
  <2>3. LateWrites = {} /\ LateWrites' = {}
    BY <2>1, <2>2, NothingLate
  <2>4. Store!Start
    BY <2>1, <2>3, OpsAre, StartMaps
  <2> QED BY <2>4 DEF Store!SNext
<1>3. CASE Leave
  <2>1. Up' = Up /\ UNCHANGED <<pc, sig, call, effect, buf, file>>
        /\ UNCHANGED <<link, toDrive, drive, cur>>
    BY <1>3 DEF Leave, Up
  <2> QED BY <2>1, OpsAre, NothingLate, SameMaps DEF StoreSame
<1>4. CASE HandlerReturns
  <2>1. link = "lost" /\ link' # "broken" /\ UNCHANGED <<pc, sig, call, effect>> /\ file' = file
    BY <1>4 DEF HandlerReturns
  <2>2. LateWrites = {} /\ LateWrites' = {} /\ Ops' = Ops
    BY <2>1, NothingLate, OpsAre
  <2>3. CASE client = "closing"
    <3>1. Up /\ ~Up' /\ buf' = [c \in Callers |-> Blank]
      BY <1>4, <2>3 DEF HandlerReturns, Up
    <3>2. \A c \in Callers : Op(c) = NoOp
      BY <1>0, <2>3 DEF Op, NoOp
    <3>3. Ops' = [c \in Callers |-> NoOp]
      BY <2>2, <3>2 DEF Ops
    <3>4. Store!Die
      BY <2>1, <2>2, <3>1, <3>3, DieMaps
    <3> QED BY <3>4 DEF Store!SNext
  <2>4. CASE client # "closing"
    <3>1. Up' = Up /\ buf' = buf
      BY <1>4, <2>4 DEF HandlerReturns, Up, LinkOK
    <3> QED BY <2>1, <2>2, <3>1, SameMaps DEF StoreSame
  <2> QED BY <2>3, <2>4
<1>5. CASE ClientDies
  <2>1. ~Up' /\ file' = file /\ buf' = [c \in Callers |-> Blank]
    BY <1>5 DEF ClientDies, Up
  <2>2. Ops' = [c \in Callers |-> NoOp]
    <3>1. \A c \in Callers : Op(c)' = NoOp
      BY <1>5 DEF ClientDies, Op, NoOp
    <3> QED BY <3>1 DEF Ops
  <2>3. CASE Up
    <3>1. Store!Die
      BY <1>5, <2>1, <2>2, <2>3, LateAreCalled, DieMaps
    <3> QED BY <3>1 DEF Store!SNext
  <2>4. CASE ~Up
    <3>1. client = "asking"
      BY <1>5, <2>4 DEF ClientDies, Up, TypeOK
    <3>2. Up' = Up /\ buf' = buf /\ LateWrites' = LateWrites
      BY <1>5, <2>1, <3>1, NothingAsked DEF LinkOK, Up
    <3>3. \A c \in Callers : Op(c) = NoOp
      BY <1>0, <2>4 DEF Op, NoOp
    <3>4. Ops = [c \in Callers |-> NoOp]
      BY <3>3 DEF Ops
    <3> QED BY <2>1, <2>2, <3>2, <3>4, SameMaps DEF StoreSame
  <2> QED BY <2>3, <2>4
<1> QED BY <1>1, <1>2, <1>3, <1>4, <1>5

\* An effect on an open connection is one on the call that the storage shows.
LEMMA EffectShown ==
    ASSUME LinkInv, TypeOK', drive = "busy", link = "open", cur.kind # "desc",
           NEW v \in Contents, Effect(v), UNCHANGED clientVars
    PROVE  \E c \in Callers : /\ Ops[c] # NoOp /\ Ops[c].effect = Pending /\ Ops[c].kind = cur.kind
                              /\ Ops[c].sector = cur.sector /\ Ops[c].value = cur.value
                              /\ Ops' = [Ops EXCEPT ![c].effect = v]
<1> USE DEF LinkInv
<1>1. client # "asking"
  BY BusyOwner
<1>2. PICK c \in Callers : /\ Awaits(c, cur) /\ effect[c] = Pending
                           /\ call[c].sector = cur.sector /\ call[c].value = cur.value
                           /\ effect' = [effect EXCEPT ![c] = v]
  BY <1>1, EffectOfOne
<1>3. pc[c] = 3 /\ pc[c] > 0 /\ ~sig[c] /\ call[c].kind = cur.kind
  BY <1>2, OneOwner DEF Awaits
<1>4. /\ Ops[c] # NoOp
      /\ Ops[c] = [kind |-> call[c].kind, sector |-> call[c].sector,
                   value |-> call[c].value, effect |-> effect[c]]
  BY <1>3, InCall
<1>5. effect'[c] = v /\ \A e \in Callers \ {c} : effect'[e] = effect[e]
  BY <1>2 DEF TypeOK
<1>6. UNCHANGED <<pc, sig, call>>
  BY DEF clientVars
<1>7. Op(c)' = [Ops[c] EXCEPT !.effect = v]
  BY <1>3, <1>4, <1>5, <1>6 DEF Op
<1>8. \A e \in Callers \ {c} : Op(e)' = Op(e)
  BY <1>5, <1>6 DEF Op
<1>9. Ops' = [Ops EXCEPT ![c] = [Ops[c] EXCEPT !.effect = v]]
  BY <1>7, <1>8, OpsAre
<1>10. Ops' = [Ops EXCEPT ![c].effect = v]
  BY <1>9
<1>11. /\ Ops[c].effect = Pending /\ Ops[c].kind = cur.kind
       /\ Ops[c].sector = cur.sector /\ Ops[c].value = cur.value
  BY <1>2, <1>3, <1>4
<1> QED BY <1>4, <1>10, <1>11

\* A step of the drive that has no effect, keeps the file and drops late writes, at most:
\* they are forgotten, or there were none.
LEMMA Forgets ==
    ASSUME UNCHANGED clientVars, effect' = effect, file' = file, LateWrites' \subseteq LateWrites
    PROVE  Store!SNext \/ UNCHANGED Store!svars
<1>1. Up' = Up /\ buf' = buf /\ Ops' = Ops
  BY OpsAre DEF Up, clientVars
<1>2. CASE LateWrites' = LateWrites
  BY <1>1, <1>2, SameMaps DEF StoreSame
<1>3. CASE LateWrites' # LateWrites
  <2>1. PICK w \in LateWrites : TRUE
    BY <1>3
  <2>2. Store!Settle
    BY <1>1, <2>1, SettleMaps
  <2> QED BY <2>2 DEF Store!SNext
<1> QED BY <1>2, <1>3

\* A write that the drive is busy with is late when its process is dead.
LEMMA BusyIsLate ==
    ASSUME link = "broken", drive = "busy", cur.kind = "write"
    PROVE  [sector |-> cur.sector, value |-> cur.value] \in LateWrites
BY DEF LateWrites

\* A read, a write or a shutdown takes effect; a write of a dead process settles.
LEMMA EffectMapped ==
    ASSUME LinkInv, TypeOK', Read \/ Write \/ ShutDown
    PROVE  Store!SNext \/ UNCHANGED Store!svars
<1> USE DEF LinkInv
<1>1. drive = "busy" /\ cur.kind \in {"read", "write", "shutdown"} /\ UNCHANGED clientVars
  BY DEF Read, Write, ShutDown
<1>2. Up' = Up /\ buf' = buf /\ cur \in Messages
  BY <1>1 DEF Up, clientVars, TypeOK
<1>3. CASE link = "open"
  <2>1. LateWrites = {} /\ LateWrites' = {}
    BY <1>3, NothingLate DEF Read, Write, ShutDown
  <2>2. ASSUME NEW v \in Contents, Effect(v)
        PROVE  \E c \in Callers : /\ Ops[c] # NoOp /\ Ops[c].effect = Pending /\ Ops[c].kind = cur.kind
                                  /\ Ops[c].sector = cur.sector /\ Ops[c].value = cur.value
                                  /\ Ops' = [Ops EXCEPT ![c].effect = v]
    BY <1>1, <1>3, <2>2, EffectShown
  <2>3. \E c \in Callers : Store!Effect(c)
    <3>1. CASE Read
      <4>1. file[cur.sector] \in Contents /\ Effect(file[cur.sector]) /\ file' = file /\ cur.kind = "read"
        BY <1>2, <3>1, MessageType DEF Read, TypeOK
      <4> QED BY <1>2, <2>1, <2>2, <4>1, EffectMaps
    <3>2. CASE Write
      <4>1. /\ cur.value \in Contents /\ Effect(cur.value) /\ cur.kind = "write"
            /\ file' = [file EXCEPT ![cur.sector] = cur.value]
        BY <1>2, <3>2, MessageType DEF Write, Contents
      <4> QED BY <1>2, <2>1, <2>2, <4>1, EffectMaps
    <3>3. CASE ShutDown
      <4>1. Blank \in Contents /\ Effect(Blank) /\ file' = file /\ cur.kind = "shutdown"
        BY <3>3 DEF ShutDown, Contents
      <4> QED BY <1>2, <2>1, <2>2, <4>1, EffectMaps
    <3> QED BY <3>1, <3>2, <3>3
  <2> QED BY <2>3 DEF Store!SNext
<1>4. CASE link = "broken"
  <2>1. effect' = effect
    BY <1>4 DEF Read, Write, ShutDown, Effect
  <2>2. LateWrites' \subseteq LateWrites
    BY <1>4 DEF Read, Write, ShutDown, Respond, LateWrites
  <2>3. CASE Write
    <3>1. file' = [file EXCEPT ![cur.sector] = cur.value] /\ cur.kind = "write"
      BY <2>3 DEF Write
    <3>2. PICK w \in LateWrites : w.sector = cur.sector /\ w.value = cur.value
      BY <1>1, <1>4, <3>1, BusyIsLate
    <3>3. Ops' = Ops
      BY <1>1, <2>1, OpsAre DEF clientVars
    <3>4. Store!Settle
      BY <1>2, <2>2, <3>1, <3>2, <3>3, SettleMaps
    <3> QED BY <3>4 DEF Store!SNext
  <2>4. CASE Read \/ ShutDown
    BY <1>1, <2>1, <2>2, <2>4, Forgets DEF Read, ShutDown
  <2> QED BY <2>3, <2>4
<1> QED BY <1>1, <1>3, <1>4 DEF TypeOK

\* The steps of the drive that store nothing
LEMMA NothingStored ==
    ASSUME LinkInv, TypeOK',
           Accept \/ Take \/ Describe \/ Acknowledge \/ Eof \/ SendFailed \/ DriveStart
    PROVE  Store!SNext \/ UNCHANGED Store!svars
<1> USE DEF LinkInv
<1>1. UNCHANGED clientVars /\ effect' = effect /\ file' = file
  BY DEF Accept, Take, Describe, Acknowledge, Eof, SendFailed, DriveStart
<1>2. CASE Accept \/ Eof \/ SendFailed
  <2>1. link' # "broken"
    BY <1>2 DEF Accept, Eof, SendFailed, HangUp
  <2> QED BY <1>1, <2>1, NothingLate, Forgets
<1>3. CASE Describe \/ Acknowledge \/ DriveStart
  <2>1. UNCHANGED <<link, toDrive>> /\ drive' # "busy"
    BY <1>3 DEF Describe, Acknowledge, DriveStart, Respond
  <2>2. LateWrites' \subseteq LateWrites
    BY <2>1 DEF LateWrites
  <2> QED BY <1>1, <2>2, Forgets
<1>4. CASE Take
  <2>1. /\ toDrive \in Seq(Messages) /\ toDrive # << >> /\ cur' = Head(toDrive)
        /\ toDrive' = Tail(toDrive) /\ link' = link
    BY <1>4 DEF Take, TypeOK
  <2>2. /\ \E i \in DOMAIN toDrive : cur' = toDrive[i]
        /\ \A i \in DOMAIN toDrive' : \E j \in DOMAIN toDrive : toDrive'[i] = toDrive[j]
    BY <2>1, TailPlaces
  <2>3. LateWrites' \subseteq LateWrites
    BY <2>1, <2>2 DEF LateWrites
  <2> QED BY <1>1, <2>3, Forgets
<1> QED BY <1>2, <1>3, <1>4

\* A write that is cut off spoils its sector, or does not: it is in a thread's call as
\* long as the connection is open, and late when it is broken.
LEMMA CutOffMapped ==
    ASSUME LinkInv, TypeOK', DataCutOff \/ DriveDies
    PROVE  Store!SNext \/ UNCHANGED Store!svars
<1> USE DEF LinkInv
<1>1. /\ UNCHANGED clientVars /\ effect' = effect /\ link' # "broken" /\ cur \in Messages
      /\ Up' = Up /\ buf' = buf
  BY DEF DataCutOff, DriveDies, HangUp, clientVars, Up, TypeOK
<1>2. LateWrites' = {} /\ Ops' = Ops
  BY <1>1, NothingLate, OpsAre DEF clientVars
<1>3. CASE file' = file
  BY <1>1, <1>2, <1>3, Forgets
<1>4. CASE file' # file
  <2>1. drive = "busy" /\ cur.kind = "write" /\ file' \in Spoiled(cur) /\ (DriveDies \/ ~cur.whole)
    BY <1>4 DEF DataCutOff, DriveDies
  <2>2. file' = [file EXCEPT ![cur.sector] = Torn]
    BY <1>4, <2>1 DEF Spoiled
  <2>3. CASE link = "broken"
    <3>1. PICK w \in LateWrites : w.sector = cur.sector /\ w.value = cur.value
      BY <2>1, <2>3, BusyIsLate
    <3>2. Store!Settle
      BY <1>1, <1>2, <2>2, <3>1, SettleMaps
    <3> QED BY <3>2 DEF Store!SNext
  <2>4. CASE link = "open"
    <3>1. Asked(cur)
      BY <2>1, <2>4, BusyOwner
    <3>2. PICK c \in Callers : /\ Awaits(c, cur) /\ effect[c] = Pending /\ call[c].sector = cur.sector
      BY <3>1 DEF Asked
    <3>3. pc[c] = 3 /\ pc[c] > 0 /\ ~sig[c] /\ call[c].kind = cur.kind
      BY <3>2, OneOwner DEF Awaits
    <3>4. Ops[c].kind = "write" /\ Ops[c].effect = Pending /\ Ops[c].sector = cur.sector
      BY <2>1, <3>2, <3>3, InCall
    <3>5. LateWrites' = LateWrites
      BY <1>2, <2>4, NothingLate
    <3>6. Store!Spoil(c)
      BY <1>1, <1>2, <2>2, <3>4, <3>5, SpoilMaps
    <3> QED BY <3>6 DEF Store!SNext
  <2> QED BY <2>1, <2>3, <2>4 DEF TypeOK
<1> QED BY <1>3, <1>4

\* Every step of the link is one of the storage, or shows nothing.
LEMMA StepMaps == LinkInv /\ TypeOK' /\ [Next]_vars => Store!SNext \/ UNCHANGED Store!svars
<1> SUFFICES ASSUME LinkInv, TypeOK', [Next]_vars PROVE Store!SNext \/ UNCHANGED Store!svars
  OBVIOUS
<1>1. CASE ClientNext
  <2>1. CASE \E c \in Callers : Number(c) \/ List(c) \/ Send(c) \/ SendFails(c) \/ Wake(c)
    BY <2>1, CallerMaps
  <2>2. CASE Handle
    BY <2>2, HandleMaps
  <2>3. CASE ClientStart \/ ClientReady \/ Leave \/ HandlerReturns \/ AskFails \/ ClientDies
    BY <2>3, ProcessMaps
  <2> QED BY <1>1, <2>1, <2>2, <2>3 DEF ClientNext
<1>2. CASE DriveNext
  <2>1. CASE Read \/ Write \/ ShutDown
    BY <2>1, EffectMapped
  <2>2. CASE DataCutOff \/ DriveDies
    BY <2>2, CutOffMapped
  <2>3. CASE Accept \/ Take \/ Describe \/ Acknowledge \/ Eof \/ SendFailed \/ DriveStart
    BY <2>3, NothingStored
  <2> QED BY <1>2, <2>1, <2>2, <2>3 DEF DriveNext, Serve
<1>3. CASE UNCHANGED vars
  <2>1. Ops' = Ops
    BY <1>3, OpsAre DEF vars
  <2>2. Up' = Up /\ file' = file /\ buf' = buf /\ LateWrites' = LateWrites
    BY <1>3, NothingLate DEF vars, Up
  <2> QED BY <2>1, <2>2, SameMaps DEF StoreSame
<1> QED BY <1>1, <1>2, <1>3 DEF Next

\* A storage starts without a process, and with blank sectors.
LEMMA InitMaps == Init => Store!SInit
<1> SUFFICES ASSUME Init PROVE Store!SInit
  OBVIOUS
<1>1. LateWrites = {}
  <2>1. link # "broken"
    BY DEF Init
  <2> QED BY <2>1, NothingLate
<1> QED BY <1>1 DEF Init, Store!SInit, Store!NoOp

\* The disk client, the connection and the virtual drive implement SectorStore: each read and
\* write takes effect at one moment of its call, a call that fails had none, and nothing
\* of a dead process happens any more when the next one uses the storage.
THEOREM LinkImplementsStore == Spec => StoreSpec
<1>1. LinkInv /\ LinkInv' /\ [Next]_vars => [Store!SNext]_Store!svars
  BY StepMaps DEF LinkInv
<1> QED BY <1>1, InitMaps, LinkInvariant, PTL DEF Spec, StoreSpec, Store!SSpec
=============================================================================
