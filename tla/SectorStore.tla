------------------------------ MODULE SectorStore ------------------------------
(***************************************************************************)
(* What a storage_interface promises its callers, whatever is behind it:   *)
(* every read and write takes effect at one moment between its call and    *)
(* its return.  When the process that called dies, a write of it that was  *)
(* not answered happens, or not, or spoils its sector; but once the next   *)
(* process has started, nothing of the earlier one happens any more.       *)
(***************************************************************************)
CONSTANTS
    Callers,   \* threads of the process that uses the storage
    Sectors,   \* sector addresses
    Values,    \* what callers write
    Blank,     \* what a sector holds that was never written
    Torn,      \* what a sector holds whose write was cut off
    Pending    \* the effect of a call that had none yet

VARIABLES
    store,     \* the sectors
    up,        \* a process uses the storage
    op,        \* the call each thread is in
    ret,       \* what the last read of each thread returned
    late       \* the unanswered writes of the process that died

svars == <<store, up, op, ret, late>>

Contents == Values \cup {Blank, Torn}

\* The calls of read, write and shutdown
Requests == [kind : {"read"}, sector : Sectors, value : {Blank}]
       \cup [kind : {"write"}, sector : Sectors, value : Values]
       \cup {[kind |-> "shutdown", sector |-> "none", value |-> Blank]}

NoOp == [kind |-> "none", sector |-> "none", value |-> Blank, effect |-> Pending]

Call(r, e) == [kind |-> r.kind, sector |-> r.sector, value |-> r.value, effect |-> e]

\* The writes that are called and not done
Unanswered == {[sector |-> op[c].sector, value |-> op[c].value] :
                  c \in {d \in Callers : op[d].kind = "write"}}

-----------------------------------------------------------------------------
SInit == /\ store = [s \in Sectors |-> Blank]
         /\ up = FALSE
         /\ op = [c \in Callers |-> NoOp]
         /\ ret = [c \in Callers |-> Blank]
         /\ late = {}

\* A process starts when nothing of the one before it can happen any more.
Start == /\ ~up
         /\ late = {}
         /\ up' = TRUE
         /\ UNCHANGED <<store, op, ret, late>>

Invoke(c) == /\ up
             /\ op[c] = NoOp
             /\ \E r \in Requests : op' = [op EXCEPT ![c] = Call(r, Pending)]
             /\ UNCHANGED <<store, up, ret, late>>

Effect(c) == /\ op[c] # NoOp
             /\ op[c].effect = Pending
             /\ \/ /\ op[c].kind = "read"
                   /\ op' = [op EXCEPT ![c].effect = store[op[c].sector]]
                   /\ UNCHANGED store
                \/ /\ op[c].kind = "write"
                   /\ op' = [op EXCEPT ![c].effect = op[c].value]
                   /\ store' = [store EXCEPT ![op[c].sector] = op[c].value]
                \/ /\ op[c].kind = "shutdown"
                   /\ op' = [op EXCEPT ![c].effect = Blank]
                   /\ UNCHANGED store
             /\ UNCHANGED <<up, ret, late>>

Return(c) == /\ op[c].effect # Pending
             /\ op' = [op EXCEPT ![c] = NoOp]
             /\ ret' = IF op[c].kind = "read" THEN [ret EXCEPT ![c] = op[c].effect] ELSE ret
             /\ UNCHANGED <<store, up, late>>

\* A call that throws had no effect.
Fail(c) == /\ op[c] # NoOp
           /\ op[c].effect = Pending
           /\ op' = [op EXCEPT ![c] = NoOp]
           /\ UNCHANGED <<store, up, ret, late>>

\* A write that is cut off while the drive stores it
Spoil(c) == /\ op[c].kind = "write"
            /\ op[c].effect = Pending
            /\ store' = [store EXCEPT ![op[c].sector] = Torn]
            /\ UNCHANGED <<up, op, ret, late>>

\* The process that uses the storage dies.
Die == /\ up
       /\ up' = FALSE
       /\ op' = [c \in Callers |-> NoOp]
       /\ ret' = [c \in Callers |-> Blank]
       /\ late' \in SUBSET Unanswered
       /\ UNCHANGED store

\* What happens to the writes it left: one takes effect, or spoils its sector, or
\* they are forgotten.
Settle == /\ late # {}
          /\ \E w \in late, v \in {"all", "part", "none"} :
                store' = CASE v = "all" -> [store EXCEPT ![w.sector] = w.value]
                           [] v = "part" -> [store EXCEPT ![w.sector] = Torn]
                           [] v = "none" -> store
          /\ late' \in SUBSET late
          /\ UNCHANGED <<up, op, ret>>

SNext == \/ Start \/ Die \/ Settle
         \/ \E c \in Callers : Invoke(c) \/ Effect(c) \/ Return(c) \/ Fail(c) \/ Spoil(c)

SSpec == SInit /\ [][SNext]_svars
=============================================================================
