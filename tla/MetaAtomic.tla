----------------------------- MODULE MetaAtomic -----------------------------
(* What the metadata database promises its callers: between the call of an   *)
(* operation and its return the records change at once, as the operation     *)
(* says, or not at all.  The image data of a push may appear before the      *)
(* reference to it, and letting a key in is two operations.                  *)
EXTENDS MetaRecords

CONSTANT Clients

VARIABLES
    db,     \* the records
    late,   \* API keys the expiration date of which has passed
    call    \* call[c]: the operation in progress for client c, None if there is none

Init == /\ db \in {EmptyDB, Setup} /\ late = {}
        /\ call = [c \in Clients |-> None]

Invoke(c, o) == /\ call[c] = None /\ call' = [call EXCEPT ![c] = o]
                /\ UNCHANGED <<db, late>>

\* The operations a call consists of.
PartsOf(o) == CASE o.name = "set"  -> {"image", "set"}
                [] o.name = "auth" -> {"expired", "lastused"}
                [] OTHER           -> {o.name}

Change(c) == /\ call[c] # None
             /\ \E fx \in PartsOf(call[c]) : /\ Writes(fx, call[c], db, late)
                                             /\ db' = Apply(fx, call[c], db, late)
             /\ UNCHANGED <<late, call>>

Return(c) == /\ call[c] # None /\ call' = [call EXCEPT ![c] = None]
             /\ UNCHANGED <<db, late>>

Expire(k) == late' = late \cup {k} /\ UNCHANGED <<db, call>>

Next == \/ \E c \in Clients : Change(c) \/ Return(c)
        \/ \E c \in Clients : \E n \in OpNames : \E o \in Calls(n) : Invoke(c, o)
        \/ \E k \in Keys : Expire(k)

Spec == Init /\ [][Next]_<<db, late, call>>
=============================================================================
