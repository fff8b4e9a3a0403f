--------------------------- MODULE AtomicRegister ---------------------------
(* What atomic_write_text promises: the file is a register.  A write takes *)
(* effect all at once or not at all, and a reader sees the value of the    *)
(* last write that did.                                                    *)
CONSTANTS Values, NoValue

VARIABLES value,  \* what the register holds
          seen    \* what was read last

Init == value = NoValue /\ seen = NoValue

Write(v) == value' = v /\ UNCHANGED seen
Observe == seen' = value /\ UNCHANGED value

Next == Observe \/ \E v \in Values : Write(v)

Spec == Init /\ [][Next]_<<value, seen>>
=============================================================================
