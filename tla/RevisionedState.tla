--------------------------- MODULE RevisionedState ---------------------------
(* What revisioned streams promise: the value of a stream never changes     *)
(* without its revision, and a revision is used once, in order.             *)
EXTENDS Naturals
CONSTANT Streams
VARIABLES revision, value

Init == revision = [s \in Streams |-> 0]
Write ==
    \A s \in Streams :
        revision'[s] = revision[s] + 1 \/ (revision'[s] = revision[s] /\ value'[s] = value[s])
Spec == Init /\ [][Write]_<<revision, value>>
=============================================================================
