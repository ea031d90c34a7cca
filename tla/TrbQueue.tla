------------------------------ MODULE TrbQueue ------------------------------
(***************************************************************************)
(* What every xHCI ring promises, whatever its direction: the consumer     *)
(* takes the TRBs one at a time, each exactly once, in the order in which  *)
(* the producer posted them.  TRBs are numbered from 1, so the contents of *)
(* the queue are the numbers taken+1 .. posted.                            *)
(***************************************************************************)
EXTENDS Naturals

VARIABLES
    posted,  \* number of the last TRB the producer made visible
    taken    \* number of the last TRB the consumer took

vars == <<posted, taken>>

Init == posted = 0 /\ taken = 0

Post == posted' = posted + 1 /\ UNCHANGED taken

Take == taken < posted /\ taken' = taken + 1 /\ UNCHANGED posted

Next == Post \/ Take

Spec == Init /\ [][Next]_vars

=============================================================================
