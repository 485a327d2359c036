----------------------------- MODULE LossyChannel -----------------------------
(***************************************************************************)
(* What the link to Vigil promises to those that hand frames to it.  A     *)
(* frame may be lost and it may be late, but it comes after it was handed  *)
(* over, not after a later one and not twice, and what has come stays.     *)
(* Frames have the numbers in which they were handed over.                 *)
(***************************************************************************)
EXTENDS Naturals, Sequences

VARIABLES handed,   \* the number of frames handed over
          got       \* what has come

Init == handed = 0 /\ got = <<>>

HandOver == handed' = handed + 1 /\ UNCHANGED got

Arrive(n) ==
    /\ \A i \in DOMAIN got : got[i] < n
    /\ got' = Append(got, n)
    /\ UNCHANGED handed

Next == HandOver \/ \E n \in 1 .. handed : Arrive(n)

Spec == Init /\ [][Next]_<<handed, got>>
=============================================================================
