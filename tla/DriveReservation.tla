--------------------------- MODULE DriveReservation ---------------------------
(***************************************************************************)
(* What the drive locks of the burn-in agent promise: a drive is reserved  *)
(* by at most one owner, an owner reserves at most one drive, and only the *)
(* owner gives it back.  A restart of the agent gives every drive back.    *)
(***************************************************************************)
CONSTANTS Owners, Drives, NoOwner
VARIABLE owner

Init == owner = [d \in Drives |-> NoOwner]

Reserve(o, d) ==
    /\ owner[d] = NoOwner
    /\ \A e \in Drives : owner[e] # o
    /\ owner' = [owner EXCEPT ![d] = o]

Return(o, d) ==
    /\ owner[d] = o
    /\ owner' = [owner EXCEPT ![d] = NoOwner]

Restart == owner' = [d \in Drives |-> NoOwner]

Next ==
    \/ \E o \in Owners, d \in Drives : Reserve(o, d) \/ Return(o, d)
    \/ Restart

Spec == Init /\ [][Next]_owner
=============================================================================
