---------------------------- MODULE MCSnapraidAgent ----------------------------
(* Instances of SnapraidAgent for TLC. *)
EXTENDS SnapraidAgent

CONSTANTS f1, f2

(* Within all limits; too many deletions; deletions that additions excuse, *)
(* with too many updates beside.                                           *)
SomeReports == {
    NoChanges,
    [added |-> 0, removed |-> 2, updated |-> 0],
    [added |-> 4, removed |-> 2, updated |-> 2]}

(* One firing of the maintenance schedule, one of the other two.           *)
SomeSchedules ==
    [x \in Firings |-> IF x = f1 THEN {"maintenance"} ELSE {"scrub_only", "status_refresh"}]
=============================================================================
