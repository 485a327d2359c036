---- MODULE MCBurninJobs ----
(* Two requests for one drive, in two seconds, with one crash. *)
EXTENDS BurninJobs
====
