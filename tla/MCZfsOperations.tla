---- MODULE MCZfsOperations ----
(* One pool with one dataset, two write requests, two snapshot names. *)
EXTENDS ZfsOperations
====
