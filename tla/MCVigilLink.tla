---- MODULE MCVigilLink ----
(* One upstream link of each kind of hub, with a queue of two frames. *)
EXTENDS VigilLink
====
