---- MODULE MCZfsHub ----
(* The telemetry path of one ZFS agent: two samples, scrubs or events, one fault. *)
EXTENDS ZfsHub
====
