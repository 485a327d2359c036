---- MODULE MCSnapraidHub ----
(* The telemetry path of one SnapRAID agent: two jobs, two events, one fault. *)
EXTENDS SnapraidHub
====
