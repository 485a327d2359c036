--------------------------- MODULE MCZfsReplication ---------------------------
(* Instances of ZfsReplication for TLC. *)
EXTENDS ZfsReplication

CONSTANTS hourly, verify, mirror, offsite, auto, repl

(* A snapshot task, a scrub, a local and a remote replication, the last    *)
(* two of which have the default prefix.                                   *)
Kinds ==
    [t \in Tasks |-> CASE t = hourly -> "snapshot"
                       [] t = verify -> "scrub"
                       [] OTHER -> "replication"]
DefaultPrefixes == [t \in Tasks |-> IF t \in {mirror, offsite} THEN repl ELSE auto]
NoOverlap == {<<auto, auto>>, <<repl, repl>>}
KeepOne == [t \in Tasks |-> 1]
=============================================================================
