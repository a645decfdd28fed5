----------------------------- MODULE MCSinkPool -----------------------------
(* Channels 0 and 2 share a worker.  0 is there from the start, 1 joins    *)
(* its group, 2 opens a group of its own.                                  *)
EXTENDS SinkPool

MCOwner == [s \in Sinks |-> IF s = 2 THEN "narrow" ELSE "wide"]
=============================================================================
