------------------------ MODULE MCOutboundProjection ------------------------
(* OutboundProjection on a small instance.                                 *)
EXTENDS OutboundProjection

\* Bound: only the recoveries of the first version fail.
FirstVersionFails == \A v \in Versions \ {1} : tries[v] = 0 /\ ctries[v] = 0

\* Bound: the user trashes and discards only the snapshot of the first version,
\* and moves any other only between the Outbox and Sent.
FirstVersionIsFiled == \A v \in Versions \ {1} : folder[v] \notin {"trash", "other", "gone"}
=============================================================================
