------------------------- MODULE MCOutboundDelivery -------------------------
(* Instances of OutboundDelivery for TLC.                                  *)
EXTENDS OutboundTruth

\* All intended recipients bounce, a bounce names nobody, one complains.
MCEvents ==
  {[class |-> "bounce",    to |-> Recipients],
   [class |-> "bounce",    to |-> {}],
   [class |-> "complaint", to |-> {}]}

\* Bounces that only together name every recipient.
MCPartialEvents ==
  {[class |-> "bounce", to |-> {r}] : r \in Recipients} \cup
  {[class |-> "bounce", to |-> {}], [class |-> "delivery", to |-> {}]}
=============================================================================
