---------------------------- MODULE OutboundTruth ----------------------------
(* The delivery ledger of OutboundDelivery read as the promise of          *)
(* TruthfulDelivery, the attempts of a delivery as its requests.           *)
EXTENDS OutboundDelivery

\* Whatever is queued, retried or in dispatch is open to the user.
Word(status) == IF status \in {"queued", "retrying", "sending"} THEN "open" ELSE status

Truth == INSTANCE TruthfulDelivery WITH
  Messages <- Deliveries,
  Requests <- Attempts,
  said <- [d \in Deliveries |-> Word(dlv[d].status)],
  fate <- ses,
  pardoned <- [d \in Deliveries |-> 1..acked[d]]

\* The outbox keeps its promise: whatever leases, crashes, late answers and
\* events in any order do to the ledger, a delivery is never called sent
\* without a copy or unsent in spite of one, a cancelled one stays cancelled,
\* and an unknown one is sent again only with the user's acknowledgement.
DeliveriesAreTruthful == Truth!Spec
\* Of the copies of one message that SES accepted or may still accept, at most
\* one was sent without the user's agreement to the risk of a duplicate.
OneSilentCopy ==
  \A d \in Deliveries : \A m, n \in Attempts :
    Exposed(d, m) /\ Exposed(d, n) /\ m > acked[d] /\ n > acked[d] => m = n

=============================================================================
