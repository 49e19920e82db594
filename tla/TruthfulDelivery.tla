-------------------------- MODULE TruthfulDelivery --------------------------
(***************************************************************************)
(* What the truthful outbox promises about each message, whatever happens  *)
(* to leases, passes, answers and events behind it.                        *)
(*                                                                         *)
(* said is the word the outbox gives its user about a message; fate is     *)
(* what really became of each request to the provider, which the outbox    *)
(* cannot see.  The word follows the fates one way only: a message is      *)
(* called sent when a copy was accepted, and unsent (failed, cancelled)    *)
(* when no copy was or may still be; in between it is called unknown.  A   *)
(* request is made while the message is open, and only if every request    *)
(* that may have succeeded was pardoned by the user.                       *)
(***************************************************************************)
CONSTANTS
  Messages,
  Requests      \* the requests that may be made for one message

VARIABLES said, fate, pardoned

truth == <<said, fate, pardoned>>

Words == {"absent", "open", "sent", "bounced", "failed", "unknown", "cancelled"}

Made(m) == {q \in Requests : fate[m][q] # "none"}
MayArrive(m) == {q \in Requests : fate[m][q] \in {"inflight", "accepted"}}
Arrived(m) == {q \in Requests : fate[m][q] = "accepted"}

Init ==
  \A m \in Messages :
    /\ said[m] = "absent" /\ pardoned[m] = {}
    /\ fate[m] = [q \in Requests |-> "none"]

-----------------------------------------------------------------------------
(* The provider                                                            *)

Asked(m) == said'[m] = said[m] /\ pardoned'[m] = pardoned[m]

Ask(m, q) ==
  /\ said[m] = "open" /\ fate[m][q] = "none" /\ MayArrive(m) \subseteq pardoned[m]
  /\ fate'[m] = [fate[m] EXCEPT ![q] = "inflight"] /\ Asked(m)

Decide(m, q) ==
  /\ fate[m][q] = "inflight"
  /\ \E verdict \in {"accepted", "rejected"} : fate'[m] = [fate[m] EXCEPT ![q] = verdict]
  /\ Asked(m)

-----------------------------------------------------------------------------
(* The user, and what the outbox says                                      *)

\* The word changes, nothing else does.
Say(m, word) == said'[m] = word /\ fate'[m] = fate[m] /\ pardoned'[m] = pardoned[m]

Accept(m) == said[m] = "absent" /\ Say(m, "open")

RetryFailed(m) == said[m] = "failed" /\ Say(m, "open")

RetryUnknown(m) ==
  /\ said[m] = "unknown" /\ said'[m] = "open"
  /\ pardoned'[m] = Made(m) /\ fate'[m] = fate[m]

SaySent(m) == Arrived(m) # {} /\ \E word \in {"sent", "bounced"} : Say(m, word)

SayUnsent(m) ==
  /\ said[m] = "open" /\ MayArrive(m) = {}
  /\ \E word \in {"failed", "cancelled"} : Say(m, word)

SayUnknown(m) == said[m] \in {"open", "sent", "bounced"} /\ Say(m, "unknown")

Step(m) ==
  \/ \E q \in Requests : Ask(m, q) \/ Decide(m, q)
  \/ Accept(m) \/ RetryFailed(m) \/ RetryUnknown(m)
  \/ SaySent(m) \/ SayUnsent(m) \/ SayUnknown(m)
  \/ Say(m, said[m])

\* The messages are independent, and one pass of the outbox serves several.
Next == \A m \in Messages : Step(m)

Spec == Init /\ [][Next]_truth

=============================================================================
