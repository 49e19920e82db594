--------------------------- MODULE MCServicesSafe ---------------------------
(* Credential recovery, push notifications and the ledger of artificial    *)
(* intelligence in one run.  They share no state, so a behaviour explores  *)
(* one of them, chosen at the start, while the others stay in an initial   *)
(* state.                                                                  *)
EXTENDS CredentialRecovery, PushOutbox, AiUsage, TLC

\* The drains and submitters of CredentialRecovery serve all, which keeps the
\* symmetry group small.
CONSTANTS a1, a2

VARIABLE which

vars == <<which, pushVars, recoveryVars, aiVars>>

ServicesInit ==
  /\ which \in {"two devices", "one device", "leased", "administered", "usage"}
  /\ PushInit /\ Init /\ UsageInit

\* Two registrations of any devices, or more of one at a time.
Push ==
  /\ PushNext /\ UNCHANGED <<recoveryVars, aiVars>>
  /\ \/ which = "two devices" /\ regs' <= 2
     \/ which = "one device" /\ \E d \in Devices : reg'[d] = NoReg

\* Three leases, or two and an act of an administrator.
Links ==
  /\ Next /\ UNCHANGED <<pushVars, aiVars>>
  /\ \/ which = "leased" /\ ~ReplaceCredentials /\ ~Deactivate
     \/ which = "administered" /\ leases' < MaxLeases

ServicesNext ==
  /\ UNCHANGED which
  /\ \/ which \in {"two devices", "one device"} /\ Push
     \/ which \in {"leased", "administered"} /\ Links
     \/ which = "usage" /\ UsageNext /\ UNCHANGED <<pushVars, recoveryVars>>

ServicesSpec == ServicesInit /\ [][ServicesNext]_vars

Symmetry == Permutations({a1, a2}) \cup Permutations(Submitters) \cup Permutations(Jobs)

\* A judged registration is removed, never its replacement (PushOutbox); a link
\* is only sent while it is good, and what the provider accepted stays accepted
\* (CredentialRecovery).
JudgedAndSentAsDue ==
  [][DropsAsJudged /\ SendsWhileGood /\ StaysAccepted]_vars
=============================================================================
