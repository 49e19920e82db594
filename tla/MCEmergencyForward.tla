------------------------- MODULE MCEmergencyForward -------------------------
(* Instances of EmergencyForward for TLC.                                  *)
EXTENDS EmergencyForward, TLC

\* The consumers of the two lanes run the same code.
Symmetry == Permutations(Consumers)

\* From the start nothing fails and the mailbox leaves the message alone: the
\* forward is on its own.
QuietSpec == Init /\ [][Next /\ UNCHANGED <<world, fails>>]_vars /\ Fairness
=============================================================================
