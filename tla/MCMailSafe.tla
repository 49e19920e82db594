----------------------------- MODULE MCMailSafe -----------------------------
(* Draft saves, imports and bulk sends in one run.  They share no state    *)
(* here, so a behaviour explores one of them, chosen at the start; imports *)
(* and bulk sends come in two sizes each.                                  *)
EXTENDS DraftSaves, ImportClaims, BulkSend, TLC

CONSTANTS s1, s2, s3, first, second, w1, w2, o1, o2

VARIABLE which

\* Two attempts of one save, and another save.
MCKeyOf == (s1 :> first) @@ (s2 :> first) @@ (s3 :> second)

mailSafeVars == <<which, draftVars, importVars, bulkVars>>

\* Two imports of one object with one failure.  Of one import of two objects
\* with two failures, the other request stays where it begins.
Imports == ImportInit /\ size = IF which = "one import" THEN 2 ELSE 1
ImportsNext ==
  /\ ImportNext
  /\ which = "two imports" => ifails' <= 1
  /\ which = "one import" => \E w \in Importers : ipc'[w] = "claim"

\* One job whose passes stop; two jobs, one of a single recipient, whose
\* passes come to their end before a cleanup falls due by itself.
Bulk ==
  /\ BulkNext
  /\ which = "one job" => Cardinality(resv' \cup {o \in Ops : adm'[o] # "none"}) <= 1
  /\ which = "two jobs" =>
       /\ fails' = 0 /\ Cardinality({o \in Ops : job'[o].total = 2}) <= 1
       /\ ~(\E i \in cleanups : FallsDue(i))

MailInit ==
  /\ which \in {"drafts", "one import", "two imports", "one job", "two jobs"}
  /\ Init /\ Imports /\ BulkInit

MailNext ==
  /\ UNCHANGED which
  /\ \/ which = "drafts" /\ Next /\ UNCHANGED <<importVars, bulkVars>>
     \/ /\ which \in {"one import", "two imports"} /\ ImportsNext
        /\ UNCHANGED <<draftVars, bulkVars>>
     \/ which \in {"one job", "two jobs"} /\ Bulk /\ UNCHANGED <<draftVars, importVars>>

MailSpec == MailInit /\ [][MailNext]_mailSafeVars

Symmetry == Permutations({w1, w2}) \cup Permutations({o1, o2})
=============================================================================
