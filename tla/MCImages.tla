------------------------------- MODULE MCImages -------------------------------
(* Requests that resolve the admission of one image while others clean up    *)
(* its reports, the policy changes and a template is made from the row: two  *)
(* instances, which share their first states.  In "reports" up to two        *)
(* requests resolve and two clean up, with two reports; in "verdicts" three  *)
(* resolve, one cleans up, and a single report is ever stored.               *)
EXTENDS ImageAdmissions, TLC

\* Images that pass, and that fail one signature check.
MCFindings == {[registry_digest |-> "requested", body_matches |-> TRUE, cosign |-> c,
                notation |-> "passed", scan |-> "passed"] : c \in {"failed", "passed"}}

\* In "reports" a policy that warns and retains a report; in "verdicts" that
\* and one that enforces and retains none, so that a request that is approved
\* need not store any.
PolicyThat(e, retained) == [enforce |-> e, cosign_required |-> e, retain |-> retained]
Warning    == PolicyThat(FALSE, {"sbom"})
MCPolicies == {Warning, PolicyThat(TRUE, {})}

Resolved == {r \in Resolvers : resolving[r] # NoResolve}
Cleaned  == {c \in Cleaners : cleaning[c] # NoCleaning}

\* "reports" and "verdicts".
TwoClean == imagePolicy = Warning /\ Cardinality(Resolved) <= 2
OneClean == Cardinality(Cleaned) <= 1 /\ written <= 1

Instances == TwoClean \/ OneClean

RequestSymmetry == Permutations(Resolvers) \cup Permutations(Cleaners)
=============================================================================
