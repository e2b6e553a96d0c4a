--------------------------- MODULE ImageAdmissions ---------------------------
(* The admission of one shell image of a project (tool_registry/             *)
(* image_supply_chain.py, image_evidence.py), the reports kept for it in the *)
(* object store (image_artifacts.py), their cleanup after their retention    *)
(* (image_artifact_cleanup.py), and the shell template that runs the image   *)
(* (execution/shell_policy.py).  Requests interleave at every await.         *)
EXTENDS Naturals, Sequences, FiniteSets

CONSTANTS Resolvers,    \* the admission requests, each of which runs once
          Cleaners,     \* the cleanup requests that may be in progress
          Images,       \* what the registry and the tools may say of the image
          ImagePolicies,\* the admission policies the project may set
          MaxArtifacts  \* bound: how many reports are ever stored

Reports == {"sbom", "vulnerabilities"}
Checks  == {"not_checked", "passed", "failed"}
Digests == {"requested", "x", "y"}    \* what the registry may say the digest is
Scans   == {"none", "passed", "failed", "unavailable"}

\* The policy row: whether it enforces, whether it asks for a signature, and
\* the reports it retains.
ImagePolicy == [enforce : BOOLEAN, cosign_required : BOOLEAN, retain : SUBSET Reports]

ASSUME ImagesAreFindings ==
    \A i \in Images : /\ i.registry_digest \in Digests /\ i.body_matches \in BOOLEAN
                      /\ i.cosign \in Checks /\ i.notation \in Checks /\ i.scan \in Scans
ASSUME ImagePoliciesArePolicies == ImagePolicies \subseteq ImagePolicy

VARIABLES imagePolicy, \* the policy row
          admission,   \* the admission row
          objects,     \* the reports in the object store
          written,     \* how many have been written
          expired,     \* those whose retention is over
          resolving,   \* the admission requests
          cleaning,    \* the cleanup requests
          template,    \* the shell template
          swept,       \* history: the reports the bucket's own rules removed
          verdicts     \* history: what the requests recorded, each its own

imageVars == <<imagePolicy, admission, objects, written, expired, resolving, cleaning, template, swept, verdicts>>

Artifacts == 1 .. MaxArtifacts
NoReport  == [artifact |-> 0, cleanup |-> "pending"]
NoEvidence == [k \in Reports |-> NoReport]
NoAdmission == [decision |-> "none", registry_digest |-> "x", digest_match |-> FALSE,
                signature |-> "not_checked", sbom |-> "not_checked", vulnerabilities |-> "not_checked", evidence |-> NoEvidence]
NoResolve == [at |-> "idle", policy |-> CHOOSE p \in ImagePolicies : TRUE, found |-> NoAdmission,
              copy |-> NoAdmission]
NoCleaning == [at |-> "idle", evidence |-> NoEvidence, todo |-> <<>>, copy |-> NoEvidence]
DoneResolve == [NoResolve EXCEPT !.at = "done"]

\* What the row says was found.
VerdictOf(row) == [decision |-> row.decision, registry_digest |-> row.registry_digest,
                   digest_match |-> row.digest_match, signature |-> row.signature,
                   sbom |-> row.sbom, vulnerabilities |-> row.vulnerabilities]

NoTemplate == [stored |-> FALSE, risky |-> FALSE,
               row |-> [VerdictOf(NoAdmission) EXCEPT !.decision = "not_required"]]

ImageInit ==
    /\ imagePolicy \in ImagePolicies
    /\ admission = NoAdmission
    /\ objects = {} /\ written = 0 /\ expired = {}
    /\ resolving = [r \in Resolvers |-> NoResolve]
    /\ cleaning = [c \in Cleaners |-> NoCleaning]
    /\ template = NoTemplate
    /\ swept = {} /\ verdicts = {}

SetImagePolicy(p) ==
    /\ p # imagePolicy /\ imagePolicy' = p
    /\ UNCHANGED <<admission, objects, written, expired, resolving, cleaning, template, swept, verdicts>>

(***************************************************************************)
(* Resolving the admission.                                                *)
(***************************************************************************)
MergeStatus(a, b) ==
    CASE "failed" \in {a, b} -> "failed"
      [] "passed" \in {a, b} -> "passed"
      [] OTHER               -> "not_checked"

\* What the providers find together: a failed one rejects.
SbomOf(scan) == CASE scan = "none" -> "not_checked" [] scan = "unavailable" -> "failed" [] OTHER -> "passed"
VulnerabilitiesOf(scan) ==
    CASE scan = "none" -> "not_checked" [] scan = "passed" -> "passed" [] OTHER -> "failed"

DigestMatches(i) == i.body_matches /\ i.registry_digest = "requested"

Rejects(i) == \/ "failed" \in {i.cosign, i.notation}
              \/ i.scan \in {"failed", "unavailable"}

\* apply_shell_image_admission_policy.
Decide(policy, rejected, signature) ==
    IF ~rejected /\ (policy.cosign_required => signature = "passed") THEN "approved"
    ELSE IF policy.enforce THEN "rejected" ELSE "would_reject"

StartResolve(r) ==
    /\ resolving[r] = NoResolve
    /\ resolving' = [resolving EXCEPT ![r].at = "collect", ![r].policy = imagePolicy]
    /\ UNCHANGED <<imagePolicy, admission, objects, written, expired, cleaning, template, swept, verdicts>>

\* The digest is compared, and when it matches the providers run.  The scan
\* stores the reports the policy retains; when storing one fails those
\* retained count as failed, and what was stored before stays.
CollectReports(r, i, stored) ==
    LET policy == resolving[r].policy
        scans  == DigestMatches(i) /\ i.scan \in {"passed", "failed"}
        wanted == IF scans THEN policy.retain ELSE {}
        kept   == stored = wanted
        number(k) == written + Cardinality({x \in stored : x = "sbom" /\ k = "vulnerabilities"}) + 1
        failed(k) == ~kept /\ k \in wanted
        signature == MergeStatus(i.cosign, i.notation)
    IN  /\ resolving[r].at = "collect"
        /\ stored \subseteq wanted
        /\ stored = {"vulnerabilities"} => "sbom" \notin wanted
        /\ written + Cardinality(stored) <= MaxArtifacts
        /\ resolving' = [resolving EXCEPT ![r].at = "select", ![r].policy = NoResolve.policy, ![r].found =
             IF ~DigestMatches(i)
             THEN [NoAdmission EXCEPT !.decision = Decide(policy, TRUE, "not_checked"),
                                      !.registry_digest = i.registry_digest]
             ELSE [decision |-> Decide(policy, Rejects(i) \/ ~kept, signature),
                   registry_digest |-> i.registry_digest, digest_match |-> TRUE, signature |-> signature,
                   sbom |-> IF failed("sbom") THEN "failed" ELSE SbomOf(i.scan),
                   vulnerabilities |-> IF failed("vulnerabilities") THEN "failed" ELSE VulnerabilitiesOf(i.scan),
                   evidence |-> [k \in Reports |-> IF kept /\ k \in stored
                                                   THEN [artifact |-> number(k), cleanup |-> "pending"]
                                                   ELSE NoReport]]]
        /\ objects' = objects \cup {number(k) : k \in stored}
        /\ written' = written + Cardinality(stored)
        /\ UNCHANGED <<imagePolicy, admission, expired, cleaning, template, swept, verdicts>>

\* record_shell_image_admission: the row is read, its columns are set, and the
\* commit writes those that differ from what was read, whatever has been
\* committed since.
SelectAdmission(r) ==
    /\ resolving[r].at = "select"
    /\ resolving' = [resolving EXCEPT ![r].at = "commit", ![r].copy = admission]
    /\ UNCHANGED <<imagePolicy, admission, objects, written, expired, cleaning, template, swept, verdicts>>

Flushed(new, read, row) == IF new = read THEN row ELSE new

\* Evidence holds more than its reports: that which agrees on them may differ
\* still, and is written.
FlushedEvidence(new, read, row, rewritten) == IF rewritten THEN new ELSE Flushed(new, read, row)

\* A second row of the image is refused by its unique constraint.
CommitAdmission(r, rewritten) ==
    LET new  == resolving[r].found
        read == resolving[r].copy
        column(f) == Flushed(new[f], read[f], admission[f])
    IN  /\ resolving[r].at = "commit"
        /\ read = NoAdmission => admission = NoAdmission
        /\ admission' = [decision |-> column("decision"), registry_digest |-> column("registry_digest"),
                          digest_match |-> column("digest_match"), signature |-> column("signature"),
                          sbom |-> column("sbom"), vulnerabilities |-> column("vulnerabilities"),
                          evidence |-> FlushedEvidence(new.evidence, read.evidence, admission.evidence, rewritten)]
        /\ verdicts' = verdicts \cup {VerdictOf(new)}
        /\ resolving' = [resolving EXCEPT ![r] = DoneResolve]
        /\ UNCHANGED <<imagePolicy, objects, written, expired, cleaning, template, swept>>

\* A tool times out or the process dies: what is stored stays.
LoseResolve(r) ==
    /\ resolving[r].at \notin {"idle", "done"}
    /\ resolving' = [resolving EXCEPT ![r] = DoneResolve]
    /\ UNCHANGED <<imagePolicy, admission, objects, written, expired, cleaning, template, swept, verdicts>>

(***************************************************************************)
(* Retention and cleanup.                                                  *)
(***************************************************************************)
Expires(a) == /\ a \in (1 .. written) \ expired
              /\ expired' = expired \cup {a}
              /\ UNCHANGED <<imagePolicy, admission, objects, written, resolving, cleaning, template, swept, verdicts>>

\* Mutant: reports whose retention is not over are cleaned up too.
RetentionOver_All(row) == row.artifact # 0 /\ row.cleanup # "deleted"

RetentionOver(row) == row.artifact \in expired /\ row.cleanup # "deleted"

\* The reports to clean up, in the order of the evidence.
Candidates(evidence) ==
    LET todo(k) == IF RetentionOver(evidence[k]) THEN <<k>> ELSE <<>>
    IN  todo("sbom") \o todo("vulnerabilities")

\* The evidence and the candidates are those of this moment.
StartCleanup(c) ==
    /\ cleaning[c] = NoCleaning
    /\ Candidates(admission.evidence) # <<>>
    /\ cleaning' = [cleaning EXCEPT ![c] = [NoCleaning EXCEPT !.at = "delete", !.evidence = admission.evidence,
                                            !.todo = Candidates(admission.evidence)]]
    /\ UNCHANGED <<imagePolicy, admission, objects, written, expired, resolving, template, swept, verdicts>>

\* Mutant: a report is marked as deleted before the store has answered.
CleanupOutcome_Early(c, ok) ==
    cleaning' = [cleaning EXCEPT ![c].at = "update", ![c].evidence[Head(cleaning[c].todo)].cleanup = "deleted"]

CleanupOutcome(c, ok) ==
    cleaning' = [cleaning EXCEPT ![c].at = "update",
                   ![c].evidence[Head(cleaning[c].todo)].cleanup = IF ok THEN "deleted" ELSE "delete_failed"]

\* The object is looked up, compared with the descriptor and deleted; a
\* missing object, an error and a mismatch are failures.
DeleteReport(c, ok) ==
    LET a == cleaning[c].evidence[Head(cleaning[c].todo)].artifact
    IN  /\ cleaning[c].at = "delete"
        /\ ok => a \in objects
        /\ objects' = IF ok THEN objects \ {a} ELSE objects
        /\ CleanupOutcome(c, ok)
        /\ UNCHANGED <<imagePolicy, admission, written, expired, resolving, template, swept, verdicts>>

\* update_shell_image_admission_evidence: the row is read, its evidence is
\* replaced by the copy of this request and written when the two differ.
SelectEvidence(c) ==
    /\ cleaning[c].at = "update"
    /\ cleaning' = [cleaning EXCEPT ![c].at = "commit", ![c].copy = admission.evidence]
    /\ UNCHANGED <<imagePolicy, admission, objects, written, expired, resolving, template, swept, verdicts>>

CommitEvidence(c, rewritten) ==
    LET rest == Tail(cleaning[c].todo)
    IN  /\ cleaning[c].at = "commit"
        /\ admission' = [admission EXCEPT !.evidence =
              FlushedEvidence(cleaning[c].evidence, cleaning[c].copy, @, rewritten)]
        /\ cleaning' = [cleaning EXCEPT ![c] = IF rest = <<>> THEN NoCleaning
                           ELSE [cleaning[c] EXCEPT !.at = "delete", !.todo = rest, !.copy = NoEvidence]]
        /\ UNCHANGED <<imagePolicy, objects, written, expired, resolving, template, swept, verdicts>>

LoseCleanup(c) ==
    /\ cleaning[c] # NoCleaning
    /\ cleaning' = [cleaning EXCEPT ![c] = NoCleaning]
    /\ UNCHANGED <<imagePolicy, admission, objects, written, expired, resolving, template, swept, verdicts>>

\* A lifecycle rule of the bucket removes a report, whatever its retention:
\* the managed rule says 30 days, those of others what they please.
BucketExpires(a) == /\ a \in objects
                    /\ objects' = objects \ {a} /\ swept' = swept \cup {a}
                    /\ UNCHANGED <<imagePolicy, admission, written, expired, resolving, cleaning, template, verdicts>>

(***************************************************************************)
(* The shell template.                                                     *)
(***************************************************************************)
AcceptedDecisions(p) == IF p.enforce THEN {"approved"} ELSE {"approved", "would_reject"}

SameDigest(row) == row.registry_digest = "requested"

\* A template for production or of high risk needs an accepted admission; any
\* other needs one unless its image is on the built-in list.
CreateTemplate(risky, listed) ==
    LET accepted == admission.decision \in AcceptedDecisions(imagePolicy)
    IN  /\ ~template.stored
        /\ risky => accepted
        /\ listed \/ (accepted /\ SameDigest(admission))
        /\ template' = IF accepted
                       THEN [stored |-> TRUE, risky |-> risky, row |-> VerdictOf(admission)]
                       ELSE [NoTemplate EXCEPT !.stored = TRUE]
        /\ UNCHANGED <<imagePolicy, admission, objects, written, expired, resolving, cleaning, swept, verdicts>>

\* Mutant: what was accepted when the template was made is accepted at runtime.
RuntimeBlocked_AsMade == /\ template.risky
                         /\ imagePolicy.enforce
                         /\ ~(template.row.decision # "not_required" /\ SameDigest(template.row))

\* evaluate_shell_image_runtime_posture: a run is blocked.
RuntimeBlocked == /\ template.risky
                  /\ imagePolicy.enforce
                  /\ ~(template.row.decision = "approved" /\ SameDigest(template.row))

ImageNext ==
    \/ \E p \in ImagePolicies : SetImagePolicy(p)
    \/ \E r \in Resolvers : StartResolve(r) \/ SelectAdmission(r) \/ LoseResolve(r)
    \/ \E r \in Resolvers, i \in Images, stored \in SUBSET Reports : CollectReports(r, i, stored)
    \/ \E r \in Resolvers, rewritten \in BOOLEAN : CommitAdmission(r, rewritten)
    \/ \E a \in Artifacts : Expires(a) \/ BucketExpires(a)
    \/ \E c \in Cleaners : StartCleanup(c) \/ SelectEvidence(c) \/ LoseCleanup(c)
    \/ \E c \in Cleaners, ok \in BOOLEAN : DeleteReport(c, ok) \/ CommitEvidence(c, ok)
    \/ \E risky, listed \in BOOLEAN : CreateTemplate(risky, listed)

ImageSpec == ImageInit /\ [][ImageNext]_imageVars

(***************************************************************************)
(* Properties.                                                             *)
(***************************************************************************)
\* Evidence that says a report was deleted tells the truth, although every
\* cleanup writes back a copy of the whole evidence it read at its start.
DeletedIsGone == \A k \in Reports : admission.evidence[k].cleanup = "deleted"
                                      => admission.evidence[k].artifact \notin objects

\* Every report that was stored is still there until its retention is over,
\* whatever copies of the evidence the cleanups work from: the only ones that
\* leave before are those a rule of the bucket removed.
KeptUntilExpiry == (1 .. written) \ objects \subseteq expired \cup swept

\* Under enforcement a template of high risk runs only what some request
\* approved, whatever the policy was when the template was made and however
\* admissions were repeated.  The registry confirmed its digest and no check of
\* it failed, unless overlapping requests had each written some columns of the
\* row and left a verdict that none of them found.
EnforcedIsClean ==
    template.stored /\ template.risky /\ imagePolicy.enforce /\ ~RuntimeBlocked
    => /\ \E v \in verdicts : v.decision = "approved"
       /\ template.row \in verdicts
          => /\ template.row.digest_match
             /\ "failed" \notin {template.row.signature, template.row.sbom, template.row.vulnerabilities}
=============================================================================
