------------------------ MODULE LifecycleRemediation ------------------------
(* The lifecycle rules of the bucket all projects share                      *)
(* (tool_registry/image_artifact_lifecycle_remediation.py).  A request for a *)
(* project plans to add or refresh that project's managed rule, an approval  *)
(* of the plan is decided, and a run reads the whole configuration, checks   *)
(* the approval, writes the configuration back and marks the approval used.  *)
EXTENDS Naturals, FiniteSets

CONSTANTS Tenants,       \* the projects that keep reports in the bucket
          ForeignRules,  \* rules others may set: the projects each overlaps
          Remediations,  \* the approvals there may be
          RemediationRequests \* the requests that may be in progress

ASSUME ForeignRulesAreSets == \A f \in ForeignRules : f \subseteq Tenants

VARIABLES bucketRules, \* the projects with a managed rule, and the rules of others
          remediation, \* the approval rows
          remediating  \* the requests in progress

remediationVars == <<bucketRules, remediation, remediating>>

NoRules == [managed |-> {}, foreign |-> {}]
NoRemediation == [project |-> "none", type |-> "none", status |-> "none"]
NoRequest == [at |-> "idle", project |-> "none", approval |-> "none", read |-> NoRules]

RemediationInit ==
    /\ bucketRules = NoRules
    /\ remediation = [a \in Remediations |-> NoRemediation]
    /\ remediating = [r \in RemediationRequests |-> NoRequest]

\* An enabled rule of others that overlaps the project's prefix.
Overlapped(rules, p) == \E f \in rules.foreign : p \in f

\* The plan is safe when it adds the only rule or refreshes the managed one.
PlanOf(rules, p) == IF p \in rules.managed THEN "update_managed_rule" ELSE "add_rule"

RequestRemediation(a, p) ==
    /\ remediation[a] = NoRemediation
    /\ ~Overlapped(bucketRules, p)
    /\ remediation' = [remediation EXCEPT ![a] =
                         [project |-> p, type |-> PlanOf(bucketRules, p), status |-> "pending"]]
    /\ UNCHANGED <<bucketRules, remediating>>

\* A decision checks the status it read and writes whatever it is by then.
StartDecision(r, a) ==
    /\ remediating[r] = NoRequest
    /\ remediation[a].status = "pending"
    /\ remediating' = [remediating EXCEPT ![r] = [NoRequest EXCEPT !.at = "decide", !.approval = a]]
    /\ UNCHANGED <<bucketRules, remediation>>

WriteDecision(r, decision) ==
    /\ remediating[r].at = "decide"
    /\ remediation' = [remediation EXCEPT ![remediating[r].approval].status = decision]
    /\ remediating' = [remediating EXCEPT ![r] = NoRequest]
    /\ UNCHANGED bucketRules

\* A run reads the configuration; a rule of others in the way blocks it.
StartRemediation(r, p, a) ==
    /\ remediating[r] = NoRequest
    /\ ~Overlapped(bucketRules, p)
    /\ remediating' = [remediating EXCEPT ![r] = [at |-> "check", project |-> p, approval |-> a,
                                                  read |-> bucketRules]]
    /\ UNCHANGED <<bucketRules, remediation>>

\* Mutant: the approval need not have been decided.
Approves_Pending(approval, p, rules) ==
    /\ approval.status \in {"pending", "approved"}
    /\ approval.project = p
    /\ approval.type = PlanOf(rules, p)

Approves(approval, p, rules) ==
    /\ approval.status = "approved"
    /\ approval.project = p
    /\ approval.type = PlanOf(rules, p)

CheckApproval(r) ==
    LET q == remediating[r]
    IN  /\ q.at = "check"
        /\ remediating' = [remediating EXCEPT ![r] =
                             IF Approves(remediation[q.approval], q.project, q.read)
                             THEN [q EXCEPT !.at = "put"] ELSE NoRequest]
        /\ UNCHANGED <<bucketRules, remediation>>

\* Mutant: the project's rule replaces the whole configuration.
Merged_Replace(rules, p) == [managed |-> {p}, foreign |-> {}]

Merged(rules, p) == [rules EXCEPT !.managed = @ \cup {p}]

PutConfiguration(r) ==
    /\ remediating[r].at = "put"
    /\ bucketRules' = Merged(remediating[r].read, remediating[r].project)
    /\ remediating' = [remediating EXCEPT ![r].at = "mark"]
    /\ UNCHANGED remediation

MarkUsed(r) ==
    /\ remediating[r].at = "mark"
    /\ remediation' = [remediation EXCEPT ![remediating[r].approval].status = "used"]
    /\ remediating' = [remediating EXCEPT ![r] = NoRequest]
    /\ UNCHANGED bucketRules

\* The store refuses the configuration, or the process dies.
LoseRemediation(r) ==
    /\ remediating[r] # NoRequest
    /\ remediating' = [remediating EXCEPT ![r] = NoRequest]
    /\ UNCHANGED <<bucketRules, remediation>>

\* Administrators of the bucket add and remove rules of their own.
EditForeign(f) ==
    /\ bucketRules' = [bucketRules EXCEPT !.foreign = IF f \in @ THEN @ \ {f} ELSE @ \cup {f}]
    /\ UNCHANGED <<remediation, remediating>>

RemediationNext ==
    \/ \E a \in Remediations, p \in Tenants : RequestRemediation(a, p)
    \/ \E r \in RemediationRequests, a \in Remediations :
          StartDecision(r, a) \/ \E p \in Tenants : StartRemediation(r, p, a)
    \/ \E r \in RemediationRequests, d \in {"approved", "rejected"} : WriteDecision(r, d)
    \/ \E r \in RemediationRequests :
          CheckApproval(r) \/ PutConfiguration(r) \/ MarkUsed(r) \/ LoseRemediation(r)
    \/ \E f \in ForeignRules : EditForeign(f)

RemediationSpec == RemediationInit /\ [][RemediationNext]_remediationVars

\* A run that nobody overtakes between its reading and its writing preserves
\* every rule of others and of the other projects and never installs a rule
\* over one that overlaps it.
KeepsOtherRules ==
    [][\A r \in RemediationRequests :
          remediating[r].at = "put" /\ remediating'[r].at = "mark" /\ bucketRules = remediating[r].read
          => /\ bucketRules'.foreign = bucketRules.foreign
             /\ bucketRules'.managed = bucketRules.managed \cup {remediating[r].project}
             /\ ~Overlapped(bucketRules', remediating[r].project)]_remediationVars

\* A project's rule is in the bucket only if an approval of that project was
\* decided, although runs write back configurations they read before and
\* decisions overtake each other.
AppliedIsDecided ==
    \A p \in bucketRules.managed :
        \E a \in Remediations : remediation[a].project = p /\ remediation[a].status # "pending"
=============================================================================
