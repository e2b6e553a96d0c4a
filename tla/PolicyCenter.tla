---------------------------- MODULE PolicyCenter ----------------------------
(* The approval policies of a project (policy_center/): drafts are           *)
(* validated, published and rolled back by requests whose transactions       *)
(* interleave, and the runtime evaluates each tool, shell and model call     *)
(* against the policy in force (policy_center/runtime.py).                   *)
(*                                                                           *)
(* One policy_ref of one project.  A transaction runs at READ COMMITTED: a   *)
(* statement sees what is committed when it starts, an UPDATE waits for the  *)
(* rows another transaction has written and then reads them again, and what  *)
(* a transaction writes is visible to the others when it commits.            *)
EXTENDS Naturals, Sequences, FiniteSets, FiniteSetsExt

CONSTANTS PolicySessions,    \* the requests that may be in progress together
          PolicyRules,       \* the rule lists a request may submit
          Surfaces,          \* the risk surfaces of the project
          RuntimeCalls,      \* the calls the runtime may ask about
          MaxPolicyVersion   \* bound: how many versions are ever created

TargetKinds == {"tool_invocation", "shell_execution", "model_invocation"}
RiskLevels  == {"low", "medium", "high", "critical"}
RuleActions == {"allow", "require_approval", "deny"}
HighRisk    == {"high", "critical"}

\* What a rule may match on; a rule that names nothing on a dimension
\* matches everything there.
Dimensions == {"tool_groups", "tools", "templates", "models", "environments"}

ASSUME SurfacesHaveRisks == \A x \in Surfaces : x.risk \in RiskLevels
ASSUME RulesAreRules ==
    \A rules \in PolicyRules : \A i \in DOMAIN rules :
        /\ rules[i].kind \in TargetKinds
        /\ rules[i].risks \subseteq RiskLevels /\ rules[i].risks # {}
        /\ rules[i].action \in RuleActions
        /\ DOMAIN rules[i].match = Dimensions

VARIABLES policies,   \* the committed rows, in the order of their version
          txn         \* the request each session is executing

policyVars == <<policies, txn>>

\* A row: its status, its rules, the version it restores, what its last
\* validation said and the surfaces it was shown to affect.
PolicyVersion(status, rules, source, checked, impact) ==
    [status |-> status, rules |-> rules, source |-> source, checked |-> checked, impact |-> impact]

\* A request: its step, the row it loaded, the number its new row will have,
\* the rows its UPDATE selected and the rows it has written and holds.
IdleTxn == [op |-> "none", at |-> "idle", target |-> 0, rules |-> <<>>,
            number |-> 0, seen |-> {}, held |-> {}]

\* The policy of record: load_published_approval_policy.
PublishedPolicies(vs) == {v \in DOMAIN vs : vs[v].status = "published"}
InForce(vs) == IF PublishedPolicies(vs) = {} THEN 0 ELSE Max(PublishedPolicies(vs))
NextPolicyVersion(vs) == Len(vs) + 1

(***************************************************************************)
(* Validation.                                                             *)
(***************************************************************************)
\* The same kind, the same match and a risk level in common.
SameTarget(r, s) == /\ r.kind = s.kind
                    /\ r.match = s.match
                    /\ r.risks \cap s.risks # {}

ValidPolicy(rules) ==
    /\ \A i, j \in DOMAIN rules : i # j => rules[i].id # rules[j].id
    /\ \A i \in DOMAIN rules : ~(rules[i].action = "allow" /\ HighRisk \cap rules[i].risks # {})
    /\ \A i, j \in DOMAIN rules : SameTarget(rules[i], rules[j]) => rules[i].action = rules[j].action

KindOfSurface(kind) ==
    CASE kind = "tool_invocation"  -> {"tool_group", "tool_group_item"}
      [] kind = "shell_execution"  -> {"shell_image_policy", "shell_template"}
      [] kind = "model_invocation" -> {"model_policy"}

\* A surface names an environment and one policy_ref, compared with each of
\* the groups, models and templates a rule names.
Touches(rule, x) ==
    /\ x.risk \in rule.risks
    /\ x.kind \in KindOfSurface(rule.kind)
    /\ rule.match["environments"] # {} => x.environment \in rule.match["environments"]
    /\ \A d \in {"tool_groups", "models", "templates"} :
          rule.match[d] # {} => x.ref \in rule.match[d]
    /\ rule.match["tools"] # {} => rule.match["tools"] \cap x.tools # {}

ImpactOf(rules) == {x \in Surfaces : \E i \in DOMAIN rules : Touches(rules[i], x)}
CheckedPolicy(rules) == IF ValidPolicy(rules) THEN "valid" ELSE "invalid"

(***************************************************************************)
(* The requests.                                                           *)
(***************************************************************************)
PolicyInit == /\ policies = <<>>
              /\ txn = [s \in PolicySessions |-> IdleTxn]

\* Within the bound, counting what is being inserted.
Inserting  == {s \in PolicySessions : txn[s].op \in {"create", "rollback"}}
PolicyRoom == Len(policies) + Cardinality(Inserting) < MaxPolicyVersion

BeginTxn(s, t) == txn[s] = IdleTxn /\ txn' = [txn EXCEPT ![s] = t]
EndTxn(s)      == txn' = [txn EXCEPT ![s] = IdleTxn]

\* The draft gets the number after the highest one it reads.
CreateDraft(s, rules) ==
    /\ PolicyRoom
    /\ BeginTxn(s, [IdleTxn EXCEPT !.op = "create", !.at = "create", !.rules = rules,
                                   !.number = NextPolicyVersion(policies)])
    /\ UNCHANGED policies

\* The unique constraint refuses a number another request has taken.
InsertDraft(s) ==
    /\ txn[s].at = "create"
    /\ policies' = IF txn[s].number = NextPolicyVersion(policies)
                   THEN Append(policies, PolicyVersion("draft", txn[s].rules, 0, "none", {}))
                   ELSE policies
    /\ EndTxn(s)

ValidateDraft(v) ==
    /\ policies[v].status = "draft"
    /\ policies' = [policies EXCEPT ![v].checked = CheckedPolicy(policies[v].rules),
                                    ![v].impact  = ImpactOf(policies[v].rules)]
    /\ UNCHANGED txn

\* An invalid draft is marked, committed and refused.
RefusePublish(v) ==
    /\ policies[v].status = "draft"
    /\ ~ValidPolicy(policies[v].rules)
    /\ ValidateDraft(v)

LoadDraft(s, v) ==
    /\ policies[v].status = "draft"
    /\ ValidPolicy(policies[v].rules)
    /\ BeginTxn(s, [IdleTxn EXCEPT !.op = "publish", !.at = "supersede", !.target = v,
                                   !.rules = policies[v].rules])
    /\ UNCHANGED policies

LoadTarget(s, v) ==
    /\ PolicyRoom
    /\ policies[v].status \in {"published", "superseded"}
    /\ ValidPolicy(policies[v].rules)
    /\ BeginTxn(s, [IdleTxn EXCEPT !.op = "rollback", !.at = "supersede", !.target = v,
                                   !.rules = policies[v].rules])
    /\ UNCHANGED policies

\* UPDATE ... WHERE status = 'published': the rows it will write are those
\* published when it starts.
SupersedeSelect(s) ==
    /\ txn[s].at = "supersede"
    /\ txn' = [txn EXCEPT ![s].at = "apply", ![s].seen = PublishedPolicies(policies)]
    /\ UNCHANGED policies

\* It waits for the rows others hold, and leaves those no longer published.
HeldByOthers(s) == UNION {txn[t].held : t \in PolicySessions \ {s}}

SupersedeApply(s) ==
    /\ txn[s].at = "apply"
    /\ txn[s].seen \cap HeldByOthers(s) = {}
    /\ txn' = [txn EXCEPT ![s].held = txn[s].seen \cap PublishedPolicies(policies),
                          ![s].at = IF txn[s].op = "publish" THEN "commit" ELSE "number"]
    /\ UNCHANGED policies

NumberRollback(s) ==
    /\ txn[s].at = "number"
    /\ txn' = [txn EXCEPT ![s].at = "commit", ![s].number = NextPolicyVersion(policies)]
    /\ UNCHANGED policies

\* What the transaction superseded.
SupersededPolicies(vs, held) ==
    [v \in DOMAIN vs |-> IF v \in held THEN [vs[v] EXCEPT !.status = "superseded"] ELSE vs[v]]

CommitPublish(s) ==
    /\ txn[s].at = "commit" /\ txn[s].op = "publish"
    /\ txn[s].target \notin HeldByOthers(s)
    /\ policies' = [SupersededPolicies(policies, txn[s].held) EXCEPT
                      ![txn[s].target].status  = "published",
                      ![txn[s].target].checked = "valid",
                      ![txn[s].target].impact  = ImpactOf(txn[s].rules)]
    /\ EndTxn(s)

\* Mutant: a refused insert leaves what the transaction superseded.
CommitRollback_Partial(s) ==
    LET restored == PolicyVersion("published", txn[s].rules, txn[s].target, "valid", ImpactOf(txn[s].rules))
        done == SupersededPolicies(policies, txn[s].held)
    IN  /\ txn[s].at = "commit" /\ txn[s].op = "rollback"
        /\ policies' = IF txn[s].number = NextPolicyVersion(policies) THEN Append(done, restored) ELSE done
        /\ EndTxn(s)

\* A number already taken refuses the whole transaction.
CommitRollback(s) ==
    LET restored == PolicyVersion("published", txn[s].rules, txn[s].target, "valid", ImpactOf(txn[s].rules))
    IN  /\ txn[s].at = "commit" /\ txn[s].op = "rollback"
        /\ policies' = IF txn[s].number = NextPolicyVersion(policies)
                       THEN Append(SupersededPolicies(policies, txn[s].held), restored)
                       ELSE policies
        /\ EndTxn(s)

\* The request or its process dies: the transaction is rolled back.
LoseTxn(s) == /\ txn[s] # IdleTxn
              /\ EndTxn(s) /\ UNCHANGED policies

(***************************************************************************)
(* The runtime.                                                            *)
(***************************************************************************)
RuleMatches(rule, call) ==
    /\ rule.kind = call.kind
    /\ call.risk \in rule.risks
    /\ \A d \in Dimensions : rule.match[d] # {} => rule.match[d] \cap call.refs[d] # {}

FromRule(rule, call) ==
    CASE rule.action = "deny"             -> "denied"
      [] rule.action = "require_approval" -> "approval_required"
      [] call.risk \in HighRisk           -> "approval_required"
      [] OTHER                            -> "allowed"

\* Mutant: only the resource's own flag asks for an approval.
DefaultDecision_NoFloor(call) == IF call.flagged THEN "approval_required" ELSE "allowed"

DefaultDecision(call) == IF call.flagged \/ call.risk \in HighRisk THEN "approval_required" ELSE "allowed"

\* The first rule that matches decides.
DecideByRules(rules, call) ==
    LET matching == {i \in DOMAIN rules : RuleMatches(rules[i], call)}
    IN  IF matching = {} THEN DefaultDecision(call) ELSE FromRule(rules[Min(matching)], call)

RulesInForce == IF InForce(policies) = 0 THEN <<>> ELSE policies[InForce(policies)].rules

EvaluatePolicy(call) == DecideByRules(RulesInForce, call)

PolicyNext ==
    \/ \E s \in PolicySessions, rules \in PolicyRules : CreateDraft(s, rules)
    \/ \E v \in DOMAIN policies : ValidateDraft(v) \/ RefusePublish(v)
    \/ \E s \in PolicySessions, v \in DOMAIN policies : LoadDraft(s, v) \/ LoadTarget(s, v)
    \/ \E s \in PolicySessions :
          \/ InsertDraft(s)    \/ SupersedeSelect(s) \/ SupersedeApply(s)
          \/ NumberRollback(s) \/ CommitPublish(s)   \/ CommitRollback(s)
          \/ LoseTxn(s)

PolicySpec == PolicyInit /\ [][PolicyNext]_policyVars

(***************************************************************************)
(* Properties.                                                             *)
(***************************************************************************)
\* Once a policy has been published some policy is in force, whatever races
\* or fails: publish and rollback supersede and publish in one transaction.
StaysInForce == (\E v \in DOMAIN policies : policies[v].status = "superseded") => InForce(policies) # 0

\* A call of high or critical risk is never let through without an approval,
\* whichever policy is in force or none: the default approval floor.
FloorHolds == \A call \in RuntimeCalls : call.risk \in HighRisk => EvaluatePolicy(call) # "allowed"
=============================================================================
