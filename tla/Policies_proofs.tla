--------------------------- MODULE Policies_proofs ---------------------------
(* PolicyCenter: once a policy was published one is in force, and no call of *)
(* high risk is let through.  PromptReleases: a label stands for what was    *)
(* published last.  Both for any number of concurrent requests, any of which *)
(* may be refused or die.                                                    *)
EXTENDS PolicyCenter, PromptReleases, Extrema, SequenceTheorems, TLAPS

----------------------------------------------------------------------------
PolicyRow == [status : {"draft", "published", "superseded"}, rules : PolicyRules, source : Nat,
              checked : {"none", "valid", "invalid"}, impact : SUBSET Surfaces]
PolicyTxn == [op : {"none", "create", "publish", "rollback"},
              at : {"idle", "create", "supersede", "apply", "number", "commit"},
              target : Nat, rules : PolicyRules \cup {<<>>}, number : Nat, seen : SUBSET Nat, held : SUBSET Nat]

\* A request in progress has the rules it will write; a publication the row.
TxnOK(t) == t # IdleTxn => /\ t.rules \in PolicyRules
                           /\ t.op \in {"publish", "rollback"} => t.target \in 1 .. Len(policies)

\* Superseded rows leave a published one, in every committed state.
SomePublished == (\E v \in DOMAIN policies : policies[v].status = "superseded")
                    => \E v \in DOMAIN policies : policies[v].status = "published"

PolicyInv == /\ policies \in Seq(PolicyRow)
             /\ txn \in [PolicySessions -> PolicyTxn]
             /\ \A s \in PolicySessions : TxnOK(txn[s])
             /\ SomePublished

LEMMA PolicyFirst == PolicyInit => PolicyInv
  BY DEF PolicyInit, PolicyInv, PolicyTxn, IdleTxn, TxnOK, SomePublished

\* A step of one request, by what it does to the rows.
LEMMA TxnStep ==
  ASSUME PolicyInv, NEW s \in PolicySessions, NEW t \in PolicyTxn, txn' = [txn EXCEPT ![s] = t],
         policies' \in Seq(PolicyRow), Len(policies) <= Len(policies'), SomePublished', TxnOK(t)'
  PROVE  PolicyInv'
<1>1. txn' \in [PolicySessions -> PolicyTxn] /\ \A r \in PolicySessions : txn'[r] = IF r = s THEN t ELSE txn[r]
  BY DEF PolicyInv
<1>2. Len(policies) \in Nat /\ Len(policies') \in Nat
  BY LenProperties DEF PolicyInv
<1>3. \A r \in PolicySessions : TxnOK(txn[r])'
  BY <1>1, <1>2 DEF PolicyInv, TxnOK
<1> QED BY <1>1, <1>3 DEF PolicyInv

LEMMA TxnEnds ==
  ASSUME PolicyInv, NEW s \in PolicySessions, EndTxn(s),
         policies' \in Seq(PolicyRow), Len(policies) <= Len(policies'), SomePublished'
  PROVE  PolicyInv'
<1>1. IdleTxn \in PolicyTxn /\ TxnOK(IdleTxn)'
  BY DEF IdleTxn, PolicyTxn, TxnOK
<1> QED BY <1>1, TxnStep DEF EndTxn

\* A request that moves on and leaves the rows alone.
LEMMA TxnMoves ==
  ASSUME PolicyInv, NEW s \in PolicySessions, NEW t \in PolicyTxn, txn' = [txn EXCEPT ![s] = t],
         TxnOK(t), UNCHANGED policies
  PROVE  PolicyInv'
<1>1. Len(policies) <= Len(policies')
  BY LenProperties DEF PolicyInv
<1>2. SomePublished' /\ TxnOK(t)'
  BY DEF PolicyInv, SomePublished, TxnOK
<1>3. policies' \in Seq(PolicyRow)
  BY DEF PolicyInv
<1> QED BY <1>1, <1>2, <1>3, TxnStep

\* Rows that change but not in number or rules.
LEMMA RowsChange ==
  ASSUME PolicyInv, policies' \in [1 .. Len(policies) -> PolicyRow]
  PROVE  policies' \in Seq(PolicyRow) /\ Len(policies') = Len(policies) /\ DOMAIN policies' = 1 .. Len(policies)
<1>1. Len(policies) \in Nat
  BY LenProperties DEF PolicyInv
<1> QED BY <1>1

LEMMA SupersededAreRows ==
  ASSUME PolicyInv, NEW held
  PROVE  /\ SupersededPolicies(policies, held) \in [1 .. Len(policies) -> PolicyRow]
         /\ SupersededPolicies(policies, held) \in Seq(PolicyRow)
         /\ Len(SupersededPolicies(policies, held)) = Len(policies)
<1>1. Len(policies) \in Nat /\ DOMAIN policies = 1 .. Len(policies)
      /\ \A v \in 1 .. Len(policies) : policies[v] \in PolicyRow
  BY LenProperties DEF PolicyInv
<1>2. SupersededPolicies(policies, held) \in [1 .. Len(policies) -> PolicyRow]
  BY <1>1 DEF SupersededPolicies, PolicyRow
<1> QED BY <1>1, <1>2

\* Requests that only read rows and keep what they read.
LEMMA CreateStep ==
  ASSUME PolicyInv, NEW s \in PolicySessions, NEW rules \in PolicyRules, CreateDraft(s, rules)
  PROVE  PolicyInv'
<1> DEFINE t == [IdleTxn EXCEPT !.op = "create", !.at = "create", !.rules = rules,
                                !.number = NextPolicyVersion(policies)]
<1>1. NextPolicyVersion(policies) \in Nat
  BY LenProperties DEF PolicyInv, NextPolicyVersion
<1>2. t \in PolicyTxn /\ TxnOK(t)
  BY <1>1 DEF PolicyTxn, IdleTxn, TxnOK
<1> QED BY <1>2, TxnMoves DEF CreateDraft, BeginTxn

LEMMA LoadStep ==
  ASSUME PolicyInv, NEW s \in PolicySessions, NEW v \in DOMAIN policies, NEW op \in {"publish", "rollback"},
         BeginTxn(s, [IdleTxn EXCEPT !.op = op, !.at = "supersede", !.target = v, !.rules = policies[v].rules]),
         UNCHANGED policies
  PROVE  PolicyInv'
<1> DEFINE t == [IdleTxn EXCEPT !.op = op, !.at = "supersede", !.target = v, !.rules = policies[v].rules]
<1>1. v \in 1 .. Len(policies) /\ v \in Nat /\ policies[v].rules \in PolicyRules
  <2>1. Len(policies) \in Nat /\ DOMAIN policies = 1 .. Len(policies) /\ policies[v] \in PolicyRow
    BY LenProperties DEF PolicyInv
  <2> QED BY <2>1 DEF PolicyRow
<1>2. t \in PolicyTxn /\ TxnOK(t)
  BY <1>1 DEF PolicyTxn, IdleTxn, TxnOK
<1> QED BY <1>2, TxnMoves DEF BeginTxn

LEMMA SupersedeStep ==
  ASSUME PolicyInv, NEW s \in PolicySessions,
         SupersedeSelect(s) \/ SupersedeApply(s) \/ NumberRollback(s)
  PROVE  PolicyInv'
<1>1. txn[s] \in PolicyTxn /\ TxnOK(txn[s]) /\ txn[s] # IdleTxn
  BY DEF SupersedeSelect, SupersedeApply, NumberRollback, PolicyInv, IdleTxn
<1>2. PublishedPolicies(policies) \in SUBSET Nat /\ NextPolicyVersion(policies) \in Nat
  BY LenProperties DEF PolicyInv, PublishedPolicies, NextPolicyVersion
<1>3. ASSUME NEW x \in {"apply", "number", "commit"}, NEW n \in Nat, NEW S \in SUBSET Nat, NEW H \in SUBSET Nat
      PROVE  LET t == [txn[s] EXCEPT !.at = x, !.number = n, !.seen = S, !.held = H]
             IN  t \in PolicyTxn /\ TxnOK(t)
  <2> DEFINE t == [txn[s] EXCEPT !.at = x, !.number = n, !.seen = S, !.held = H]
  <2>1. t \in PolicyTxn
    BY <1>1 DEF PolicyTxn
  <2>2. t.op = txn[s].op /\ t.rules = txn[s].rules /\ t.target = txn[s].target
    BY <1>1 DEF PolicyTxn
  <2>3. TxnOK(t)
    BY <1>1, <2>2 DEF TxnOK
  <2> QED BY <2>1, <2>3
<1>4. \E x \in {"apply", "number", "commit"}, n \in Nat, S, H \in SUBSET Nat :
         txn' = [txn EXCEPT ![s] = [txn[s] EXCEPT !.at = x, !.number = n, !.seen = S, !.held = H]]
  <2> DEFINE moved(x, n, S, H) == [txn[s] EXCEPT !.at = x, !.number = n, !.seen = S, !.held = H]
             p == PublishedPolicies(policies)
  <2>1. txn[s].number \in Nat /\ txn[s].seen \in SUBSET Nat /\ txn[s].held \in SUBSET Nat
    BY <1>1 DEF PolicyTxn
  <2>2. CASE SupersedeSelect(s)
    <3>1. txn' = [txn EXCEPT ![s] = moved("apply", txn[s].number, p, txn[s].held)]
      BY <1>1, <2>2 DEF SupersedeSelect, PolicyTxn, PolicyInv
    <3> QED BY <1>2, <2>1, <3>1
  <2>3. CASE SupersedeApply(s)
    <3> DEFINE x == IF txn[s].op = "publish" THEN "commit" ELSE "number"
    <3>1. txn' = [txn EXCEPT ![s] = moved(x, txn[s].number, txn[s].seen, txn[s].seen \cap p)]
      BY <1>1, <2>3 DEF SupersedeApply, PolicyTxn, PolicyInv
    <3>2. x \in {"apply", "number", "commit"} /\ txn[s].seen \cap p \in SUBSET Nat
      BY <2>1
    <3> QED BY <2>1, <3>1, <3>2
  <2>4. CASE NumberRollback(s)
    <3>1. txn' = [txn EXCEPT ![s] = moved("commit", NextPolicyVersion(policies), txn[s].seen, txn[s].held)]
      BY <1>1, <2>4 DEF NumberRollback, PolicyTxn, PolicyInv
    <3> QED BY <1>2, <2>1, <3>1
  <2> QED BY <2>2, <2>3, <2>4
<1>5. UNCHANGED policies
  BY DEF SupersedeSelect, SupersedeApply, NumberRollback
<1> QED BY <1>3, <1>4, <1>5, TxnMoves

LEMMA ValidateStep ==
  ASSUME PolicyInv, NEW v \in DOMAIN policies, ValidateDraft(v)
  PROVE  PolicyInv'
<1>1. DOMAIN policies = 1 .. Len(policies) /\ \A w \in 1 .. Len(policies) : policies[w] \in PolicyRow
  BY LenProperties DEF PolicyInv
<1>2. CheckedPolicy(policies[v].rules) \in {"valid", "invalid"} /\ ImpactOf(policies[v].rules) \in SUBSET Surfaces
  BY DEF CheckedPolicy, ImpactOf
<1>3. policies' \in [1 .. Len(policies) -> PolicyRow]
  <2> DEFINE row == [policies[v] EXCEPT !.checked = CheckedPolicy(policies[v].rules),
                                       !.impact  = ImpactOf(policies[v].rules)]
  <2>1. row \in PolicyRow
    BY <1>1, <1>2 DEF PolicyRow
  <2>2. policies' = [policies EXCEPT ![v] = row]
    BY DEF ValidateDraft
  <2>3. policies \in [1 .. Len(policies) -> PolicyRow]
    BY <1>1 DEF PolicyInv
  <2> HIDE DEF row
  <2> QED BY <1>1, <2>1, <2>2, <2>3
<1>4. \A w \in 1 .. Len(policies) : policies'[w].status = policies[w].status
  BY <1>1 DEF ValidateDraft, PolicyRow
<1>5. policies' \in Seq(PolicyRow) /\ Len(policies') = Len(policies) /\ DOMAIN policies' = 1 .. Len(policies)
  BY <1>3, RowsChange
<1>6. SomePublished'
  BY <1>1, <1>4, <1>5 DEF SomePublished, PolicyInv
<1> QED BY <1>5, <1>6 DEF ValidateDraft, PolicyInv, TxnOK

LEMMA InsertStep ==
  ASSUME PolicyInv, NEW s \in PolicySessions, InsertDraft(s)
  PROVE  PolicyInv'
<1> DEFINE row == PolicyVersion("draft", txn[s].rules, 0, "none", {})
<1>1. Len(policies) \in Nat /\ DOMAIN policies = 1 .. Len(policies)
  BY LenProperties DEF PolicyInv
<1>2. CASE policies' = policies
  <2>1. policies' \in Seq(PolicyRow) /\ Len(policies) <= Len(policies') /\ SomePublished'
    BY <1>1, <1>2 DEF PolicyInv, SomePublished
  <2> QED BY <2>1, TxnEnds DEF InsertDraft
<1>3. CASE policies' = Append(policies, row)
  <2>1. row \in PolicyRow /\ row.status = "draft"
    BY DEF InsertDraft, PolicyInv, TxnOK, IdleTxn, PolicyVersion, PolicyRow
  <2> HIDE DEF row
  <2>2. /\ policies' \in Seq(PolicyRow) /\ Len(policies') = Len(policies) + 1
        /\ \A w \in 1 .. Len(policies) : policies'[w] = policies[w]
        /\ policies'[Len(policies) + 1] = row
    BY <1>3, <2>1, AppendProperties DEF PolicyInv
  <2>3. DOMAIN policies' = 1 .. Len(policies')
    BY <2>2, LenProperties
  <2>4. SomePublished'
    BY <1>1, <2>1, <2>2, <2>3 DEF SomePublished, PolicyInv
  <2> QED BY <1>1, <2>2, <2>4, TxnEnds DEF InsertDraft
<1> QED BY <1>2, <1>3 DEF InsertDraft

LEMMA PublishStep ==
  ASSUME PolicyInv, NEW s \in PolicySessions, CommitPublish(s)
  PROVE  PolicyInv'
<1> DEFINE rows == SupersededPolicies(policies, txn[s].held)
           v    == txn[s].target
<1>1. Len(policies) \in Nat /\ rows \in [1 .. Len(policies) -> PolicyRow]
  BY LenProperties, SupersededAreRows DEF PolicyInv
<1>2. v \in 1 .. Len(policies) /\ ImpactOf(txn[s].rules) \in SUBSET Surfaces
  BY DEF CommitPublish, PolicyInv, TxnOK, IdleTxn, ImpactOf
<1>3. policies' = [rows EXCEPT ![v] = [rows[v] EXCEPT !.status = "published", !.checked = "valid",
                                                      !.impact = ImpactOf(txn[s].rules)]]
  BY <1>1, <1>2 DEF CommitPublish
<1> HIDE DEF rows, v
<1>4. policies' \in [1 .. Len(policies) -> PolicyRow] /\ policies'[v].status = "published"
  BY <1>1, <1>2, <1>3 DEF PolicyRow
<1>5. policies' \in Seq(PolicyRow) /\ Len(policies') = Len(policies) /\ DOMAIN policies' = 1 .. Len(policies)
  BY <1>4, RowsChange
<1>6. SomePublished'
  BY <1>2, <1>4, <1>5 DEF SomePublished
<1>7. Len(policies) <= Len(policies')
  BY <1>1, <1>5
<1> QED BY <1>5, <1>6, <1>7, TxnEnds DEF CommitPublish

LEMMA RollbackStep ==
  ASSUME PolicyInv, NEW s \in PolicySessions, CommitRollback(s)
  PROVE  PolicyInv'
<1> DEFINE rows == SupersededPolicies(policies, txn[s].held)
           row  == PolicyVersion("published", txn[s].rules, txn[s].target, "valid", ImpactOf(txn[s].rules))
<1>1. Len(policies) \in Nat /\ DOMAIN policies = 1 .. Len(policies)
      /\ rows \in Seq(PolicyRow) /\ Len(rows) = Len(policies)
  BY LenProperties, SupersededAreRows DEF PolicyInv
<1>2. CASE policies' = policies
  <2>1. policies' \in Seq(PolicyRow) /\ Len(policies) <= Len(policies') /\ SomePublished'
    BY <1>1, <1>2 DEF PolicyInv, SomePublished
  <2> QED BY <2>1, TxnEnds DEF CommitRollback
<1>3. CASE policies' = Append(rows, row)
  <2>1. row \in PolicyRow /\ row.status = "published"
    BY DEF CommitRollback, PolicyInv, PolicyTxn, TxnOK, IdleTxn, PolicyVersion, PolicyRow, ImpactOf
  <2> HIDE DEF row, rows
  <2>2. policies' \in Seq(PolicyRow) /\ Len(policies') = Len(policies) + 1 /\ policies'[Len(policies) + 1] = row
    BY <1>1, <1>3, <2>1, AppendProperties
  <2>3. DOMAIN policies' = 1 .. Len(policies')
    BY <2>2, LenProperties
  <2>4. SomePublished'
    BY <1>1, <2>1, <2>2, <2>3 DEF SomePublished
  <2> QED BY <1>1, <2>2, <2>4, TxnEnds DEF CommitRollback
<1> QED BY <1>2, <1>3 DEF CommitRollback

LEMMA PolicyStep == PolicyInv /\ [PolicyNext]_policyVars => PolicyInv'
<1> SUFFICES ASSUME PolicyInv, [PolicyNext]_policyVars PROVE PolicyInv'
  OBVIOUS
<1>1. CASE UNCHANGED policyVars
  BY <1>1 DEF policyVars, PolicyInv, TxnOK, SomePublished
<1>3. CASE \E v \in DOMAIN policies : ValidateDraft(v) \/ RefusePublish(v)
  BY <1>3, ValidateStep DEF RefusePublish
<1>4. ASSUME NEW s \in PolicySessions, NEW v \in DOMAIN policies, LoadDraft(s, v) \/ LoadTarget(s, v)
      PROVE  PolicyInv'
  <2>1. CASE LoadDraft(s, v)
    BY <2>1, LoadStep DEF LoadDraft
  <2>2. CASE LoadTarget(s, v)
    BY <2>2, LoadStep DEF LoadTarget
  <2> QED BY <1>4, <2>1, <2>2
<1>6. ASSUME NEW s \in PolicySessions, LoseTxn(s) PROVE PolicyInv'
  <2>1. Len(policies) <= Len(policies')
    BY <1>6, LenProperties DEF LoseTxn, PolicyInv
  <2> QED BY <1>6, <2>1, TxnEnds DEF LoseTxn, PolicyInv, SomePublished
<1> QED
  BY <1>1, <1>3, <1>4, <1>6, CreateStep, InsertStep, SupersedeStep, PublishStep, RollbackStep DEF PolicyNext

LEMMA InForceIs == ASSUME PolicyInv, PublishedPolicies(policies) # {} PROVE InForce(policies) \in DOMAIN policies
<1>1. Len(policies) \in Nat /\ PublishedPolicies(policies) \subseteq 0 .. Len(policies)
      /\ PublishedPolicies(policies) \subseteq DOMAIN policies
  BY LenProperties DEF PolicyInv, PublishedPolicies
<1>2. Max(PublishedPolicies(policies)) \in PublishedPolicies(policies)
  BY <1>1, GreatestIsMember
<1> QED BY <1>1, <1>2 DEF InForce

\* Once a policy was published, some policy is in force.
THEOREM StaysInForceCorrect == PolicySpec => []StaysInForce
<1>1. PolicyInv => StaysInForce
  <2> SUFFICES ASSUME PolicyInv, \E v \in DOMAIN policies : policies[v].status = "superseded"
               PROVE  InForce(policies) # 0
    BY DEF StaysInForce
  <2>1. PublishedPolicies(policies) # {}
    BY DEF PolicyInv, SomePublished, PublishedPolicies
  <2>2. DOMAIN policies = 1 .. Len(policies) /\ Len(policies) \in Nat
    BY LenProperties DEF PolicyInv
  <2> QED BY <2>1, <2>2, InForceIs
<1> QED BY <1>1, PolicyFirst, PolicyStep, PTL DEF PolicySpec

\* No rules, of a policy in force or of any list, let a call of high risk
\* through.
LEMMA FloorOfRules ==
  ASSUME NEW rules, NEW call, call.risk \in HighRisk
  PROVE  DecideByRules(rules, call) # "allowed"
<1>1. DefaultDecision(call) # "allowed"
  BY DEF DefaultDecision
<1>2. ASSUME NEW rule PROVE FromRule(rule, call) # "allowed"
  BY DEF FromRule
<1> QED BY <1>1, <1>2 DEF DecideByRules

\* A call of high or critical risk is never let through without an approval.
THEOREM FloorCorrect == PolicySpec => []FloorHolds
<1>1. FloorHolds
  BY FloorOfRules DEF FloorHolds, EvaluatePolicy
<1> QED BY <1>1, PTL

----------------------------------------------------------------------------
ReleaseRow == [version : PromptVersions, label : Labels, status : {"active", "archived"},
               gate : {"passed", "not_required"}, run : EvalRuns \cup {NoRunGiven}]
PublishRow == [at : {"idle", "archive", "apply", "commit"}, version : PromptVersions \cup {NoVersion},
               label : Labels \cup {NoVersion}, run : EvalRuns \cup {NoRunGiven},
               seen : SUBSET Nat, held : SUBSET Nat]

\* A publication holds releases of its own label only.
PublishOK(r) == r # NoPublish => /\ r.version \in PromptVersions /\ r.label \in Labels
                                 /\ \A i \in r.held : i \in 1 .. Len(releases) /\ releases[i].label = r.label

\* The active releases of a label are of the version that was told last.
LabelOK(l) == /\ \A i \in Active(releases, l) : releases[i].version = told[l]
              /\ told[l] # NoVersion => Active(releases, l) # {}

PromptInv == /\ releases \in Seq(ReleaseRow)
             /\ known \in SUBSET PromptVersions
             /\ publish \in [Publishers -> PublishRow]
             /\ told \in [Labels -> PromptVersions \cup {NoVersion}]
             /\ \A p \in Publishers : PublishOK(publish[p])
             /\ \A l \in Labels : LabelOK(l)

LEMMA PromptFirst == PromptInit => PromptInv
<1> SUFFICES ASSUME PromptInit PROVE PromptInv
  OBVIOUS
<1>1. NoPublish \in PublishRow
  BY DEF NoPublish, PublishRow
<1>2. \A l \in Labels : Active(releases, l) = {}
  BY DEF PromptInit, Active
<1> QED BY <1>1, <1>2 DEF PromptInit, PromptInv, PublishOK, LabelOK

\* A publication moves on; the releases stay.
LEMMA PublicationMoves ==
  ASSUME PromptInv, NEW p \in Publishers, NEW r \in PublishRow, publish' = [publish EXCEPT ![p] = r], PublishOK(r),
         UNCHANGED <<releases, known, told>>
  PROVE  PromptInv'
<1>1. publish' \in [Publishers -> PublishRow] /\ \A q \in Publishers : publish'[q] = IF q = p THEN r ELSE publish[q]
  BY DEF PromptInv
<1>2. \A q \in Publishers : PublishOK(publish[q])'
  BY <1>1 DEF PromptInv, PublishOK
<1>3. \A l \in Labels : LabelOK(l)'
  BY DEF PromptInv, LabelOK, Active
<1> QED BY <1>1, <1>2, <1>3 DEF PromptInv

LEMMA PublicationEnds ==
  ASSUME PromptInv, NEW p \in Publishers, publish' = [publish EXCEPT ![p] = NoPublish],
         UNCHANGED <<releases, known, told>>
  PROVE  PromptInv'
<1>1. NoPublish \in PublishRow /\ PublishOK(NoPublish)
  BY DEF NoPublish, PublishRow, PublishOK
<1> QED BY <1>1, PublicationMoves

LEMMA ArchiveStep ==
  ASSUME PromptInv, NEW p \in Publishers, ArchiveSelect(p) \/ ArchiveApply(p)
  PROVE  PromptInv'
<1>1. publish[p] \in PublishRow /\ publish[p] # NoPublish /\ PublishOK(publish[p])
  BY DEF ArchiveSelect, ArchiveApply, NoPublish, PromptInv
<1> DEFINE a == Active(releases, publish[p].label)
<1>2. a \in SUBSET Nat /\ \A i \in a : i \in 1 .. Len(releases) /\ releases[i].label = publish[p].label
  BY LenProperties DEF PromptInv, Active
<1>3. CASE ArchiveSelect(p)
  <2> DEFINE r == [publish[p] EXCEPT !.at = "apply", !.seen = a]
  <2>1. r \in PublishRow /\ r.version = publish[p].version /\ r.label = publish[p].label /\ r.held = publish[p].held
    BY <1>1, <1>2 DEF PublishRow
  <2>2. PublishOK(r)
    BY <1>1, <2>1 DEF PublishOK
  <2>3. publish' = [publish EXCEPT ![p] = r]
    BY <1>3 DEF ArchiveSelect, PromptInv
  <2> QED BY <1>3, <2>1, <2>2, <2>3, PublicationMoves DEF ArchiveSelect
<1>4. CASE ArchiveApply(p)
  <2> DEFINE r == [publish[p] EXCEPT !.at = "commit", !.held = publish[p].seen \cap a]
  <2>1. r \in PublishRow /\ r.version = publish[p].version /\ r.label = publish[p].label
        /\ r.held = publish[p].seen \cap a
    BY <1>1, <1>2 DEF PublishRow
  <2>2. PublishOK(r)
    BY <1>1, <1>2, <2>1 DEF PublishOK
  <2>3. publish' = [publish EXCEPT ![p] = r]
    BY <1>4 DEF ArchiveApply, PromptInv
  <2> QED BY <1>4, <2>1, <2>2, <2>3, PublicationMoves DEF ArchiveApply
<1> QED BY <1>3, <1>4

\* A release is the only active one of its label; the other labels keep theirs.
LEMMA ReleaseStep ==
  ASSUME PromptInv, NEW p \in Publishers, CommitRelease(p)
  PROVE  PromptInv'
<1> DEFINE r    == publish[p]
           rows == Archived(releases, r.held)
           row  == PromptRelease(r.version, r.label, r.run)
           n    == Len(releases)
<1>1. r \in PublishRow /\ r # NoPublish /\ r.version \in PromptVersions /\ r.label \in Labels
      /\ \A i \in r.held : i \in 1 .. n /\ releases[i].label = r.label
  BY DEF CommitRelease, NoPublish, PromptInv, PublishOK
<1>2. n \in Nat /\ DOMAIN releases = 1 .. n /\ \A i \in 1 .. n : releases[i] \in ReleaseRow
  BY LenProperties DEF PromptInv
<1>3. CASE UNCHANGED <<releases, told>>
  BY <1>3, PublicationEnds DEF CommitRelease
<1>4. CASE /\ Active(rows, r.label) = {} /\ releases' = Append(rows, row)
           /\ told' = [told EXCEPT ![r.label] = r.version]
  <2>1. /\ rows \in [1 .. n -> ReleaseRow] /\ DOMAIN rows = 1 .. n
        /\ \A i \in 1 .. n : /\ rows[i].label = releases[i].label /\ rows[i].version = releases[i].version
                             /\ releases[i].label # r.label => rows[i].status = releases[i].status
    BY <1>1, <1>2 DEF Archived, ReleaseRow
  <2>2. rows \in Seq(ReleaseRow) /\ Len(rows) = n
    BY <1>2, <2>1
  <2>3. row \in ReleaseRow /\ row.label = r.label /\ row.version = r.version /\ row.status = "active"
    BY <1>1 DEF PromptRelease, ReleaseRow, PublishRow
  <2> HIDE DEF row, rows, r, n
  <2>4. /\ releases' \in Seq(ReleaseRow) /\ Len(releases') = n + 1
        /\ \A i \in 1 .. n : releases'[i] = rows[i]
        /\ releases'[n + 1] = row
    BY <1>4, <2>2, <2>3, AppendProperties
  <2>5. DOMAIN releases' = 1 .. n + 1
    BY <2>4, LenProperties
  <2>6. told' \in [Labels -> PromptVersions \cup {NoVersion}]
        /\ \A l \in Labels : told'[l] = IF l = r.label THEN r.version ELSE told[l]
    BY <1>1, <1>4 DEF PromptInv
  <2>7. ASSUME NEW l \in Labels PROVE LabelOK(l)'
    <3>1. CASE l = r.label
      <4>1. \A i \in 1 .. n : i \notin Active(releases', l)
        BY <1>4, <2>1, <2>4, <3>1 DEF Active
      <4>2. n + 1 \in Active(releases', l) /\ releases'[n + 1].version = told'[l]
        BY <1>2, <2>3, <2>4, <2>5, <2>6, <3>1 DEF Active
      <4>3. \A i \in Active(releases', l) : i = n + 1
        BY <1>2, <2>5, <4>1 DEF Active
      <4> QED BY <4>2, <4>3 DEF LabelOK
    <3>2. CASE l # r.label
      <4>1. Active(releases', l) = Active(releases, l)
        BY <1>2, <2>1, <2>3, <2>4, <2>5, <3>2 DEF Active
      <4>2. \A i \in Active(releases, l) : releases'[i].version = releases[i].version
        BY <1>2, <2>1, <2>4 DEF Active
      <4> QED BY <2>6, <3>2, <4>1, <4>2 DEF LabelOK, PromptInv
    <3> QED BY <3>1, <3>2
  <2>8. publish' \in [Publishers -> PublishRow]
        /\ \A q \in Publishers : publish'[q] = NoPublish \/ publish'[q] = publish[q]
    BY DEF CommitRelease, PromptInv, NoPublish, PublishRow
  <2>9. ASSUME NEW q \in Publishers PROVE PublishOK(publish[q])'
    <3>1. CASE publish'[q] = publish[q]
      <4>1. PublishOK(publish[q])
        BY DEF PromptInv
      <4>2. \A i \in 1 .. n : i \in 1 .. Len(releases') /\ releases'[i].label = releases[i].label
        BY <1>2, <2>1, <2>4
      <4> QED BY <3>1, <4>1, <4>2 DEF PublishOK, n
    <3> QED BY <2>8, <3>1 DEF PublishOK
  <2> QED BY <2>4, <2>6, <2>7, <2>8, <2>9 DEF PromptInv, CommitRelease
<1> QED BY <1>3, <1>4 DEF CommitRelease

LEMMA PromptStep == PromptInv /\ [PromptNext]_promptVars => PromptInv'
<1> SUFFICES ASSUME PromptInv, [PromptNext]_promptVars PROVE PromptInv'
  OBVIOUS
<1>1. CASE UNCHANGED promptVars
  BY <1>1 DEF promptVars, PromptInv, PublishOK, LabelOK, Active
<1>2. ASSUME NEW v \in PromptVersions, CreateVersion(v) PROVE PromptInv'
  BY <1>2 DEF CreateVersion, PromptInv, PublishOK, LabelOK, Active
<1>3. ASSUME NEW p \in Publishers, NEW v \in PromptVersions, NEW l \in Labels,
             NEW e \in EvalRuns \cup {NoRunGiven}, StartPublish(p, v, l, e)
      PROVE  PromptInv'
  <2> DEFINE r == [NoPublish EXCEPT !.at = "archive", !.version = v, !.label = l, !.run = e]
  <2>1. r \in PublishRow /\ PublishOK(r)
    BY DEF NoPublish, PublishRow, PublishOK
  <2> QED BY <1>3, <2>1, PublicationMoves DEF StartPublish
<1>4. ASSUME NEW p \in Publishers, LosePublish(p) PROVE PromptInv'
  BY <1>4, PublicationEnds DEF LosePublish
<1> QED BY <1>1, <1>2, <1>3, <1>4, ArchiveStep, ReleaseStep DEF PromptNext

\* A label stands for what the last publication that succeeded has released.
THEOREM LastPublishCorrect == PromptSpec => []LastPublishWins
<1>1. PromptInv => LastPublishWins
  <2> SUFFICES ASSUME PromptInv, NEW l \in Labels PROVE Resolve(l) = {told[l]} \ {NoVersion}
    BY DEF LastPublishWins
  <2>1. \A i \in Active(releases, l) : releases[i].version = told[l] /\ told[l] # NoVersion
    <3>1. \A i \in Active(releases, l) : releases[i] \in ReleaseRow
      BY LenProperties DEF PromptInv, Active
    <3> QED BY <3>1, VersionsAreNamed DEF PromptInv, LabelOK, ReleaseRow
  <2>2. told[l] # NoVersion => Active(releases, l) # {}
    BY DEF PromptInv, LabelOK
  <2> QED BY <2>1, <2>2 DEF Resolve
<1> QED BY <1>1, PromptFirst, PromptStep, PTL DEF PromptSpec
=============================================================================
