--------------------------- MODULE PromptReleases ---------------------------
(* The prompt library (model_gateway/sqlalchemy_store.py): versions of one   *)
(* prompt template are released under a label of one environment, through an *)
(* evaluation gate when the label is protected, and a model call asks for    *)
(* the version a label stands for (model_gateway/runner.py).  Transactions   *)
(* interleave as in PolicyCenter, and a partial unique index allows one      *)
(* active release per label.                                                 *)
EXTENDS Naturals, Sequences, FiniteSets

CONSTANTS Publishers,     \* the requests that may be in progress together
          PromptVersions, \* the versions of the template
          Labels,         \* the normalized labels in use
          EvalRuns,       \* the completed and other evaluation runs
          MaxReleases     \* bound: how many releases are ever inserted

ProtectedLabels == {"production", "staging", "latest"}
NoVersion == "none"
NoRunGiven == [status |-> "none"]

ASSUME LabelsAreNamed == "" \notin Labels
ASSUME VersionsAreNamed == NoVersion \notin PromptVersions
ASSUME EvalRunsAreRuns == \A e \in EvalRuns : e.cases \in Nat /\ e.recall \in 0 .. 10

VARIABLES releases,    \* the rows of prompt_template_releases, in order
          known,       \* the versions that have been created
          publish,     \* the request each publisher is executing
          told         \* per label, what the last successful publish released

promptVars == <<releases, known, publish, told>>

PromptRelease(v, l, e) ==
    [version |-> v, label |-> l, status |-> "active",
     gate |-> IF l \in ProtectedLabels THEN "passed" ELSE "not_required", run |-> e]
NoPublish == [at |-> "idle", version |-> NoVersion, label |-> NoVersion, run |-> NoRunGiven,
              seen |-> {}, held |-> {}]

Active(rs, l) == {i \in DOMAIN rs : rs[i].label = l /\ rs[i].status = "active"}

\* The metrics count tenths.
GatePasses(e) ==
    /\ e \in EvalRuns
    /\ e.status = "completed"
    /\ e.cases > 0 /\ e.leakage = 0 /\ e.deleted_visible = 0
    /\ e.recall >= 8 /\ e.mrr >= 5 /\ e.context_recall >= 8

PromptInit == /\ releases = <<>> /\ known = {}
              /\ publish = [p \in Publishers |-> NoPublish]
              /\ told = [l \in Labels |-> NoVersion]

CreateVersion(v) == /\ v \notin known /\ known' = known \cup {v}
                    /\ UNCHANGED <<releases, publish, told>>

\* A version of the template, a named label and, for a protected one, an
\* evaluation run that passes.
StartPublish(p, v, l, e) ==
    /\ publish[p] = NoPublish
    /\ v \in known
    /\ l \in ProtectedLabels => GatePasses(e)
    /\ publish' = [publish EXCEPT ![p] = [NoPublish EXCEPT !.at = "archive", !.version = v,
                                                           !.label = l, !.run = e]]
    /\ UNCHANGED <<releases, known, told>>

\* UPDATE ... SET status = 'archived': the rows active when it starts ...
ArchiveSelect(p) ==
    /\ publish[p].at = "archive"
    /\ publish' = [publish EXCEPT ![p].at = "apply", ![p].seen = Active(releases, publish[p].label)]
    /\ UNCHANGED <<releases, known, told>>

\* ... less those that are not by the time their locks are free.
ArchiveApply(p) ==
    /\ publish[p].at = "apply"
    /\ \A q \in Publishers \ {p} : publish[p].seen \cap publish[q].held = {}
    /\ publish' = [publish EXCEPT ![p].at = "commit",
                     ![p].held = publish[p].seen \cap Active(releases, publish[p].label)]
    /\ UNCHANGED <<releases, known, told>>

Archived(rs, held) == [i \in DOMAIN rs |-> IF i \in held THEN [rs[i] EXCEPT !.status = "archived"] ELSE rs[i]]

\* Mutant: two releases of a label may be active.
CommitRelease_NoIndex(p) ==
    LET r == publish[p]
    IN  /\ r.at = "commit" /\ Len(releases) < MaxReleases
        /\ releases' = Append(Archived(releases, r.held), PromptRelease(r.version, r.label, r.run))
        /\ told' = [told EXCEPT ![r.label] = r.version]
        /\ publish' = [publish EXCEPT ![p] = NoPublish]
        /\ UNCHANGED known

\* The index refuses a second active release of the label, and with it the
\* whole transaction.
CommitRelease(p) ==
    LET r    == publish[p]
        rows == Archived(releases, r.held)
    IN  /\ r.at = "commit" /\ Len(releases) < MaxReleases
        /\ IF Active(rows, r.label) = {}
           THEN /\ releases' = Append(rows, PromptRelease(r.version, r.label, r.run))
                /\ told' = [told EXCEPT ![r.label] = r.version]
           ELSE UNCHANGED <<releases, told>>
        /\ publish' = [publish EXCEPT ![p] = NoPublish]
        /\ UNCHANGED known

\* The process dies before the commit.
LosePublish(p) == /\ publish[p] # NoPublish
                  /\ publish' = [publish EXCEPT ![p] = NoPublish]
                  /\ UNCHANGED <<releases, known, told>>

PromptNext ==
    \/ \E v \in PromptVersions : CreateVersion(v)
    \/ \E p \in Publishers, v \in PromptVersions, l \in Labels, e \in EvalRuns \cup {NoRunGiven} :
          StartPublish(p, v, l, e)
    \/ \E p \in Publishers : ArchiveSelect(p) \/ ArchiveApply(p) \/ CommitRelease(p) \/ LosePublish(p)

PromptSpec == PromptInit /\ [][PromptNext]_promptVars

\* get_prompt_template_version_by_label: the active release created last.
\* Creation times are not in the order of the commits, so any of them may be.
Resolve(l) == {releases[i].version : i \in Active(releases, l)}

\* A label stands for what the last request that was told it published has
\* released and for nothing else, whatever publications race with it, are
\* refused or die on the way.
LastPublishWins == \A l \in Labels : Resolve(l) = {told[l]} \ {NoVersion}
=============================================================================
