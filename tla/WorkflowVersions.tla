-------------------------- MODULE WorkflowVersions --------------------------
(* Drafts and published versions of one workflow of a project                *)
(* (api/routes/workflows.py, workflows/sqlalchemy_store.py).  Requests read, *)
(* analyse against the project's resources and write in separate statements, *)
(* so a draft or the resources may change in between.                        *)
EXTENDS WorkflowDsl, FiniteSetsExt

CONSTANTS Requesters,   \* the requests that may be in progress together
          DraftIds,     \* the identities a draft row may get
          Definitions,  \* the contents a request may bring
          Catalogs,     \* what the project's registry may hold
          MaxWorkflowVersion, \* bound: the highest version number
          MaxRequests   \* bound: how many requests there are

ASSUME MaxIsNatural == MaxWorkflowVersion \in Nat
ASSUME DefinitionsAreSound == \A d \in Definitions : GraphOK(d)

VARIABLES drafts,      \* the draft rows
          published,   \* the version rows, by version number
          catalog,     \* the resources the registry holds
          request,     \* the request each requester is executing
          requests     \* how many requests have started

wfVars == <<drafts, published, catalog, request, requests>>

VersionNumbers == 1 .. MaxWorkflowVersion
NoContent == [nodes |-> <<>>, edges |-> {}]

\* A draft row: whether it exists, its version, its content, and whether its
\* last analysis allows it to be published or run.
NoDraft == [state |-> "unused", version |-> 0, content |-> NoContent, runnable |-> FALSE]

\* A version row: its status and the content it was released with.
Unreleased == [status |-> "none", content |-> NoContent]

\* A request: what it does, the step it is at, the draft and the version it
\* is about, and the content it brought or read.
Free == [op |-> "none", at |-> "idle", draft |-> "none", version |-> 0, content |-> NoContent,
         runnable |-> FALSE]

Stored == {d \in DraftIds : drafts[d].state = "stored"}
WithVersion(v) == {d \in Stored : drafts[d].version = v}
Released == {v \in VersionNumbers : published[v].status # "none"}
Highest(S) == IF S = {} THEN 0 ELSE Max(S)

WfInit ==
    /\ drafts = [d \in DraftIds |-> NoDraft]
    /\ published = [v \in VersionNumbers |-> Unreleased]
    /\ catalog \in Catalogs
    /\ request = [r \in Requesters |-> Free]
    /\ requests = 0

Take(r, req) == /\ request[r] = Free /\ requests < MaxRequests
                /\ request' = [request EXCEPT ![r] = req]
                /\ requests' = requests + 1
At(r, op, at) == request[r].op = op /\ request[r].at = at
Goto(r, at)   == request' = [request EXCEPT ![r].at = at]
Done(r)       == request' = [request EXCEPT ![r] = Free]

(***************************************************************************)
(* Import a document as a draft, and the upsert it shares with restore.    *)
(***************************************************************************)
Import(r, def, v) ==
    /\ Take(r, [op |-> "import", at |-> "find", draft |-> "none", version |-> v, content |-> def,
                runnable |-> MissingReferences(def, catalog) = {}])
    /\ UNCHANGED <<drafts, published, catalog>>

UpsertFind(r) ==
    LET v == request[r].version
    IN  /\ request[r].at = "find"
        /\ request' = [request EXCEPT ![r].at = "write",
                         ![r].draft = IF WithVersion(v) = {} THEN "none"
                                      ELSE CHOOSE d \in WithVersion(v) : TRUE]
        /\ UNCHANGED <<drafts, published, catalog, requests>>

Written(req) == [state |-> "stored", version |-> req.version, content |-> req.content,
                 runnable |-> req.runnable]

\* The write fails when the row is gone or its version number is another's:
\* an update of a missing row and the unique constraint are errors.
Writable(req) == /\ req.draft # "none" => req.draft \in Stored
                 /\ WithVersion(req.version) \subseteq {req.draft}

\* The draft found is overwritten, or a new one inserted.
UpsertWrite(r) ==
    LET req == request[r]
    IN  /\ req.at = "write"
        /\ IF ~Writable(req) THEN UNCHANGED drafts
           ELSE \E d \in DraftIds :
                    /\ IF req.draft = "none" THEN drafts[d].state = "unused" ELSE d = req.draft
                    /\ drafts' = [drafts EXCEPT ![d] = Written(req)]
        /\ Done(r)
        /\ UNCHANGED <<published, catalog, requests>>

(***************************************************************************)
(* Update and delete a draft.                                              *)
(***************************************************************************)
Update(r, d, def, v) ==
    /\ d \in Stored
    /\ Take(r, [op |-> "update", at |-> "update", draft |-> d, version |-> v, content |-> def,
                runnable |-> MissingReferences(def, catalog) = {}])
    /\ UNCHANGED <<drafts, published, catalog>>

UpdateWrite(r) ==
    LET req == request[r]
    IN  /\ At(r, "update", "update")
        /\ drafts' = IF Writable(req)
                     THEN [drafts EXCEPT ![req.draft] = Written(req)]
                     ELSE drafts
        /\ Done(r)
        /\ UNCHANGED <<published, catalog, requests>>

Delete(d) ==
    /\ d \in Stored
    /\ drafts' = [drafts EXCEPT ![d] = [NoDraft EXCEPT !.state = "deleted"]]
    /\ UNCHANGED <<published, catalog, request, requests>>

(***************************************************************************)
(* Publish a draft, archive a version, restore a version as a draft.       *)
(***************************************************************************)
\* The request keeps the draft it read.
Publish(r, d) ==
    /\ d \in Stored
    /\ Take(r, [op |-> "publish", at |-> "gate", draft |-> d, version |-> drafts[d].version,
                content |-> drafts[d].content, runnable |-> FALSE])
    /\ UNCHANGED <<drafts, published, catalog>>

\* The draft is analysed again, whatever its last analysis said.
PublishGate(r) ==
    /\ At(r, "publish", "gate")
    /\ IF CanPublish(request[r].content, catalog) THEN Goto(r, "insert") ELSE Done(r)
    /\ UNCHANGED <<drafts, published, catalog, requests>>

\* Mutant: the draft is read again after the gate.
PublishInsert_Reread(r) ==
    /\ At(r, "publish", "insert")
    /\ published' = IF published[request[r].version].status = "none" /\ request[r].draft \in Stored
                    THEN [published EXCEPT ![request[r].version] =
                             [status |-> "published", content |-> drafts[request[r].draft].content]]
                    ELSE published
    /\ Done(r)
    /\ UNCHANGED <<drafts, catalog, requests>>

\* Mutant: a version published twice replaces the first.
PublishInsert_Replace(r) ==
    /\ At(r, "publish", "insert")
    /\ published' = [published EXCEPT ![request[r].version] =
                        [status |-> "published", content |-> request[r].content]]
    /\ Done(r)
    /\ UNCHANGED <<drafts, catalog, requests>>

\* The unique constraint refuses a version number that is taken.
PublishInsert(r) ==
    /\ At(r, "publish", "insert")
    /\ published' = IF published[request[r].version].status = "none"
                    THEN [published EXCEPT ![request[r].version] =
                             [status |-> "published", content |-> request[r].content]]
                    ELSE published
    /\ Done(r)
    /\ UNCHANGED <<drafts, catalog, requests>>

Archive(v) ==
    /\ v \in Released
    /\ published' = [published EXCEPT ![v].status = "archived"]
    /\ UNCHANGED <<drafts, catalog, request, requests>>

\* Restore keeps the analysis the version was published with.
Restore(r, v) ==
    /\ v \in Released
    /\ Take(r, [op |-> "restore", at |-> "max_draft", draft |-> "none", version |-> 0,
                content |-> published[v].content, runnable |-> TRUE])
    /\ UNCHANGED <<drafts, published, catalog>>

RestoreMaxDraft(r) ==
    /\ At(r, "restore", "max_draft")
    /\ request' = [request EXCEPT ![r].at = "max_version",
                                  ![r].version = Highest({drafts[d].version : d \in Stored})]
    /\ UNCHANGED <<drafts, published, catalog, requests>>

RestoreMaxVersion(r) ==
    LET next == Max({request[r].version, Highest(Released)}) + 1
    IN  /\ At(r, "restore", "max_version")
        /\ next <= MaxWorkflowVersion
        /\ request' = [request EXCEPT ![r].at = "find", ![r].version = next]
        /\ UNCHANGED <<drafts, published, catalog, requests>>

\* Resources are registered, disabled and removed by other requests.
ChangeCatalog ==
    /\ catalog' \in Catalogs \ {catalog}
    /\ UNCHANGED <<drafts, published, request, requests>>

WfNext ==
    \/ \E r \in Requesters, def \in Definitions, v \in VersionNumbers :
          Import(r, def, v) \/ \E d \in DraftIds : Update(r, d, def, v)
    \/ \E r \in Requesters :
          \/ UpsertFind(r)  \/ UpsertWrite(r)   \/ UpdateWrite(r)
          \/ PublishGate(r) \/ PublishInsert(r) \/ RestoreMaxDraft(r) \/ RestoreMaxVersion(r)
    \/ \E r \in Requesters, d \in DraftIds : Publish(r, d)
    \/ \E r \in Requesters, v \in VersionNumbers : Restore(r, v)
    \/ \E d \in DraftIds : Delete(d)
    \/ \E v \in VersionNumbers : Archive(v)
    \/ ChangeCatalog

WfSpec == WfInit /\ [][WfNext]_wfVars

(***************************************************************************)
(* Properties.                                                             *)
(***************************************************************************)
\* A version that requires an approval has an approval policy, although its
\* draft may be updated between the publish gate and the insertion.
GatedContent ==
    \A v \in Released : ApprovalRequired(published[v].content) => HasApprovalPolicy(published[v].content)

\* What a version number stands for never changes once it is published, and
\* an archived version stays archived: runs refer to versions by number.
VersionsAreFixed ==
    [][\A v \in Released : /\ published'[v].content = published[v].content
                           /\ published[v].status = "archived" => published'[v].status = "archived"]_wfVars
=============================================================================
