--------------------------- MODULE Workflows_proofs ---------------------------
(* WorkflowVersions: what is released passed the gate and never changes.     *)
(* WorkflowGraph: a definition is accepted exactly when no part of it is cut *)
(* off from the start.  Both for any definitions, and any numbers of         *)
(* requests, drafts and versions.                                            *)
EXTENDS WorkflowVersions, WorkflowGraph, Extrema, FiniteSetTheorems, SequenceTheorems, TLAPS

Contents == Definitions \cup {NoContent}
DraftRow == [state : {"unused", "stored", "deleted"}, version : 0 .. MaxWorkflowVersion, content : Contents,
             runnable : BOOLEAN]
VersionRow == [status : {"none", "published", "archived"}, content : Contents]
RequestRow == [op : {"none", "import", "update", "publish", "restore"},
               at : {"idle", "find", "write", "update", "gate", "insert", "max_draft", "max_version"},
               draft : DraftIds \cup {"none"}, version : 0 .. MaxWorkflowVersion, content : Contents,
               runnable : BOOLEAN]

WfTypeOK == /\ drafts \in [DraftIds -> DraftRow]
            /\ published \in [VersionNumbers -> VersionRow]
            /\ request \in [Requesters -> RequestRow]

\* A definition that needs an approval has an approval policy.
Gated(def) == ApprovalRequired(def) => HasApprovalPolicy(def)

\* What a request inserts is what the gate has seen.
WfInv == /\ WfTypeOK
         /\ \A r \in Requesters : request[r].at = "insert" => request[r].op = "publish" /\ Gated(request[r].content)
         /\ \A v \in Released : Gated(published[v].content)

LEMMA WfFirst == WfInit => WfInv
<1>1. NoDraft \in DraftRow /\ Unreleased \in VersionRow /\ Free \in RequestRow
  BY MaxIsNatural DEF NoDraft, DraftRow, Unreleased, VersionRow, Free, RequestRow, Contents
<1> QED BY <1>1 DEF WfInit, WfInv, WfTypeOK, Released, Free, Unreleased

\* A request moves on, and the versions stay.
LEMMA RequestMoves ==
  ASSUME WfInv, NEW r \in Requesters, NEW q \in RequestRow, request' = [request EXCEPT ![r] = q],
         q.at = "insert" => q.op = "publish" /\ Gated(q.content),
         UNCHANGED published, drafts' \in [DraftIds -> DraftRow]
  PROVE  WfInv'
<1>1. request' \in [Requesters -> RequestRow] /\ \A s \in Requesters : request'[s] = IF s = r THEN q ELSE request[s]
  BY DEF WfInv, WfTypeOK
<1>2. Released' = Released
  BY DEF Released
<1> QED BY <1>1, <1>2 DEF WfInv, WfTypeOK

\* A request ends, and the versions stay.
LEMMA RequestEnds ==
  ASSUME WfInv, NEW r \in Requesters, Done(r), UNCHANGED published, drafts' \in [DraftIds -> DraftRow]
  PROVE  WfInv'
<1>1. Free \in RequestRow /\ Free.at # "insert"
  BY MaxIsNatural DEF Free, RequestRow, Contents
<1> QED BY <1>1, RequestMoves DEF Done

\* A request begins.
LEMMA RequestBegins ==
  ASSUME WfInv, NEW r \in Requesters, NEW q \in RequestRow, Take(r, q), q.at # "insert", UNCHANGED <<drafts, published>>
  PROVE  WfInv'
<1>1. drafts' \in [DraftIds -> DraftRow]
  BY DEF WfInv, WfTypeOK
<1> QED BY <1>1, RequestMoves DEF Take

LEMMA TakeStep ==
  ASSUME WfInv, NEW r \in Requesters,
         \/ \E def \in Definitions, v \in VersionNumbers : Import(r, def, v)
         \/ \E def \in Definitions, v \in VersionNumbers, d \in DraftIds : Update(r, d, def, v)
         \/ \E d \in DraftIds : Publish(r, d)
         \/ \E v \in VersionNumbers : Restore(r, v)
  PROVE  WfInv'
<1>1. \A def \in Definitions : (MissingReferences(def, catalog) = {}) \in BOOLEAN
  OBVIOUS
<1>2. ASSUME NEW def \in Definitions, NEW v \in VersionNumbers, Import(r, def, v) PROVE WfInv'
  <2> DEFINE q == [op |-> "import", at |-> "find", draft |-> "none", version |-> v, content |-> def,
                   runnable |-> MissingReferences(def, catalog) = {}]
  <2>1. q \in RequestRow
    BY MaxIsNatural DEF RequestRow, Contents, VersionNumbers
  <2> QED BY <1>2, <2>1, RequestBegins DEF Import
<1>3. ASSUME NEW def \in Definitions, NEW v \in VersionNumbers, NEW d \in DraftIds, Update(r, d, def, v) PROVE WfInv'
  <2> DEFINE q == [op |-> "update", at |-> "update", draft |-> d, version |-> v, content |-> def,
                   runnable |-> MissingReferences(def, catalog) = {}]
  <2>1. q \in RequestRow
    BY MaxIsNatural DEF RequestRow, Contents, VersionNumbers
  <2> QED BY <1>3, <2>1, RequestBegins DEF Update
<1>4. ASSUME NEW d \in DraftIds, Publish(r, d) PROVE WfInv'
  <2> DEFINE q == [op |-> "publish", at |-> "gate", draft |-> d, version |-> drafts[d].version,
                   content |-> drafts[d].content, runnable |-> FALSE]
  <2>1. q \in RequestRow
    BY DEF RequestRow, WfInv, WfTypeOK, DraftRow
  <2> QED BY <1>4, <2>1, RequestBegins DEF Publish
<1>5. ASSUME NEW v \in VersionNumbers, Restore(r, v) PROVE WfInv'
  <2> DEFINE q == [op |-> "restore", at |-> "max_draft", draft |-> "none", version |-> 0,
                   content |-> published[v].content, runnable |-> TRUE]
  <2>1. q \in RequestRow
    BY MaxIsNatural DEF RequestRow, WfInv, WfTypeOK, VersionRow
  <2> QED BY <1>5, <2>1, RequestBegins DEF Restore
<1> QED BY <1>2, <1>3, <1>4, <1>5

\* The upsert, an update and a deletion write drafts only.
LEMMA WriteDraftStep ==
  ASSUME WfInv, NEW r \in Requesters, UpsertWrite(r) \/ UpdateWrite(r)
  PROVE  WfInv'
<1>1. request[r] \in RequestRow /\ Written(request[r]) \in DraftRow
  BY DEF WfInv, WfTypeOK, RequestRow, Written, DraftRow
<1>2. drafts' \in [DraftIds -> DraftRow]
  <2>1. drafts \in [DraftIds -> DraftRow]
    BY DEF WfInv, WfTypeOK
  <2> QED BY <1>1, <2>1 DEF UpsertWrite, UpdateWrite
<1> QED BY <1>2, RequestEnds DEF UpsertWrite, UpdateWrite

\* The searches for a draft and for the highest version numbers.
LEMMA FindStep ==
  ASSUME WfInv, NEW r \in Requesters, UpsertFind(r) \/ RestoreMaxDraft(r) \/ RestoreMaxVersion(r)
  PROVE  WfInv'
<1>1. request[r] \in RequestRow /\ drafts \in [DraftIds -> DraftRow] /\ published \in [VersionNumbers -> VersionRow]
  BY DEF WfInv, WfTypeOK
<1>2. \A x \in {"write", "max_version", "find"}, d \in DraftIds \cup {"none"}, v \in 0 .. MaxWorkflowVersion :
         [request[r] EXCEPT !.at = x, !.draft = d, !.version = v] \in RequestRow
  BY <1>1 DEF RequestRow
<1>3. \A x \in {"write", "max_version", "find"}, d \in DraftIds \cup {"none"}, v \in 0 .. MaxWorkflowVersion :
         [request[r] EXCEPT !.at = x, !.draft = d, !.version = v].at # "insert"
  BY <1>1 DEF RequestRow
<1>4. \E x \in {"write", "max_version", "find"}, d \in DraftIds \cup {"none"}, v \in 0 .. MaxWorkflowVersion :
         request' = [request EXCEPT ![r] = [request[r] EXCEPT !.at = x, !.draft = d, !.version = v]]
  <2> DEFINE moved(x, d, v) == [request[r] EXCEPT !.at = x, !.draft = d, !.version = v]
  <2>1. request[r].draft \in DraftIds \cup {"none"} /\ request[r].version \in 0 .. MaxWorkflowVersion
    BY <1>1 DEF RequestRow
  <2>2. CASE UpsertFind(r)
    <3> DEFINE found == WithVersion(request[r].version)
               d     == IF found = {} THEN "none" ELSE CHOOSE e \in found : TRUE
    <3>1. d \in DraftIds \cup {"none"}
      BY DEF WithVersion, Stored
    <3>2. request' = [request EXCEPT ![r] = moved("write", d, request[r].version)]
      BY <1>1, <2>2 DEF UpsertFind, RequestRow, WfInv, WfTypeOK
    <3> QED BY <2>1, <3>1, <3>2
  <2>3. CASE RestoreMaxDraft(r)
    <3> DEFINE h == Highest({drafts[d].version : d \in Stored})
    <3>1. h \in 0 .. MaxWorkflowVersion
      <4> DEFINE S == {drafts[d].version : d \in Stored}
      <4>1. S \subseteq 0 .. MaxWorkflowVersion
        BY <1>1 DEF Stored, DraftRow
      <4> HIDE DEF S
      <4>2. S # {} => Max(S) \in S
        BY <4>1, MaxIsNatural, GreatestIsMember
      <4> QED BY <4>1, <4>2, MaxIsNatural DEF Highest, S
    <3>2. request' = [request EXCEPT ![r] = moved("max_version", request[r].draft, h)]
      BY <1>1, <2>3 DEF RestoreMaxDraft, RequestRow, WfInv, WfTypeOK
    <3> QED BY <2>1, <3>1, <3>2
  <2>4. CASE RestoreMaxVersion(r)
    <3> DEFINE n == Max({request[r].version, Highest(Released)}) + 1
    <3>1. n \in 0 .. MaxWorkflowVersion
      <4>1. Released \subseteq 0 .. MaxWorkflowVersion
        BY MaxIsNatural DEF Released, VersionNumbers
      <4>2. Highest(Released) \in 0 .. MaxWorkflowVersion
        <5>1. Released # {} => Max(Released) \in Released
          BY <4>1, MaxIsNatural, GreatestIsMember
        <5>2. CASE Released = {}
          BY <5>2, MaxIsNatural DEF Highest
        <5>3. CASE Released # {}
          BY <4>1, <5>1, <5>3 DEF Highest
        <5> QED BY <5>2, <5>3
      <4> DEFINE S == {request[r].version, Highest(Released)}
      <4>3. S \subseteq 0 .. MaxWorkflowVersion /\ S # {}
        BY <2>1, <4>2
      <4> HIDE DEF S
      <4>4. Max(S) \in S
        BY <4>3, MaxIsNatural, GreatestIsMember
      <4>5. Max(S) + 1 <= MaxWorkflowVersion
        BY <2>4 DEF RestoreMaxVersion, S
      <4> QED BY <4>3, <4>4, <4>5, MaxIsNatural DEF S
    <3>2. request' = [request EXCEPT ![r] = moved("find", request[r].draft, n)]
      BY <1>1, <2>4 DEF RestoreMaxVersion, RequestRow, WfInv, WfTypeOK
    <3> QED BY <2>1, <3>1, <3>2
  <2> QED BY <2>2, <2>3, <2>4
<1>5. UNCHANGED <<drafts, published>>
  BY DEF UpsertFind, RestoreMaxDraft, RestoreMaxVersion
<1> QED BY <1>1, <1>2, <1>3, <1>4, <1>5, RequestMoves

\* The gate lets pass what is gated, and what passed is inserted.
LEMMA GateStep ==
  ASSUME WfInv, NEW r \in Requesters, PublishGate(r)
  PROVE  WfInv'
<1>1. request[r] \in RequestRow /\ drafts' \in [DraftIds -> DraftRow]
  BY DEF PublishGate, WfInv, WfTypeOK
<1>2. CASE CanPublish(request[r].content, catalog)
  <2> DEFINE q == [request[r] EXCEPT !.at = "insert"]
  <2>1. q \in RequestRow /\ q.op = "publish" /\ q.content = request[r].content
    BY <1>1 DEF RequestRow, PublishGate, At
  <2>2. Gated(q.content)
    BY <1>2, <2>1 DEF CanPublish, Gated
  <2>3. request' = [request EXCEPT ![r] = q]
    BY <1>2 DEF PublishGate, Goto, WfInv, WfTypeOK
  <2> QED BY <1>1, <2>1, <2>2, <2>3, RequestMoves DEF PublishGate
<1>3. CASE ~CanPublish(request[r].content, catalog)
  BY <1>1, <1>3, RequestEnds DEF PublishGate
<1> QED BY <1>2, <1>3

LEMMA InsertStep ==
  ASSUME WfInv, NEW r \in Requesters, PublishInsert(r)
  PROVE  WfInv'
<1> DEFINE row == [status |-> "published", content |-> request[r].content]
<1>1. row \in VersionRow /\ Gated(request[r].content)
  BY DEF PublishInsert, At, WfInv, WfTypeOK, RequestRow, VersionRow
<1>2. published' \in [VersionNumbers -> VersionRow]
      /\ \A v \in VersionNumbers : published'[v] = published[v] \/ published'[v] = row
  BY <1>1 DEF PublishInsert, WfInv, WfTypeOK
<1>3. Free \in RequestRow /\ Free.at # "insert"
  BY MaxIsNatural DEF Free, RequestRow, Contents
<1>4. /\ request' \in [Requesters -> RequestRow] /\ UNCHANGED drafts
      /\ \A s \in Requesters : request'[s] = request[s] \/ request'[s].at # "insert"
  BY <1>3 DEF PublishInsert, Done, WfInv, WfTypeOK
<1> QED BY <1>1, <1>2, <1>4 DEF WfInv, WfTypeOK, Released

LEMMA WfStep == WfInv /\ [WfNext]_wfVars => WfInv'
<1> SUFFICES ASSUME WfInv, [WfNext]_wfVars PROVE WfInv'
  OBVIOUS
<1>1. CASE UNCHANGED wfVars \/ ChangeCatalog
  BY <1>1 DEF wfVars, ChangeCatalog, WfInv, WfTypeOK, Released
<1>2. ASSUME NEW d \in DraftIds, Delete(d) PROVE WfInv'
  <2>1. NoDraft \in DraftRow
    BY MaxIsNatural DEF NoDraft, DraftRow, Contents
  <2>2. [NoDraft EXCEPT !.state = "deleted"] \in DraftRow
    BY <2>1 DEF DraftRow
  <2> QED BY <1>2, <2>2 DEF Delete, WfInv, WfTypeOK, Released
<1>3. ASSUME NEW v \in VersionNumbers, Archive(v) PROVE WfInv'
  <2>1. published' \in [VersionNumbers -> VersionRow]
        /\ \A w \in VersionNumbers : published'[w].content = published[w].content
    BY <1>3 DEF Archive, WfInv, WfTypeOK, VersionRow
  <2>2. Released' = Released
    BY <1>3, <2>1 DEF Archive, Released, WfInv, WfTypeOK, VersionRow
  <2> QED BY <1>3, <2>1, <2>2 DEF Archive, WfInv, WfTypeOK, Released
<1> QED BY <1>1, <1>2, <1>3, TakeStep, WriteDraftStep, FindStep, GateStep, InsertStep DEF WfNext

\* Whatever is updated between the gate and the insertion, a version that
\* requires an approval has an approval policy.
THEOREM GatedCorrect == WfSpec => []GatedContent
<1>1. WfInv => GatedContent
  BY DEF WfInv, Gated, GatedContent
<1> QED BY <1>1, WfFirst, WfStep, PTL DEF WfSpec

\* A version keeps its content, and once archived stays archived.
THEOREM VersionsCorrect == WfSpec => VersionsAreFixed
<1>1. ASSUME WfInv, [WfNext]_wfVars, NEW v \in Released
      PROVE  /\ published'[v].content = published[v].content
             /\ published[v].status = "archived" => published'[v].status = "archived"
  <2>1. CASE UNCHANGED published
    BY <2>1
  <2>2. ASSUME NEW r \in Requesters, PublishInsert(r) PROVE published'[v] = published[v]
    BY <1>1, <2>2 DEF PublishInsert, Released, WfInv, WfTypeOK
  <2>3. ASSUME NEW w \in VersionNumbers, Archive(w)
        PROVE  /\ published'[v].content = published[v].content
               /\ published[v].status = "archived" => published'[v].status = "archived"
    BY <1>1, <2>3 DEF Archive, Released, WfInv, WfTypeOK, VersionRow
  <2>4. CASE ~((\E r \in Requesters : PublishInsert(r)) \/ (\E w \in VersionNumbers : Archive(w)))
    BY <1>1, <2>1, <2>4 DEF WfNext, wfVars, Import, Update, Publish, Restore, UpsertFind, UpsertWrite, UpdateWrite,
       PublishGate, RestoreMaxDraft, RestoreMaxVersion, Delete, ChangeCatalog
  <2> QED BY <2>2, <2>3, <2>4
<1>2. WfInv /\ [WfNext]_wfVars =>
        [\A v \in Released : /\ published'[v].content = published[v].content
                             /\ published[v].status = "archived" => published'[v].status = "archived"]_wfVars
  BY <1>1
<1> QED BY <1>2, WfFirst, WfStep, PTL DEF WfSpec, VersionsAreFixed

\* While the search runs: everything reached is a node, an edge leaves the
\* reached nodes only from the frontier, and no cut-off set was entered.
Searching ==
    /\ GraphOK(graph)
    /\ reachable \subseteq Ids(graph)
    /\ frontier \in Seq(reachable)
    /\ \A n \in OfType(graph, "start") : n.id \in reachable
    /\ \A e \in graph.edges : e.source \in reachable =>
         \/ e.target \in reachable
         \/ \E i \in DOMAIN frontier : frontier[i] = e.source
    /\ \A S \in SUBSET Ids(graph) : CutOff(graph, S) => S \cap reachable = {}

GraphInv ==
    /\ graph \in Graphs
    /\ verdict \in {"none", "search", "valid", "invalid"}
    /\ verdict = "search" => Searching
    /\ AcceptedIsReachable

\* The nodes of a definition, being listed, are finitely many.
LEMMA NodesAreFinite ==
  ASSUME NEW d \in Graphs
  PROVE  IsFiniteSet(NodesOf(d)) /\ IsFiniteSet(Ids(d)) /\ NodesOf(d) \subseteq {d.nodes[i] : i \in 1 .. Len(d.nodes)}
<1>1. d.nodes \in Seq(NodesOf(d))
  BY GraphsAreTyped
<1>2. /\ Len(d.nodes) \in Nat
      /\ DOMAIN d.nodes = 1 .. Len(d.nodes)
      /\ d.nodes \in [1 .. Len(d.nodes) -> NodesOf(d)]
  BY <1>1, LenProperties
<1>3. IsFiniteSet(1 .. Len(d.nodes))
  BY <1>2, FS_Interval
<1>4. d.nodes \in Surjection(1 .. Len(d.nodes), NodesOf(d))
  BY <1>2 DEF Surjection, NodesOf
<1>5. IsFiniteSet(NodesOf(d))
  BY <1>3, <1>4, FS_Surjection
<1> DEFINE id == [n \in NodesOf(d) |-> n.id]
<1>6. id \in Surjection(NodesOf(d), Ids(d))
  BY DEF Surjection, Ids
<1>7. IsFiniteSet(Ids(d))
  <2> HIDE DEF id
  <2> QED BY <1>5, <1>6, FS_Surjection
<1> QED BY <1>2, <1>5, <1>7 DEF NodesOf

\* An order of a finite set lists every element of it.
LEMMA OrdersListAll ==
  ASSUME NEW S, IsFiniteSet(S), NEW q \in Orders(S)
  PROVE  /\ q \in Seq(S)
         /\ Len(q) = Cardinality(S)
         /\ \A x \in S : \E i \in 1 .. Len(q) : q[i] = x
<1> DEFINE n == Cardinality(S)
<1>1. n \in Nat
  BY FS_CardinalityType
<1>2. q \in [1 .. n -> S] /\ \A i, j \in 1 .. n : i # j => q[i] # q[j]
  BY DEF Orders
<1>3. IsFiniteSet(1 .. n) /\ Cardinality(1 .. n) = n
  BY <1>1, FS_Interval
<1>4. q \in Injection(1 .. n, S)
  BY <1>2 DEF Injection, IsInjective
<1>5. q \in Surjection(1 .. n, S)
  BY <1>3, <1>4, FS_Injection
<1>6. q \in Seq(S) /\ Len(q) = n
  BY <1>1, <1>2
<1> QED BY <1>5, <1>6 DEF Surjection

LEMMA GraphFirst == GraphInit => GraphInv
  BY DEF GraphInit, GraphInv, AcceptedIsReachable

LEMMA SearchBegins == GraphInv /\ StartSearch => GraphInv'
<1> SUFFICES ASSUME GraphInv, StartSearch PROVE GraphInv'
  OBVIOUS
<1>1. PICK n \in OfType(graph, "start") : frontier' = <<n.id>> /\ reachable' = {n.id}
  BY DEF StartSearch
<1>2. graph' = graph /\ graph \in Graphs /\ verdict' = "search" /\ GraphOK(graph)
  BY DEF StartSearch, GraphInv
<1>3. IsFiniteSet(OfType(graph, "start"))
  <2>1. OfType(graph, "start") \in SUBSET NodesOf(graph)
    BY DEF OfType
  <2> QED BY <1>2, <2>1, NodesAreFinite, FS_Subset
<1>4. OfType(graph, "start") = {n}
  BY <1>1, <1>2, <1>3, FS_Singleton DEF GraphOK
<1>5. n \in NodesOf(graph) /\ n.id \in Ids(graph)
  BY <1>1 DEF OfType, Ids
<1>6. frontier' \in Seq(reachable') /\ DOMAIN frontier' = {1} /\ frontier'[1] = n.id
  BY <1>1
<1>7. \A S : CutOff(graph, S) => n.id \notin S
  BY <1>1 DEF CutOff
<1>8. Searching'
  <2> HIDE DEF Searching
  <2>1. GraphOK(graph)' /\ (reachable \subseteq Ids(graph))' /\ (frontier \in Seq(reachable))'
    BY <1>1, <1>2, <1>5, <1>6
  <2>2. (\A m \in OfType(graph, "start") : m.id \in reachable)'
    BY <1>1, <1>2, <1>4
  <2>3. (\A e \in graph.edges : e.source \in reachable => \E i \in DOMAIN frontier : frontier[i] = e.source)'
    BY <1>1, <1>2, <1>6
  <2>4. (\A S \in SUBSET Ids(graph) : CutOff(graph, S) => S \cap reachable = {})'
    BY <1>1, <1>2, <1>7
  <2> QED BY <2>1, <2>2, <2>3, <2>4 DEF Searching
<1> QED BY <1>2, <1>8 DEF GraphInv, AcceptedIsReachable

LEMMA SearchGoesOn == GraphInv /\ Visit => GraphInv'
<1> SUFFICES ASSUME GraphInv, Visit PROVE GraphInv'
  OBVIOUS
<1> DEFINE current == frontier[Len(frontier)]
           new     == Outgoing(graph, current) \ reachable
           rest    == SubSeq(frontier, 1, Len(frontier) - 1)
<1>1. /\ verdict = "search" /\ frontier # <<>> /\ verdict' = "search" /\ graph' = graph
      /\ reachable' = reachable \cup new
      /\ \E q \in Orders(new) : frontier' = rest \o q
  BY DEF Visit
<1>2. Searching /\ graph \in Graphs
  BY <1>1 DEF GraphInv
<1>3. /\ Len(frontier) \in Nat \ {0}
      /\ DOMAIN frontier = 1 .. Len(frontier)
      /\ \A i \in 1 .. Len(frontier) : frontier[i] \in reachable
  BY <1>1, <1>2, LenProperties, EmptySeq DEF Searching
<1>4. current \in reachable
  BY <1>3
<1>5. new \subseteq Ids(graph)
  BY <1>2 DEF Outgoing, Searching, GraphOK, EdgeFits
<1>6. IsFiniteSet(new)
  BY <1>2, <1>5, NodesAreFinite, FS_Subset
<1> HIDE DEF new
<1>7. PICK q \in Orders(new) : frontier' = rest \o q
  BY <1>1
<1>8. q \in Seq(new) /\ Len(q) \in Nat /\ \A x \in new : \E i \in 1 .. Len(q) : q[i] = x
  BY <1>6, <1>7, OrdersListAll, LenProperties
<1>9. /\ rest \in Seq(reachable) /\ Len(rest) = Len(frontier) - 1
      /\ \A i \in 1 .. Len(frontier) - 1 : rest[i] = frontier[i]
  <2>1. \A i \in 1 .. Len(frontier) - 1 : frontier[i] \in reachable
    BY <1>3
  <2>2. /\ rest \in Seq(reachable)
        /\ Len(rest) = IF 1 <= Len(frontier) - 1 THEN Len(frontier) - 1 - 1 + 1 ELSE 0
        /\ \A i \in 1 .. Len(frontier) - 1 - 1 + 1 : rest[i] = frontier[1 + i - 1]
    BY <1>3, <2>1, SubSeqProperties
  <2> HIDE DEF rest
  <2>3. rest \in Seq(reachable) /\ Len(rest) = Len(frontier) - 1
    <3>1. rest \in Seq(reachable)
      BY <2>2
    <3>2. CASE Len(frontier) = 1
      BY <2>2, <3>1, <3>2
    <3>3. CASE Len(frontier) > 1
      <4>1. 1 <= Len(frontier) - 1 /\ Len(frontier) - 1 - 1 + 1 = Len(frontier) - 1
        BY <1>3, <3>3
      <4> QED BY <2>2, <4>1
    <3>4. Len(frontier) = 1 \/ Len(frontier) > 1
      BY <1>3
    <3> QED BY <3>2, <3>3, <3>4
  <2>4. ASSUME NEW i \in 1 .. Len(frontier) - 1 PROVE rest[i] = frontier[i]
    <3>1. i \in 1 .. Len(frontier) - 1 - 1 + 1 /\ 1 + i - 1 = i
      BY <1>3
    <3>2. rest[i] = frontier[1 + i - 1]
      BY <2>2, <3>1
    <3> QED BY <3>1, <3>2
  <2> QED BY <2>3, <2>4
<1> HIDE DEF rest
<1>10. rest \in Seq(reachable') /\ q \in Seq(reachable')
  BY <1>1, <1>8, <1>9, SeqMonotonic
<1>11. /\ frontier' \in Seq(reachable')
       /\ Len(frontier') = Len(rest) + Len(q)
       /\ \A i \in 1 .. Len(rest) + Len(q) :
            frontier'[i] = IF i <= Len(rest) THEN rest[i] ELSE q[i - Len(rest)]
  BY <1>7, <1>10, ConcatProperties
<1>12. DOMAIN frontier' = 1 .. Len(rest) + Len(q)
  BY <1>11, LenProperties
<1>13. ASSUME NEW i \in 1 .. Len(frontier) - 1
       PROVE  i \in DOMAIN frontier' /\ frontier'[i] = frontier[i]
  <2>1. i \in 1 .. Len(rest) + Len(q) /\ i <= Len(rest)
    BY <1>3, <1>8, <1>9
  <2>2. frontier'[i] = rest[i]
    BY <1>11, <2>1
  <2> QED BY <1>9, <1>12, <2>1, <2>2
<1>14. ASSUME NEW x \in new PROVE \E i \in DOMAIN frontier' : frontier'[i] = x
  <2>1. PICK j \in 1 .. Len(q) : q[j] = x
    BY <1>8
  <2>2. j \in Nat \ {0} /\ j <= Len(q) /\ Len(q) \in Nat
    BY <1>8, <2>1
  <2>3. Len(rest) \in Nat
    BY <1>3, <1>9
  <2>4. Len(rest) + j \in 1 .. Len(rest) + Len(q) /\ ~(Len(rest) + j <= Len(rest)) /\ Len(rest) + j - Len(rest) = j
    BY <2>2, <2>3
  <2>5. frontier'[Len(rest) + j] = x
    BY <1>11, <2>1, <2>4
  <2> QED BY <1>12, <2>4, <2>5
<1>15. ASSUME NEW e \in graph.edges, e.source \in reachable'
       PROVE  \/ e.target \in reachable'
              \/ \E i \in DOMAIN frontier' : frontier'[i] = e.source
  <2>1. CASE e.source \in new
    BY <1>14, <2>1
  <2>2. CASE e.source = current
    BY <1>1, <2>2 DEF Outgoing, new
  <2>3. CASE e.source \in reachable /\ e.source # current
    <3>1. e.target \in reachable \/ \E i \in DOMAIN frontier : frontier[i] = e.source
      BY <1>2, <2>3 DEF Searching
    <3>2. ASSUME NEW i \in DOMAIN frontier, frontier[i] = e.source PROVE i \in 1 .. Len(frontier) - 1
      BY <1>3, <2>3, <3>2
    <3> QED BY <1>1, <1>13, <3>1, <3>2
  <2> QED BY <1>1, <1>15, <2>1, <2>2, <2>3
<1>16. ASSUME NEW S \in SUBSET Ids(graph), CutOff(graph, S) PROVE S \cap reachable' = {}
  <2>1. S \cap reachable = {}
    BY <1>2, <1>16 DEF Searching
  <2>2. ASSUME NEW x \in new, x \in S PROVE FALSE
    <3>1. PICK e \in graph.edges : e.source = current /\ e.target = x
      BY <2>2 DEF new, Outgoing
    <3> QED BY <1>4, <1>16, <2>1, <2>2, <3>1 DEF CutOff
  <2> QED BY <1>1, <2>1, <2>2
<1>17. Searching'
  <2>1. GraphOK(graph)' /\ (reachable \subseteq Ids(graph))' /\ (frontier \in Seq(reachable))'
    BY <1>1, <1>2, <1>5, <1>11 DEF Searching
  <2>2. (\A m \in OfType(graph, "start") : m.id \in reachable)'
    BY <1>1, <1>2 DEF Searching
  <2>3. (\A e \in graph.edges : e.source \in reachable =>
           \/ e.target \in reachable
           \/ \E i \in DOMAIN frontier : frontier[i] = e.source)'
    BY <1>1, <1>15
  <2>4. (\A S \in SUBSET Ids(graph) : CutOff(graph, S) => S \cap reachable = {})'
    BY <1>1, <1>16
  <2> QED BY <2>1, <2>2, <2>3, <2>4 DEF Searching
<1> QED BY <1>1, <1>2, <1>17 DEF GraphInv, AcceptedIsReachable

LEMMA SearchEnds == GraphInv /\ Conclude => GraphInv'
<1> SUFFICES ASSUME GraphInv, Conclude PROVE GraphInv'
  OBVIOUS
<1>1. /\ verdict = "search" /\ frontier = <<>> /\ Searching /\ graph' = graph /\ graph \in Graphs
      /\ verdict' = IF Ids(graph) \subseteq reachable THEN "valid" ELSE "invalid"
  BY DEF Conclude, GraphInv
<1>2. CASE Ids(graph) \subseteq reachable
  <2>1. \A S \in SUBSET Ids(graph) : ~ CutOff(graph, S)
    BY <1>1, <1>2 DEF Searching, CutOff
  <2> QED BY <1>1, <1>2, <2>1 DEF GraphInv, AcceptedIsReachable, Searching
<1>3. CASE ~(Ids(graph) \subseteq reachable)
  <2> DEFINE S == Ids(graph) \ reachable
  <2>1. ASSUME NEW e \in graph.edges, e.target \in S PROVE e.source \in S
    <3>1. e.source \in Ids(graph)
      BY <1>1 DEF Searching, GraphOK, EdgeFits
    <3>2. e.source \notin reachable
      BY <1>1, <2>1 DEF Searching
    <3> QED BY <3>1, <3>2
  <2>2. CutOff(graph, S)
    BY <1>1, <1>3, <2>1 DEF CutOff, Searching
  <2>3. S \in SUBSET Ids(graph)
    OBVIOUS
  <2> HIDE DEF S
  <2> QED BY <1>1, <1>3, <2>2, <2>3 DEF GraphInv, AcceptedIsReachable
<1> QED BY <1>2, <1>3

LEMMA GraphStep == GraphInv /\ [GraphNext]_graphVars => GraphInv'
<1>1. GraphInv /\ RefuseGraph => GraphInv'
  BY DEF RefuseGraph, GraphInv, AcceptedIsReachable
<1>2. GraphInv /\ UNCHANGED graphVars => GraphInv'
  BY DEF graphVars, GraphInv, AcceptedIsReachable, Searching
<1> QED BY <1>1, <1>2, SearchBegins, SearchGoesOn, SearchEnds DEF GraphNext

\* The search accepts a definition exactly when its checks hold and no set of
\* nodes, cycles included, is cut off from the start.
THEOREM ReachableCorrect == GraphSpec => []AcceptedIsReachable
<1>1. GraphInv => AcceptedIsReachable
  BY DEF GraphInv
<1> QED BY <1>1, GraphFirst, GraphStep, PTL DEF GraphSpec
=============================================================================
