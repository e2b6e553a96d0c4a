---------------------------- MODULE Tools_proofs ----------------------------
(* What surrounds the tools: the registry, the way out, image admissions, the*)
(* cleanup schedule, lifecycle rules, trust stores and secret leases.        *)
EXTENDS Egress, ToolRegistry, ImageAdmissions, CleanupSchedule, LifecycleRemediation,
        SecretLeases, TrustStore, FiniteSetTheorems, SequenceTheorems, TLAPS

(***************************************************************************)
(* Egress.                                                                 *)
(***************************************************************************)
Listed(host, port) == /\ environment.hosts # {} => HostMatches(host, environment.hosts)
                      /\ environment.ports # {} => port \in environment.ports

\* A request of the backend on its way passed the lists; a container's has
\* not, and is held to them by the proxy.
EgressInv ==
    /\ environment = NoEnvironment => mcpServers = {} /\ outbound = {} /\ reached = {}
    /\ deployed \in Deployments
    /\ dns \in [Hosts -> SUBSET Address]
    /\ \A q \in outbound : /\ q.by \in {"backend", "container"}
                           /\ q.by = "backend" => Listed(q.target.host, q.target.port)
                           /\ q.target \in Targets
    /\ OnlyListedIsReached

\* Any proxy lets through only what the environment lists, and squid and the
\* manifests no address in the unsafe ranges.
LEMMA ProxyHolds ==
  ASSUME deployed \in Deployments, NEW t, NEW a, ProxyAllows(t, a)
  PROVE  /\ Listed(t.host, t.port)
         /\ deployed \in {"squid", "manifests"} => ~InUnsafeRange(a)
         /\ deployed = "manifests" => ~a.v6
<1>1. CASE deployed \in {"envoy", "manifests"}
  BY <1>1 DEF ProxyAllows, LuaAllows, PolicyLetsOut, Listed
<1>2. CASE deployed = "squid"
  <2>1. ~InUnsafeRange(a) /\ \E w \in BOOLEAN : SquidAllows(t, w)
    BY <1>2 DEF ProxyAllows
  <2>2. HostMatches(t.host, environment.hosts) /\ t.port \in environment.ports
    BY <2>1 DEF SquidAllows, HostMatches
  <2> QED BY <1>2, <2>1, <2>2 DEF Listed
<1> QED BY <1>1, <1>2 DEF Deployments

LEMMA EgressFirst == EgressInit => EgressInv
  BY DEF EgressInit, EgressInv, OnlyListedIsReached, Address, AddressKinds

LEMMA RequestSent ==
  ASSUME EgressInv, NEW c \in {"backend", "container"}, NEW t \in Targets, NEW route, Send(c, t, route),
         environment # NoEnvironment, c = "backend" => Listed(t.host, t.port)
  PROVE  EgressInv'
<1>1. /\ outbound' = {[by |-> c, route |-> route, target |-> t]} /\ reached' = {}
      /\ environment' = environment /\ deployed' = deployed /\ dns' = dns
  BY DEF Send
<1> QED BY <1>1 DEF EgressInv, OnlyListedIsReached, Listed

LEMMA EgressStep == EgressInv /\ [EgressNext]_egressVars => EgressInv'
<1> SUFFICES ASSUME EgressInv, [EgressNext]_egressVars PROVE EgressInv'
  OBVIOUS
<1>1. CASE UNCHANGED egressVars \/ ProxyStopsOrStarts \/ (\E h \in Hosts : Resolves(h))
  BY <1>1, AnswersAreAddresses DEF egressVars, ProxyStopsOrStarts, Resolves, EgressInv, OnlyListedIsReached, Listed
<1>2. ASSUME NEW e \in Environments, CreateEnvironment(e) PROVE EgressInv'
  BY <1>2 DEF CreateEnvironment, EgressInv, OnlyListedIsReached
<1>3. ASSUME NEW t \in Targets, RegisterServer(t) PROVE EgressInv'
  BY <1>3 DEF RegisterServer, PlanAllowed, EgressInv, OnlyListedIsReached, Listed
<1>4. ASSUME NEW t \in Targets, NEW network \in BOOLEAN, PlanAllowed(t, network)
      PROVE  Listed(t.host, t.port) /\ environment # NoEnvironment
  BY <1>4 DEF PlanAllowed, ValidTarget, PortAllowed, Listed
<1>5. ASSUME NEW t \in Targets, CallServer(t) \/ RunHttp(t) PROVE EgressInv'
  <2>1. \E network \in BOOLEAN : PlanAllowed(t, network)
    BY <1>5 DEF CallServer, RunHttp
  <2>2. Send("backend", t, BackendRoute)
    BY <1>5 DEF CallServer, RunHttp
  <2> QED BY <1>4, <2>1, <2>2, RequestSent
<1>6. ASSUME NEW t \in Targets, NEW route \in {"direct", "proxy"}, ContainerSends(t, route) PROVE EgressInv'
  BY <1>6, RequestSent DEF ContainerSends
<1>7. ASSUME NEW q \in outbound, ConnectDirectly(q) PROVE EgressInv'
  <2>1. /\ q.route = "direct" /\ environment # NoEnvironment
        /\ q.by = "backend" => Listed(q.target.host, q.target.port)
        /\ q.by = "container" => deployed # "manifests"
        /\ q.by \in {"backend", "container"}
    BY <1>7 DEF ConnectDirectly, LeavesDirectly, EgressInv
  <2>2. PICK a \in dns[q.target.host] : Reach(q, a)
    BY <1>7 DEF ConnectDirectly
  <2>3. /\ reached' = {[by |-> q.by, route |-> q.route, host |-> q.target.host,
                        port |-> q.target.port, address |-> a]}
        /\ outbound' = {} /\ environment' = environment /\ deployed' = deployed /\ dns' = dns
    BY <1>7, <2>2 DEF ConnectDirectly, Reach, Ends
  <2>4. OnlyListedIsReached'
    <3>1. ASSUME NEW x \in reached'
          PROVE  /\ x.by = q.by /\ x.route = "direct"
                 /\ x.host = q.target.host /\ x.port = q.target.port
      BY <2>1, <2>3
    <3> QED BY <2>1, <2>3, <3>1 DEF OnlyListedIsReached, Listed, HostMatches
  <2> QED BY <2>1, <2>3, <2>4 DEF EgressInv
<1>8. ASSUME NEW q \in outbound, ConnectByProxy(q) PROVE EgressInv'
  <2>1. PICK a \in dns[q.target.host] : ProxyAllows(q.target, a) /\ Reach(q, a)
    BY <1>8 DEF ConnectByProxy
  <2>2. /\ Listed(q.target.host, q.target.port) /\ q.route = "proxy"
        /\ deployed \in {"squid", "manifests"} => ~InUnsafeRange(a)
        /\ deployed = "manifests" => ~a.v6
    BY <1>8, <2>1, ProxyHolds DEF ConnectByProxy, EgressInv
  <2>3. /\ reached' = {[by |-> q.by, route |-> q.route, host |-> q.target.host,
                        port |-> q.target.port, address |-> a]}
        /\ outbound' = {} /\ environment' = environment /\ deployed' = deployed /\ dns' = dns
    BY <1>8, <2>1 DEF ConnectByProxy, Reach, Ends
  <2>4. environment # NoEnvironment
    BY <1>8 DEF EgressInv
  <2>5. deployed = "manifests" => a.kind \in {"public", "special", "unspecified"}
    <3>1. q.target.host \in Hosts
      BY <1>8 DEF EgressInv, Targets
    <3>2. a \in Address
      BY <2>1, <3>1 DEF EgressInv
    <3> QED BY <2>2, <3>2 DEF Address, AddressKinds, InUnsafeRange
  <2>6. OnlyListedIsReached'
    <3>1. ASSUME NEW x \in reached'
          PROVE  /\ x.route = "proxy"
                 /\ x.host = q.target.host /\ x.port = q.target.port /\ x.address = a
      BY <2>2, <2>3
    <3> HIDE DEF InUnsafeRange
    <3> QED BY <2>2, <2>3, <2>5, <3>1 DEF OnlyListedIsReached, Listed, HostMatches
  <2> QED BY <2>3, <2>4, <2>6 DEF EgressInv
<1>9. ASSUME NEW q \in outbound, RefuseRequest(q) PROVE EgressInv'
  BY <1>9 DEF RefuseRequest, Ends, EgressInv, OnlyListedIsReached
<1> QED BY <1>1, <1>2, <1>3, <1>5, <1>6, <1>7, <1>8, <1>9 DEF EgressNext

\* Whatever names resolve to and whenever that changes, the backend and what
\* goes by the proxy reach nothing that the environment does not list, and
\* behind the manifests neither does a container.
THEOREM EgressCorrect == EgressSpec => []OnlyListedIsReached
<1>1. EgressInv => OnlyListedIsReached
  BY DEF EgressInv
<1> QED BY <1>1, EgressFirst, EgressStep, PTL DEF EgressSpec

(***************************************************************************)
(* ToolRegistry.                                                           *)
(***************************************************************************)
DefinitionRow == [status : {"none", "active", "stale"}, risk : Nat, version : Nat]
Statuses == {"never", "failed", "success"}
SyncRow == [at : {"idle", "list", "read", "write"}, version : Nat, status : Statuses,
            listing : Listings \cup {NoListing}, copy : [ToolNames -> DefinitionRow]]

RegistryInv ==
    /\ toolDefs \in [ToolNames -> DefinitionRow]
    /\ serverSync \in [version : Nat, status : Statuses]
    /\ syncs \in [Syncs -> SyncRow]

LEMMA RegistryFirst == RegistryInit => RegistryInv
  BY DEF RegistryInit, RegistryInv, NoDefs, NoDefinition, DefinitionRow, NeverSynced, NoSync, SyncRow, Statuses

\* A row keeps its shape, and one that nothing else wrote is exact.
LEMMA UpsertedRow ==
  ASSUME NEW row \in DefinitionRow, NEW old \in DefinitionRow, NEW t \in ToolNames,
         NEW listing \in Listings \cup {NoListing}, NEW version \in Nat
  PROVE  /\ Upserted(row, old, t, listing, version) \in DefinitionRow
         /\ row = old =>
              /\ Upserted(row, old, t, listing, version).status = "active" <=> t \in DOMAIN listing
              /\ t \in DOMAIN listing => Upserted(row, old, t, listing, version).risk = listing[t]
<1>1. t \in DOMAIN listing => listing[t] \in Nat
  BY ListingsAreRisks DEF NoListing, ToolRisks
<1>2. CASE t \in DOMAIN listing
  BY <1>1, <1>2 DEF Upserted, DefinitionRow
<1>3. CASE t \notin DOMAIN listing
  BY <1>3 DEF Upserted, DefinitionRow
<1> QED BY <1>2, <1>3

LEMMA RegistryStep == RegistryInv /\ [RegistryNext]_registryVars => RegistryInv'
<1> SUFFICES ASSUME RegistryInv, [RegistryNext]_registryVars PROVE RegistryInv'
  OBVIOUS
<1>0. NoSync \in SyncRow
  BY DEF NoSync, SyncRow, NoDefs, NoDefinition, DefinitionRow, Statuses
<1>1. ASSUME NEW s \in Syncs,
             \/ StartSync(s) \/ FailSync(s) \/ ReadDefinitions(s) \/ LoseSync(s)
             \/ \E l \in Listings : ListTools(s, l)
      PROVE  RegistryInv'
  <2>1. syncs' \in [Syncs -> SyncRow]
    <3> DEFINE started == [syncs[s] EXCEPT !.at = "list", !.version = serverSync.version + 1, !.status = serverSync.status]
               read == [syncs[s] EXCEPT !.at = "write", !.copy = toolDefs]
               listed(l) == [syncs[s] EXCEPT !.at = "read", !.listing = l]
    <3>1. /\ syncs \in [Syncs -> SyncRow] /\ syncs[s] \in SyncRow
          /\ toolDefs \in [ToolNames -> DefinitionRow] /\ serverSync.version + 1 \in Nat
          /\ serverSync.status \in Statuses
      BY DEF RegistryInv
    <3>2. started \in SyncRow /\ read \in SyncRow /\ \A l \in Listings : listed(l) \in SyncRow
      BY <3>1 DEF SyncRow
    <3>3. \/ syncs' = [syncs EXCEPT ![s] = started]
          \/ syncs' = [syncs EXCEPT ![s] = read]
          \/ syncs' = [syncs EXCEPT ![s] = NoSync]
          \/ \E l \in Listings : syncs' = [syncs EXCEPT ![s] = listed(l)]
      BY <1>1 DEF StartSync, FailSync, ReadDefinitions, LoseSync, ListTools
    <3> HIDE DEF started, read, listed
    <3> QED BY <1>0, <3>1, <3>2, <3>3
  <2>2. serverSync' \in [version : Nat, status : Statuses]
    BY <1>1 DEF StartSync, FailSync, ReadDefinitions, LoseSync, ListTools, RegistryInv, SyncStatus, Statuses
  <2> QED BY <1>1, <2>1, <2>2 DEF StartSync, FailSync, ReadDefinitions, LoseSync, ListTools, RegistryInv
<1>2. ASSUME NEW s \in Syncs, CommitSync(s) PROVE RegistryInv'
  <2>1. syncs' \in [Syncs -> SyncRow]
    BY <1>0, <1>2 DEF CommitSync, RegistryInv
  <2>2. syncs[s] \in SyncRow
    BY DEF RegistryInv
  <2>3. ASSUME NEW t \in ToolNames
        PROVE  Upserted(toolDefs[t], syncs[s].copy[t], t, syncs[s].listing, syncs[s].version) \in DefinitionRow
    BY <2>2, UpsertedRow DEF RegistryInv, SyncRow
  <2>4. toolDefs' \in [ToolNames -> DefinitionRow]
    BY <1>2, <2>3 DEF CommitSync, RegistryInv
  <2>5. serverSync' \in [version : Nat, status : Statuses]
    BY <1>2, <2>2 DEF CommitSync, RegistryInv, SyncRow, SyncStatus, Statuses
  <2> QED BY <1>2, <2>1, <2>4, <2>5 DEF CommitSync, RegistryInv
<1>3. ASSUME NEW t \in ToolNames, CreateItem(t) \/ ArchiveItem(t) PROVE RegistryInv'
  BY <1>3 DEF CreateItem, ArchiveItem, RegistryInv
<1>4. CASE UNCHANGED registryVars
  BY <1>4 DEF registryVars, RegistryInv
<1> QED BY <1>1, <1>2, <1>3, <1>4 DEF RegistryNext

\* A synchronisation that nothing overlaps while it writes leaves authorized
\* exactly the grouped tools the server listed, at the risk it listed.
THEOREM SyncCorrect == RegistrySpec => SyncIsExact
<1>1. ASSUME RegistryInv, NEW s \in Syncs, CommitSync(s), syncs[s].copy = toolDefs
      PROVE  LET listing == syncs[s].listing
             IN  /\ AuthorizedTools' = {t \in DOMAIN listing : groupItems[t].status = "active"}
                 /\ \A t \in DOMAIN listing : toolDefs'[t].risk = listing[t]
  <2> DEFINE listing == syncs[s].listing
             new(t)  == Upserted(toolDefs[t], syncs[s].copy[t], t, listing, syncs[s].version)
  <2>1. syncs[s] \in SyncRow
    BY <1>1 DEF RegistryInv
  <2>2. ~InsertConflict(s)
    BY <1>1 DEF InsertConflict
  <2>3. toolDefs' = [t \in ToolNames |-> new(t)] /\ groupItems' = groupItems
    BY <1>1, <2>2 DEF CommitSync
  <2>4. ASSUME NEW t \in ToolNames
        PROVE  /\ new(t).status = "active" <=> t \in DOMAIN listing
               /\ t \in DOMAIN listing => new(t).risk = listing[t]
    <3>1. toolDefs[t] \in DefinitionRow /\ syncs[s].copy[t] = toolDefs[t]
      BY <1>1 DEF RegistryInv
    <3>2. listing \in Listings \cup {NoListing} /\ syncs[s].version \in Nat
      BY <2>1 DEF SyncRow
    <3> QED BY <3>1, <3>2, UpsertedRow
  <2>5. DOMAIN listing \subseteq ToolNames
    BY <2>1, ListingsAreRisks DEF SyncRow, NoListing
  <2> HIDE DEF new, listing
  <2>6. \A t \in ToolNames : toolDefs'[t].status = "active" <=> t \in DOMAIN listing
    BY <2>3, <2>4
  <2>7. \A t \in DOMAIN listing : toolDefs'[t].risk = listing[t]
    BY <2>3, <2>4, <2>5
  <2>8. AuthorizedTools' = {t \in DOMAIN listing : groupItems[t].status = "active"}
    BY <2>3, <2>5, <2>6 DEF AuthorizedTools
  <2> QED BY <2>7, <2>8 DEF listing
<1>2. RegistryInv /\ [RegistryNext]_registryVars =>
        [\A s \in Syncs : CommitSync(s) /\ syncs[s].copy = toolDefs
          => LET listing == syncs[s].listing
             IN  /\ AuthorizedTools' = {t \in DOMAIN listing : groupItems[t].status = "active"}
                 /\ \A t \in DOMAIN listing : toolDefs'[t].risk = listing[t]]_registryVars
  BY <1>1
<1> QED BY <1>2, RegistryFirst, RegistryStep, PTL DEF RegistrySpec, SyncIsExact

(***************************************************************************)
(* ImageAdmissions.                                                        *)
(***************************************************************************)
EvidenceRow == [Reports -> [artifact : Nat, cleanup : {"pending", "deleted", "delete_failed"}]]
AdmissionRow == [decision : {"none", "approved", "rejected", "would_reject"}, registry_digest : Digests,
                 digest_match : BOOLEAN, signature : Checks, sbom : Checks, vulnerabilities : Checks,
                 evidence : EvidenceRow]
ResolveRow == [at : {"idle", "collect", "select", "commit", "done"}, policy : ImagePolicies,
               found : AdmissionRow, copy : AdmissionRow]
CleaningRow == [at : {"idle", "delete", "update", "commit"}, evidence : EvidenceRow, todo : Seq(Reports),
                copy : EvidenceRow]

\* Evidence names reports among the first n written, and says "deleted" only
\* of those that are not kept.
Truthful(evidence, kept, n) ==
    \A k \in Reports : /\ evidence[k].artifact <= n
                       /\ evidence[k].cleanup = "deleted" => evidence[k].artifact \notin kept

\* A verdict with nothing that failed.
Clean(a) == a.digest_match /\ "failed" \notin {a.signature, a.sbom, a.vulnerabilities}

\* What a request found: an approval is one of nothing that failed.
SoundRow(a, kept, n) == Truthful(a.evidence, kept, n) /\ (a.decision = "approved" => Clean(a))

SomeApproved == \E v \in verdicts : v.decision = "approved"

\* What remains of a cleanup is due.
Proper(c, kept, n, over) ==
    /\ Truthful(c.evidence, kept, n)
    /\ \A i \in 1 .. Len(c.todo) : c.evidence[c.todo[i]].artifact \in over
    /\ c.at # "idle" => c.todo # <<>>

ImageTypeOK ==
    /\ imagePolicy \in ImagePolicies
    /\ admission \in AdmissionRow
    /\ written \in Nat
    /\ objects \subseteq 1 .. written
    /\ expired \subseteq 1 .. written
    /\ resolving \in [Resolvers -> ResolveRow]
    /\ cleaning \in [Cleaners -> CleaningRow]

\* The row may mix what several requests found, but never says approved when
\* none of them did; nor does a template made from it.
ImageInv ==
    /\ ImageTypeOK
    /\ Truthful(admission.evidence, objects, written)
    /\ admission.decision = "approved" => SomeApproved
    /\ \A r \in Resolvers : SoundRow(resolving[r].found, objects, written)
    /\ \A c \in Cleaners : Proper(cleaning[c], objects, written, expired)
    /\ \A v \in verdicts : v.decision = "approved" => Clean(v)
    /\ template.row.decision = "approved" => SomeApproved

LEMMA EmptyRows ==
  ASSUME NEW p \in ImagePolicies
  PROVE  /\ NoAdmission \in AdmissionRow /\ NoResolve \in ResolveRow /\ DoneResolve \in ResolveRow
         /\ DoneResolve.found = NoAdmission /\ NoEvidence \in EvidenceRow /\ NoCleaning \in CleaningRow
<1>1. NoEvidence \in EvidenceRow
  BY DEF NoEvidence, NoReport, EvidenceRow
<1>2. NoAdmission \in AdmissionRow
  BY <1>1 DEF NoAdmission, AdmissionRow, Digests, Checks
<1>3. (CHOOSE q \in ImagePolicies : TRUE) \in ImagePolicies
  OBVIOUS
<1>4. NoResolve \in ResolveRow
  BY <1>2, <1>3 DEF NoResolve, ResolveRow
<1>5. NoCleaning \in CleaningRow
  BY <1>1, EmptySeq DEF NoCleaning, CleaningRow
<1>6. DoneResolve \in ResolveRow /\ DoneResolve.found = NoAdmission
  BY <1>2, <1>3 DEF DoneResolve, NoResolve, ResolveRow
<1> QED BY <1>1, <1>2, <1>4, <1>5, <1>6

\* Nothing is claimed by rows without evidence.
LEMMA NothingClaimed ==
  ASSUME NEW n \in Nat, NEW kept, NEW over
  PROVE  /\ SoundRow(NoAdmission, kept, n) /\ SoundRow(NoResolve.found, kept, n)
         /\ SoundRow(DoneResolve.found, kept, n) /\ Truthful(NoAdmission.evidence, kept, n)
         /\ Proper(NoCleaning, kept, n, over)
         /\ NoAdmission.decision = "none" /\ NoTemplate.row.decision = "not_required"
<1>1. Truthful(NoEvidence, kept, n)
  BY DEF Truthful, NoEvidence, NoReport
<1>2. Proper(NoCleaning, kept, n, over)
  BY <1>1 DEF Proper, NoCleaning
<1>3. /\ NoAdmission.evidence = NoEvidence /\ NoAdmission.decision = "none"
      /\ NoResolve.found = NoAdmission /\ DoneResolve.found = NoAdmission
  BY DEF NoAdmission, NoResolve, DoneResolve
<1>4. NoTemplate.row.decision = "not_required"
  BY DEF NoTemplate, VerdictOf
<1> QED BY <1>1, <1>2, <1>3, <1>4 DEF SoundRow

LEMMA ImageFirst == ImageInit => ImageInv
<1> SUFFICES ASSUME ImageInit PROVE ImageInv
  OBVIOUS
<1>1. ImageTypeOK
  BY EmptyRows DEF ImageInit, ImageTypeOK
<1>2. written \in Nat
  BY DEF ImageInit
<1> QED BY <1>1, <1>2, NothingClaimed DEF ImageInit, ImageInv

\* Reports that leave the store, and reports with new numbers, contradict no
\* evidence.
LEMMA StaysTruthful ==
  ASSUME NEW evidence \in EvidenceRow, NEW kept, NEW more, NEW m \in Nat, NEW n \in Nat,
         Truthful(evidence, kept, m), m <= n, more \subseteq kept \cup (m + 1 .. n)
  PROVE  Truthful(evidence, more, n)
<1>1. ASSUME NEW k \in Reports
      PROVE  /\ evidence[k].artifact <= n
             /\ evidence[k].cleanup = "deleted" => evidence[k].artifact \notin more
  <2>1. evidence[k].artifact \in Nat /\ evidence[k].artifact <= m
    BY DEF EvidenceRow, Truthful
  <2>2. evidence[k].artifact \notin m + 1 .. n
    BY <2>1
  <2> QED BY <2>1, <2>2 DEF Truthful
<1> QED BY <1>1 DEF Truthful

\* So the rows stay sound as the store and the retention move on.
LEMMA RowsStaySound ==
  ASSUME NEW kept, NEW more, NEW m \in Nat, NEW n \in Nat, m <= n,
         more \subseteq kept \cup (m + 1 .. n), NEW over, NEW later, over \subseteq later
  PROVE  /\ \A a \in AdmissionRow : SoundRow(a, kept, m) => SoundRow(a, more, n)
         /\ \A c \in CleaningRow : Proper(c, kept, m, over) => Proper(c, more, n, later)
<1>1. ASSUME NEW a \in AdmissionRow, SoundRow(a, kept, m) PROVE SoundRow(a, more, n)
  <2>1. a.evidence \in EvidenceRow
    BY DEF AdmissionRow
  <2> QED BY <1>1, <2>1, StaysTruthful DEF SoundRow
<1>2. ASSUME NEW c \in CleaningRow, Proper(c, kept, m, over) PROVE Proper(c, more, n, later)
  <2>1. c.evidence \in EvidenceRow
    BY DEF CleaningRow
  <2>2. Truthful(c.evidence, more, n)
    BY <1>2, <2>1, StaysTruthful DEF Proper
  <2> QED BY <1>2, <2>2 DEF Proper
<1> QED BY <1>1, <1>2

\* A step that leaves the rows as they are, or takes some of them back to the
\* start, and lets reports leave the store and retentions end.
LEMMA RowsKept ==
  ASSUME ImageInv, UNCHANGED <<admission, written, template, verdicts>>,
         imagePolicy' \in ImagePolicies, objects' \subseteq objects,
         expired \subseteq expired', expired' \subseteq 1 .. written,
         resolving' \in [Resolvers -> ResolveRow], cleaning' \in [Cleaners -> CleaningRow],
         \A r \in Resolvers : resolving'[r].found = resolving[r].found \/ resolving'[r] = DoneResolve,
         \A c \in Cleaners : cleaning'[c] = cleaning[c] \/ cleaning'[c] = NoCleaning
  PROVE  ImageInv'
<1>1. ImageTypeOK'
  BY DEF ImageInv, ImageTypeOK
<1>2. written \in Nat /\ written <= written /\ objects' \subseteq objects \cup (written + 1 .. written)
  BY DEF ImageInv, ImageTypeOK
<1>3. /\ \A a \in AdmissionRow : SoundRow(a, objects, written) => SoundRow(a, objects', written)
      /\ \A c \in CleaningRow : Proper(c, objects, written, expired) => Proper(c, objects', written, expired')
  BY <1>2, RowsStaySound
<1>4. Truthful(admission.evidence, objects', written)
  <2>1. admission.evidence \in EvidenceRow
    BY DEF ImageInv, ImageTypeOK, AdmissionRow
  <2> QED BY <1>2, <2>1, StaysTruthful DEF ImageInv
<1>5. ASSUME NEW r \in Resolvers PROVE SoundRow(resolving'[r].found, objects', written)
  <2>1. resolving[r].found \in AdmissionRow /\ SoundRow(resolving[r].found, objects, written)
    BY DEF ImageInv, ImageTypeOK, ResolveRow
  <2> QED BY <1>2, <1>3, <2>1, NothingClaimed
<1>6. ASSUME NEW c \in Cleaners PROVE Proper(cleaning'[c], objects', written, expired')
  <2>1. cleaning[c] \in CleaningRow /\ Proper(cleaning[c], objects, written, expired)
    BY DEF ImageInv, ImageTypeOK
  <2> QED BY <1>2, <1>3, <2>1, NothingClaimed
<1> QED BY <1>1, <1>4, <1>5, <1>6 DEF ImageInv, SomeApproved

LEMMA EasySteps ==
  ASSUME ImageInv,
         \/ UNCHANGED imageVars
         \/ \E p \in ImagePolicies : SetImagePolicy(p)
         \/ \E r \in Resolvers : StartResolve(r) \/ SelectAdmission(r) \/ LoseResolve(r)
         \/ \E a \in Artifacts : Expires(a) \/ BucketExpires(a)
         \/ \E c \in Cleaners : LoseCleanup(c)
         \/ \E risky, listed \in BOOLEAN : CreateTemplate(risky, listed)
  PROVE  ImageInv'
<1> USE DEF ImageInv, ImageTypeOK
<1>1. CASE UNCHANGED imageVars \/ \E p \in ImagePolicies : SetImagePolicy(p)
  BY <1>1, RowsKept DEF imageVars, SetImagePolicy
<1>2. ASSUME NEW r \in Resolvers, StartResolve(r) \/ SelectAdmission(r) \/ LoseResolve(r) PROVE ImageInv'
  <2>1. resolving' \in [Resolvers -> ResolveRow]
    BY <1>2, EmptyRows DEF StartResolve, SelectAdmission, LoseResolve, ResolveRow
  <2>2. \A q \in Resolvers : resolving'[q].found = resolving[q].found \/ resolving'[q] = DoneResolve
    BY <1>2 DEF StartResolve, SelectAdmission, LoseResolve, ResolveRow
  <2> QED BY <1>2, <2>1, <2>2, RowsKept DEF StartResolve, SelectAdmission, LoseResolve
<1>3. ASSUME NEW a \in Artifacts, Expires(a) \/ BucketExpires(a) PROVE ImageInv'
  BY <1>3, RowsKept DEF Expires, BucketExpires
<1>4. ASSUME NEW c \in Cleaners, LoseCleanup(c) PROVE ImageInv'
  BY <1>4, EmptyRows, RowsKept DEF LoseCleanup
<1>5. ASSUME NEW risky \in BOOLEAN, NEW listed \in BOOLEAN, CreateTemplate(risky, listed) PROVE ImageInv'
  <2>1. template'.row.decision = "approved" => admission.decision = "approved"
    BY <1>5, NothingClaimed DEF CreateTemplate, VerdictOf, NoTemplate
  <2> QED BY <1>5, <2>1 DEF CreateTemplate, SomeApproved
<1> QED BY <1>1, <1>2, <1>3, <1>4, <1>5

\* A commit writes columns found by this request over those of the row: what
\* is approved was approved by one of the two, and the evidence is that of one.
LEMMA CommitStep ==
  ASSUME ImageInv, NEW r \in Resolvers, NEW rewritten \in BOOLEAN, CommitAdmission(r, rewritten)
  PROVE  ImageInv'
<1> DEFINE new == resolving[r].found
           column(f) == Flushed(new[f], resolving[r].copy[f], admission[f])
           evidence == FlushedEvidence(new.evidence, resolving[r].copy.evidence, admission.evidence, rewritten)
<1>1. /\ new \in AdmissionRow /\ admission \in AdmissionRow /\ SoundRow(new, objects, written)
      /\ Truthful(admission.evidence, objects, written)
  BY DEF ImageInv, ImageTypeOK, ResolveRow
<1>2. /\ admission' = [decision |-> column("decision"), registry_digest |-> column("registry_digest"),
                       digest_match |-> column("digest_match"), signature |-> column("signature"),
                       sbom |-> column("sbom"), vulnerabilities |-> column("vulnerabilities"),
                       evidence |-> evidence]
      /\ verdicts' = verdicts \cup {VerdictOf(new)}
      /\ resolving' = [resolving EXCEPT ![r] = DoneResolve]
  BY DEF CommitAdmission
<1>3. /\ \A f : column(f) = new[f] \/ column(f) = admission[f]
      /\ evidence = new.evidence \/ evidence = admission.evidence
  BY DEF Flushed, FlushedEvidence
<1> HIDE DEF new, column, evidence
<1>4. admission' \in AdmissionRow /\ Truthful(admission'.evidence, objects, written)
  BY <1>1, <1>2, <1>3 DEF AdmissionRow, SoundRow
<1>5. /\ \A v \in verdicts' : v.decision = "approved" => Clean(v)
      /\ new.decision = "approved" => SomeApproved'
      /\ SomeApproved => SomeApproved'
  <2>1. /\ VerdictOf(new).decision = new.decision
        /\ new.decision = "approved" => Clean(VerdictOf(new))
    BY <1>1 DEF SoundRow, VerdictOf, Clean
  <2> DEFINE verdict == VerdictOf(new)
  <2>2. verdicts' = verdicts \cup {verdict} /\ (\A v \in verdicts : v.decision = "approved" => Clean(v))
    BY <1>2 DEF ImageInv
  <2> HIDE DEF verdict
  <2>3. verdict.decision = new.decision /\ (verdict.decision = "approved" => Clean(verdict))
    BY <2>1 DEF verdict
  <2> QED BY <2>2, <2>3 DEF SomeApproved
<1>6. admission'.decision = "approved" => SomeApproved'
  <2>1. admission'.decision = column("decision")
    BY <1>2
  <2>2. admission'.decision = new.decision \/ admission'.decision = admission.decision
    BY <1>3, <2>1
  <2> QED BY <1>5, <2>2 DEF ImageInv
<1>7. resolving' \in [Resolvers -> ResolveRow]
  BY <1>2, EmptyRows DEF ImageInv, ImageTypeOK
<1>8. ImageTypeOK'
  BY <1>4, <1>7 DEF CommitAdmission, ImageInv, ImageTypeOK
<1>9. ASSUME NEW q \in Resolvers PROVE SoundRow(resolving'[q].found, objects, written)
  BY <1>2, NothingClaimed DEF ImageInv, ImageTypeOK
<1> QED BY <1>4, <1>5, <1>6, <1>8, <1>9 DEF CommitAdmission, ImageInv

\* The reports to clean up are those whose retention is over.
LEMMA CandidatesAreDue ==
  ASSUME NEW evidence
  PROVE  /\ Candidates(evidence) \in Seq(Reports)
         /\ \A i \in 1 .. Len(Candidates(evidence)) :
               evidence[Candidates(evidence)[i]].artifact \in expired
<1> DEFINE part(k) == IF RetentionOver(evidence[k]) THEN <<k>> ELSE <<>>
<1>1. ASSUME NEW k \in Reports
      PROVE  /\ part(k) \in Seq(Reports) /\ Len(part(k)) \in {0, 1}
             /\ \A i \in 1 .. Len(part(k)) : part(k)[i] = k /\ evidence[k].artifact \in expired
  <2>1. CASE RetentionOver(evidence[k])
    BY <2>1 DEF RetentionOver
  <2>2. CASE ~RetentionOver(evidence[k])
    <3>1. part(k) = <<>>
      BY <2>2
    <3> QED BY <3>1, EmptySeq
  <2> QED BY <2>1, <2>2
<1> HIDE DEF part
<1>2. "sbom" \in Reports /\ "vulnerabilities" \in Reports
  BY DEF Reports
<1> DEFINE s == part("sbom")
           v == part("vulnerabilities")
<1>3. /\ s \in Seq(Reports) /\ Len(s) \in {0, 1} /\ v \in Seq(Reports) /\ Len(v) \in {0, 1}
      /\ \A i \in 1 .. Len(s) : s[i] = "sbom" /\ evidence["sbom"].artifact \in expired
      /\ \A i \in 1 .. Len(v) : v[i] = "vulnerabilities" /\ evidence["vulnerabilities"].artifact \in expired
  BY <1>1, <1>2
<1>4. Candidates(evidence) = s \o v
  BY DEF Candidates, part
<1> HIDE DEF s, v
<1>5. /\ s \o v \in Seq(Reports) /\ Len(s \o v) = Len(s) + Len(v)
      /\ \A i \in 1 .. Len(s) + Len(v) : (s \o v)[i] = IF i <= Len(s) THEN s[i] ELSE v[i - Len(s)]
  BY <1>3, ConcatProperties
<1>6. ASSUME NEW i \in 1 .. Len(s) + Len(v) PROVE evidence[(s \o v)[i]].artifact \in expired
  <2>1. CASE i <= Len(s)
    <3>1. i \in 1 .. Len(s)
      BY <1>3, <2>1
    <3> QED BY <1>3, <1>5, <2>1, <3>1
  <2>2. CASE ~(i <= Len(s))
    <3>1. i - Len(s) \in 1 .. Len(v)
      BY <1>3, <2>2
    <3> QED BY <1>3, <1>5, <2>2, <3>1
  <2> QED BY <2>1, <2>2
<1> QED BY <1>4, <1>5, <1>6

\* A step of one cleanup that takes reports out of the store.
LEMMA CleaningMoves ==
  ASSUME ImageInv, NEW c \in Cleaners, NEW row \in CleaningRow,
         cleaning' = [cleaning EXCEPT ![c] = row],
         UNCHANGED <<imagePolicy, written, expired, resolving, template, verdicts>>,
         objects' \subseteq objects, admission' \in AdmissionRow, admission'.decision = admission.decision,
         Truthful(admission'.evidence, objects', written), Proper(row, objects', written, expired)
  PROVE  ImageInv'
<1>1. ImageTypeOK'
  BY DEF ImageInv, ImageTypeOK
<1>2. written \in Nat /\ written <= written /\ objects' \subseteq objects \cup (written + 1 .. written)
  BY DEF ImageInv, ImageTypeOK
<1>3. /\ \A a \in AdmissionRow : SoundRow(a, objects, written) => SoundRow(a, objects', written)
      /\ \A d \in CleaningRow : Proper(d, objects, written, expired) => Proper(d, objects', written, expired)
  BY <1>2, RowsStaySound
<1>4. ASSUME NEW r \in Resolvers PROVE SoundRow(resolving'[r].found, objects', written)
  BY <1>3 DEF ImageInv, ImageTypeOK, ResolveRow
<1>5. ASSUME NEW d \in Cleaners PROVE Proper(cleaning'[d], objects', written, expired)
  BY <1>3 DEF ImageInv, ImageTypeOK
<1> QED BY <1>1, <1>4, <1>5 DEF ImageInv, SomeApproved

LEMMA StartCleanupStep ==
  ASSUME ImageInv, NEW c \in Cleaners, StartCleanup(c)
  PROVE  ImageInv'
<1> DEFINE todo == Candidates(admission.evidence)
           row  == [NoCleaning EXCEPT !.at = "delete", !.evidence = admission.evidence, !.todo = todo]
<1>1. /\ admission \in AdmissionRow /\ admission.evidence \in EvidenceRow
      /\ Truthful(admission.evidence, objects, written) /\ NoCleaning \in CleaningRow
  BY EmptyRows DEF ImageInv, ImageTypeOK, AdmissionRow
<1>2. /\ todo \in Seq(Reports) /\ todo # <<>>
      /\ \A i \in 1 .. Len(todo) : admission.evidence[todo[i]].artifact \in expired
  BY CandidatesAreDue DEF StartCleanup
<1>3. cleaning' = [cleaning EXCEPT ![c] = row]
  BY DEF StartCleanup
<1> HIDE DEF todo
<1>4. row \in CleaningRow /\ row.at = "delete" /\ row.evidence = admission.evidence /\ row.todo = todo
  BY <1>1, <1>2 DEF CleaningRow
<1> HIDE DEF row
<1>5. Proper(row, objects, written, expired)
  BY <1>1, <1>2, <1>4 DEF Proper
<1> QED BY <1>1, <1>3, <1>4, <1>5, CleaningMoves DEF StartCleanup

LEMMA SelectEvidenceStep ==
  ASSUME ImageInv, NEW c \in Cleaners, SelectEvidence(c)
  PROVE  ImageInv'
<1> DEFINE row == [cleaning[c] EXCEPT !.at = "commit", !.copy = admission.evidence]
<1>1. /\ admission \in AdmissionRow /\ admission.evidence \in EvidenceRow /\ cleaning[c] \in CleaningRow
      /\ cleaning[c].at = "update" /\ Proper(cleaning[c], objects, written, expired)
      /\ Truthful(admission.evidence, objects, written)
  BY DEF ImageInv, ImageTypeOK, AdmissionRow, SelectEvidence
<1>2. cleaning' = [cleaning EXCEPT ![c] = row]
  BY DEF SelectEvidence, ImageInv, ImageTypeOK
<1>3. row \in CleaningRow /\ row.evidence = cleaning[c].evidence /\ row.todo = cleaning[c].todo
  BY <1>1 DEF CleaningRow
<1> HIDE DEF row
<1>4. Proper(row, objects, written, expired)
  BY <1>1, <1>3 DEF Proper
<1> QED BY <1>1, <1>2, <1>3, <1>4, CleaningMoves DEF SelectEvidence

LEMMA CommitEvidenceStep ==
  ASSUME ImageInv, NEW c \in Cleaners, NEW rewritten \in BOOLEAN, CommitEvidence(c, rewritten)
  PROVE  ImageInv'
<1> DEFINE rest == Tail(cleaning[c].todo)
           new  == FlushedEvidence(cleaning[c].evidence, cleaning[c].copy, admission.evidence, rewritten)
           row  == IF rest = <<>> THEN NoCleaning
                   ELSE [cleaning[c] EXCEPT !.at = "delete", !.todo = rest, !.copy = NoEvidence]
<1>1. /\ admission \in AdmissionRow /\ cleaning[c] \in CleaningRow /\ cleaning[c].at = "commit"
      /\ Proper(cleaning[c], objects, written, expired) /\ Truthful(admission.evidence, objects, written)
      /\ written \in Nat /\ NoCleaning \in CleaningRow /\ NoEvidence \in EvidenceRow
  BY EmptyRows DEF ImageInv, ImageTypeOK, CommitEvidence
<1>2. /\ cleaning' = [cleaning EXCEPT ![c] = row]
      /\ admission' = [admission EXCEPT !.evidence = new]
  BY DEF CommitEvidence
<1>3. cleaning[c].evidence \in EvidenceRow /\ cleaning[c].todo \in Seq(Reports) /\ cleaning[c].todo # <<>>
  BY <1>1 DEF CleaningRow, Proper
<1>4. new \in EvidenceRow /\ Truthful(new, objects, written)
  BY <1>1, <1>3 DEF FlushedEvidence, Flushed, AdmissionRow, Proper
<1> HIDE DEF new
<1>5. /\ admission' \in AdmissionRow /\ admission'.decision = admission.decision
      /\ Truthful(admission'.evidence, objects, written)
  BY <1>1, <1>2, <1>4 DEF AdmissionRow
<1>6. /\ rest \in Seq(Reports) /\ Len(rest) = Len(cleaning[c].todo) - 1
      /\ \A i \in 1 .. Len(rest) : rest[i] = cleaning[c].todo[i + 1]
  BY <1>3, HeadTailProperties
<1> HIDE DEF rest
<1>7. row \in CleaningRow /\ Proper(row, objects, written, expired)
  <2>1. CASE rest = <<>>
    BY <1>1, <2>1, NothingClaimed
  <2>2. CASE rest # <<>>
    <3>1. /\ row = [cleaning[c] EXCEPT !.at = "delete", !.todo = rest, !.copy = NoEvidence]
          /\ row \in CleaningRow /\ row.evidence = cleaning[c].evidence /\ row.todo = rest
      BY <1>1, <1>6, <2>2 DEF CleaningRow
    <3>2. ASSUME NEW i \in 1 .. Len(rest) PROVE cleaning[c].evidence[rest[i]].artifact \in expired
      <4>1. Len(cleaning[c].todo) \in Nat
        BY <1>3, LenProperties
      <4>2. i + 1 \in 1 .. Len(cleaning[c].todo)
        BY <1>6, <4>1
      <4> QED BY <1>1, <1>6, <4>2 DEF Proper
    <3> QED BY <1>1, <2>2, <3>1, <3>2 DEF Proper
  <2> QED BY <2>1, <2>2
<1> HIDE DEF row
<1> QED BY <1>1, <1>2, <1>5, <1>7, CleaningMoves DEF CommitEvidence

LEMMA DeleteReportStep ==
  ASSUME ImageInv, NEW c \in Cleaners, NEW ok \in BOOLEAN, DeleteReport(c, ok)
  PROVE  ImageInv'
<1> DEFINE k   == Head(cleaning[c].todo)
           a   == cleaning[c].evidence[k].artifact
           evidence == [cleaning[c].evidence EXCEPT ![k].cleanup = IF ok THEN "deleted" ELSE "delete_failed"]
           row == [cleaning[c] EXCEPT !.at = "update", !.evidence = evidence]
<1>1. /\ admission \in AdmissionRow /\ cleaning[c] \in CleaningRow /\ cleaning[c].at = "delete"
      /\ Proper(cleaning[c], objects, written, expired) /\ Truthful(admission.evidence, objects, written)
      /\ written \in Nat
  BY DEF ImageInv, ImageTypeOK, DeleteReport
<1>2. cleaning[c].evidence \in EvidenceRow /\ cleaning[c].todo \in Seq(Reports) /\ cleaning[c].todo # <<>>
  BY <1>1 DEF CleaningRow, Proper
<1>3. k \in Reports
  BY <1>2, HeadTailProperties
<1>4. cleaning' = [cleaning EXCEPT ![c] = row] /\ objects' = IF ok THEN objects \ {a} ELSE objects
  BY DEF DeleteReport, CleanupOutcome, ImageInv, ImageTypeOK
<1>5. objects' \subseteq objects /\ objects' \subseteq objects \cup (written + 1 .. written) /\ (ok => a \notin objects')
  BY <1>4
<1> HIDE DEF k
<1>6. /\ evidence \in EvidenceRow
      /\ \A x \in Reports : evidence[x].artifact = cleaning[c].evidence[x].artifact
      /\ \A x \in Reports : x # k => evidence[x].cleanup = cleaning[c].evidence[x].cleanup
      /\ evidence[k].cleanup = IF ok THEN "deleted" ELSE "delete_failed"
  BY <1>2, <1>3 DEF EvidenceRow
<1> HIDE DEF evidence
<1>7. row \in CleaningRow /\ row.evidence = evidence /\ row.todo = cleaning[c].todo /\ row.at = "update"
  BY <1>1, <1>6 DEF CleaningRow
<1> HIDE DEF row
<1>8. Truthful(admission.evidence, objects', written)
  <2>1. admission.evidence \in EvidenceRow /\ written <= written
    BY <1>1 DEF AdmissionRow
  <2> QED BY <1>1, <1>5, <2>1, StaysTruthful
<1>9. Proper(row, objects', written, expired)
  <2>1. Truthful(cleaning[c].evidence, objects', written)
    BY <1>1, <1>2, <1>5, StaysTruthful DEF Proper
  <2>2. Truthful(row.evidence, objects', written)
    BY <1>5, <1>6, <1>7, <2>1 DEF Truthful
  <2>3. ASSUME NEW i \in 1 .. Len(row.todo) PROVE row.evidence[row.todo[i]].artifact \in expired
    <3>1. row.todo[i] \in Reports
      BY <1>2, <1>7, ElementOfSeq
    <3> QED BY <1>1, <1>6, <1>7, <3>1 DEF Proper
  <2> QED BY <1>2, <1>7, <2>2, <2>3 DEF Proper
<1> QED BY <1>1, <1>4, <1>5, <1>7, <1>8, <1>9, CleaningMoves DEF DeleteReport

\* The reports stored are finitely many, and counting those before one of them
\* numbers it.
LEMMA StoredAreFew ==
  ASSUME NEW stored \in SUBSET Reports
  PROVE  IsFiniteSet(stored) /\ Cardinality(stored) \in Nat
<1>1. Reports = {"sbom"} \cup {"vulnerabilities"}
  BY DEF Reports
<1>2. IsFiniteSet(Reports)
  BY <1>1, FS_Singleton, FS_Union
<1> QED BY <1>2, FS_Subset, FS_CardinalityType

LEMMA NumbersAreNew ==
  ASSUME NEW stored \in SUBSET Reports, NEW k \in stored
  PROVE  Cardinality({x \in stored : x = "sbom" /\ k = "vulnerabilities"}) \in 0 .. Cardinality(stored) - 1
<1> DEFINE before == {x \in stored : x = "sbom" /\ k = "vulnerabilities"}
<1>1. before \in SUBSET (stored \ {k}) /\ before \in SUBSET Reports
  OBVIOUS
<1> HIDE DEF before
<1>2. IsFiniteSet(stored) /\ Cardinality(stored) \in Nat /\ Cardinality(before) \in Nat
  BY <1>1, StoredAreFew
<1>3. IsFiniteSet(stored \ {k}) /\ Cardinality(stored \ {k}) = Cardinality(stored) - 1
  BY <1>2, FS_RemoveElement
<1>4. Cardinality(before) <= Cardinality(stored \ {k})
  BY <1>1, <1>3, FS_Subset
<1>5. Cardinality(before) \in 0 .. Cardinality(stored) - 1
  BY <1>2, <1>3, <1>4
<1> QED BY <1>5 DEF before

\* A request stores its reports under new numbers: nothing an evidence calls
\* deleted comes back, and only what failed nothing is approved.
LEMMA CollectStep ==
  ASSUME ImageInv, NEW r \in Resolvers, NEW i \in Images, NEW stored \in SUBSET Reports,
         CollectReports(r, i, stored)
  PROVE  ImageInv'
<1> DEFINE policy == resolving[r].policy
           scans  == DigestMatches(i) /\ i.scan \in {"passed", "failed"}
           wanted == IF scans THEN policy.retain ELSE {}
           kept   == stored = wanted
           number(k) == written + Cardinality({x \in stored : x = "sbom" /\ k = "vulnerabilities"}) + 1
           failed(k) == ~kept /\ k \in wanted
           signature == MergeStatus(i.cosign, i.notation)
           evidence == [k \in Reports |-> IF kept /\ k \in stored
                                          THEN [artifact |-> number(k), cleanup |-> "pending"]
                                          ELSE NoReport]
           sbom == IF failed("sbom") THEN "failed" ELSE SbomOf(i.scan)
           vulnerabilities == IF failed("vulnerabilities") THEN "failed" ELSE VulnerabilitiesOf(i.scan)
           found == IF ~DigestMatches(i)
                    THEN [NoAdmission EXCEPT !.decision = Decide(policy, TRUE, "not_checked"),
                                             !.registry_digest = i.registry_digest]
                    ELSE [decision |-> Decide(policy, Rejects(i) \/ ~kept, signature),
                          registry_digest |-> i.registry_digest, digest_match |-> TRUE, signature |-> signature,
                          sbom |-> sbom, vulnerabilities |-> vulnerabilities, evidence |-> evidence]
           n == written + Cardinality(stored)
<1>0. /\ written \in Nat /\ resolving[r] \in ResolveRow /\ NoAdmission \in AdmissionRow /\ NoEvidence \in EvidenceRow
      /\ NoResolve \in ResolveRow /\ i.registry_digest \in Digests /\ i.cosign \in Checks /\ i.notation \in Checks /\ i.scan \in Scans
  BY EmptyRows, ImagesAreFindings DEF ImageInv, ImageTypeOK, NoAdmission, AdmissionRow
<1>1. /\ resolving' = [resolving EXCEPT ![r].at = "select", ![r].policy = NoResolve.policy, ![r].found = found]
      /\ objects' = objects \cup {number(k) : k \in stored}
      /\ written' = n
      /\ UNCHANGED <<imagePolicy, admission, expired, cleaning, template, verdicts>>
  BY DEF CollectReports
\* The numbers are above those used and do not exceed the new count.
<1>2. /\ n \in Nat /\ written <= n
      /\ \A k \in stored : number(k) \in written + 1 .. n
  <2>1. Cardinality(stored) \in Nat
    BY StoredAreFew
  <2>2. ASSUME NEW k \in stored PROVE number(k) \in written + 1 .. n
    <3> DEFINE m == Cardinality({x \in stored : x = "sbom" /\ k = "vulnerabilities"})
    <3>1. m \in 0 .. Cardinality(stored) - 1
      BY NumbersAreNew
    <3>2. number(k) = written + m + 1
      OBVIOUS
    <3> HIDE DEF m, number
    <3> QED BY <1>0, <2>1, <3>1, <3>2
  <2> QED BY <1>0, <2>1, <2>2
<1> HIDE DEF number, n
<1>3. objects' \subseteq objects \cup (written + 1 .. n) /\ objects' \subseteq 1 .. n /\ expired \subseteq 1 .. n
  <2>1. objects \subseteq 1 .. n /\ expired \subseteq 1 .. n /\ (written + 1 .. n) \subseteq 1 .. n
    BY <1>0, <1>2 DEF ImageInv, ImageTypeOK
  <2> QED BY <1>1, <1>2, <2>1
<1>4. /\ evidence \in EvidenceRow
      /\ \A k \in Reports : evidence[k].artifact <= n /\ evidence[k].cleanup = "pending"
  <2>1. ASSUME NEW k \in Reports
        PROVE  /\ evidence[k] \in [artifact : Nat, cleanup : {"pending", "deleted", "delete_failed"}]
               /\ evidence[k].artifact <= n /\ evidence[k].cleanup = "pending"
    <3>1. CASE kept /\ k \in stored
      <4>1. number(k) \in Nat /\ number(k) <= n
        BY <1>0, <1>2, <3>1
      <4>2. evidence[k] = [artifact |-> number(k), cleanup |-> "pending"]
        BY <3>1
      <4> QED BY <4>1, <4>2
    <3>2. CASE ~(kept /\ k \in stored)
      <4>1. evidence[k] = [artifact |-> 0, cleanup |-> "pending"]
        BY <3>2 DEF NoReport
      <4> QED BY <1>2, <4>1
    <3> QED BY <3>1, <3>2
  <2> QED BY <2>1 DEF EvidenceRow
<1>5. /\ signature \in Checks /\ sbom \in Checks /\ vulnerabilities \in Checks
      /\ ~(Rejects(i) \/ ~kept) => "failed" \notin {signature, sbom, vulnerabilities}
  BY <1>0 DEF MergeStatus, Checks, SbomOf, VulnerabilitiesOf, Scans, Rejects
<1>6. ASSUME NEW rejected \in BOOLEAN, NEW s
      PROVE  /\ Decide(policy, rejected, s) \in {"approved", "rejected", "would_reject"}
             /\ rejected => Decide(policy, rejected, s) # "approved"
  BY DEF Decide
<1>7. found \in AdmissionRow /\ Truthful(found.evidence, objects', n) /\ (found.decision = "approved" => Clean(found))
  <2> HIDE DEF policy, kept, signature, sbom, vulnerabilities, evidence
  <2>1. CASE ~DigestMatches(i)
    <3>1. found = [NoAdmission EXCEPT !.decision = Decide(policy, TRUE, "not_checked"),
                                      !.registry_digest = i.registry_digest]
      BY <2>1
    <3>2. found \in AdmissionRow /\ found.evidence = NoEvidence /\ found.decision # "approved"
      BY <1>0, <1>6, <3>1 DEF AdmissionRow, NoAdmission
    <3>3. Truthful(NoEvidence, objects', n)
      BY <1>2 DEF Truthful, NoEvidence, NoReport
    <3> QED BY <3>2, <3>3
  <2>2. CASE DigestMatches(i)
    <3> DEFINE rejected == Rejects(i) \/ ~kept
    <3>1. found = [decision |-> Decide(policy, rejected, signature),
                   registry_digest |-> i.registry_digest, digest_match |-> TRUE, signature |-> signature,
                   sbom |-> sbom, vulnerabilities |-> vulnerabilities, evidence |-> evidence]
      BY <2>2
    <3>2. /\ rejected \in BOOLEAN
          /\ ~rejected => "failed" \notin {signature, sbom, vulnerabilities}
      BY <1>5
    <3> HIDE DEF rejected, found
    <3>3. found \in AdmissionRow
      BY <1>0, <1>4, <1>5, <1>6, <3>1, <3>2 DEF AdmissionRow
    <3>4. found.decision = "approved" => Clean(found)
      BY <1>6, <2>2, <3>1, <3>2 DEF Clean
    <3>5. Truthful(found.evidence, objects', n)
      BY <1>4, <3>1 DEF Truthful
    <3> QED BY <3>3, <3>4, <3>5
  <2> QED BY <2>1, <2>2
<1> HIDE DEF found
<1>8. /\ resolving' \in [Resolvers -> ResolveRow]
      /\ \A q \in Resolvers : resolving'[q].found = IF q = r THEN found ELSE resolving[q].found
  BY <1>0, <1>1, <1>7 DEF ImageInv, ImageTypeOK, ResolveRow
<1>9. ImageTypeOK'
  BY <1>1, <1>2, <1>3, <1>8 DEF ImageInv, ImageTypeOK
<1>10. /\ \A a \in AdmissionRow : SoundRow(a, objects, written) => SoundRow(a, objects', n)
       /\ \A c \in CleaningRow : Proper(c, objects, written, expired) => Proper(c, objects', n, expired)
  BY <1>0, <1>2, <1>3, RowsStaySound
<1>11. /\ \A q \in Resolvers : SoundRow(resolving'[q].found, objects', n)
       /\ Truthful(admission.evidence, objects', n)
  <2>1. admission.evidence \in EvidenceRow
    BY DEF ImageInv, ImageTypeOK, AdmissionRow
  <2>2. Truthful(admission.evidence, objects', n)
    BY <1>0, <1>2, <1>3, <2>1, StaysTruthful DEF ImageInv
  <2> QED BY <1>7, <1>8, <1>10, <2>2 DEF ImageInv, ImageTypeOK, ResolveRow, SoundRow
<1> QED BY <1>1, <1>9, <1>10, <1>11 DEF ImageInv, ImageTypeOK, SomeApproved

LEMMA ImageStep == ImageInv /\ [ImageNext]_imageVars => ImageInv'
  BY EasySteps, CommitStep, CollectStep, StartCleanupStep, SelectEvidenceStep, CommitEvidenceStep,
     DeleteReportStep DEF ImageNext

\* Evidence that calls a report deleted tells the truth, however many cleanups
\* write back the copies of the evidence they began with.
THEOREM DeletedCorrect == ImageSpec => []DeletedIsGone
<1>1. ImageInv => DeletedIsGone
  BY DEF ImageInv, Truthful, DeletedIsGone
<1> QED BY <1>1, ImageFirst, ImageStep, PTL DEF ImageSpec

\* A template of high risk runs under enforcement only what some request
\* approved, and unless its row mixed two of them nothing of it failed.
THEOREM EnforcedCorrect == ImageSpec => []EnforcedIsClean
<1>1. ImageInv => EnforcedIsClean
  BY DEF ImageInv, EnforcedIsClean, RuntimeBlocked, Clean, SomeApproved
<1> QED BY <1>1, ImageFirst, ImageStep, PTL DEF ImageSpec

\* The reports of one request take the numbers after those in use, and all of
\* them are in the store.
LEMMA NumbersAreStored ==
  ASSUME NEW w \in Nat, NEW stored \in SUBSET Reports
  PROVE  w + 1 .. w + Cardinality(stored)
         \subseteq {w + Cardinality({x \in stored : x = "sbom" /\ k = "vulnerabilities"}) + 1 : k \in stored}
<1> DEFINE before(k) == {x \in stored : x = "sbom" /\ k = "vulnerabilities"}
<1>1. IsFiniteSet({"sbom"}) /\ Cardinality({"sbom"}) = 1 /\ Cardinality({"vulnerabilities"}) = 1
  BY FS_Singleton
<1>2. Cardinality({"sbom"} \cup {"vulnerabilities"}) = 2
  BY <1>1, FS_AddElement
<1>3. Cardinality({}) = 0
  BY FS_EmptySet
<1>4. CASE "sbom" \notin stored \/ "vulnerabilities" \notin stored
  <2>1. stored = {} \/ stored = {"sbom"} \/ stored = {"vulnerabilities"}
    BY <1>4 DEF Reports
  <2>2. \A k \in stored : before(k) = {}
    BY <1>4 DEF Reports
  <2>3. \A k \in stored : w + Cardinality(before(k)) + 1 = w + 1
    BY <1>3, <2>2
  <2>4. CASE stored = {}
    BY <1>3, <2>4
  <2>5. CASE stored # {}
    <3>1. Cardinality(stored) = 1
      BY <1>1, <2>1, <2>5
    <3>2. w + 1 .. w + Cardinality(stored) = {w + 1}
      BY <3>1
    <3> HIDE DEF before
    <3>3. w + 1 \in {w + Cardinality(before(k)) + 1 : k \in stored}
      BY <2>3, <2>5
    <3>4. w + 1 .. w + Cardinality(stored) \subseteq {w + Cardinality(before(k)) + 1 : k \in stored}
      BY <3>2, <3>3
    <3> QED BY <3>4 DEF before
  <2> QED BY <2>4, <2>5
<1>5. CASE "sbom" \in stored /\ "vulnerabilities" \in stored
  <2>1. stored = {"sbom"} \cup {"vulnerabilities"}
    BY <1>5 DEF Reports
  <2>2. before("sbom") = {} /\ before("vulnerabilities") = {"sbom"}
    BY <1>5
  <2>3. w + Cardinality(before("sbom")) + 1 = w + 1 /\ w + Cardinality(before("vulnerabilities")) + 1 = w + 2
    BY <1>1, <1>3, <2>2
  <2>4. w + 1 .. w + Cardinality(stored) = {w + 1, w + 2}
    BY <1>2, <2>1
  <2> HIDE DEF before
  <2>5. {w + 1, w + 2} \subseteq {w + Cardinality(before(k)) + 1 : k \in stored}
    BY <1>5, <2>3
  <2>6. w + 1 .. w + Cardinality(stored) \subseteq {w + Cardinality(before(k)) + 1 : k \in stored}
    BY <2>4, <2>5
  <2> QED BY <2>6 DEF before
<1> QED BY <1>4, <1>5

\* Every report stays in the store until its retention is over or a rule of the
\* bucket removes it: the cleanups take only what is due, by whatever copy of
\* the evidence they work.
THEOREM KeptCorrect == ImageSpec => []KeptUntilExpiry
<1>1. ASSUME ImageInv, KeptUntilExpiry, [ImageNext]_imageVars PROVE KeptUntilExpiry'
  <2>1. ASSUME NEW c \in Cleaners, NEW ok \in BOOLEAN, DeleteReport(c, ok) PROVE KeptUntilExpiry'
    <3>1. cleaning[c] \in CleaningRow /\ Proper(cleaning[c], objects, written, expired) /\ cleaning[c].at = "delete"
      BY <1>1, <2>1 DEF ImageInv, ImageTypeOK, DeleteReport
    <3>2. cleaning[c].todo \in Seq(Reports) /\ cleaning[c].todo # <<>>
      BY <3>1 DEF CleaningRow, Proper
    <3>3. Len(cleaning[c].todo) \in Nat \ {0} /\ Head(cleaning[c].todo) = cleaning[c].todo[1]
      BY <3>2, EmptySeq
    <3>4. cleaning[c].evidence[Head(cleaning[c].todo)].artifact \in expired
      BY <3>1, <3>3 DEF Proper
    <3> QED BY <1>1, <2>1, <3>4 DEF DeleteReport, KeptUntilExpiry
  <2>2. ASSUME NEW r \in Resolvers, NEW i \in Images, NEW stored \in SUBSET Reports, CollectReports(r, i, stored)
        PROVE  KeptUntilExpiry'
    <3> DEFINE new == {written + Cardinality({x \in stored : x = "sbom" /\ k = "vulnerabilities"}) + 1 : k \in stored}
               n   == Cardinality(stored)
    <3>1. written \in Nat /\ n \in Nat
      BY <1>1, StoredAreFew DEF ImageInv, ImageTypeOK
    <3>2. written' = written + n /\ objects' = objects \cup new /\ UNCHANGED <<expired, swept>>
      BY <2>2 DEF CollectReports
    <3>3. written + 1 .. written + n \subseteq new
      BY <3>1, NumbersAreStored
    <3> HIDE DEF new, n
    <3>4. 1 .. written + n \subseteq (1 .. written) \cup (written + 1 .. written + n)
      BY <3>1
    <3> QED BY <1>1, <3>2, <3>3, <3>4 DEF KeptUntilExpiry
  <2>3. ASSUME NEW a \in Artifacts, BucketExpires(a) PROVE KeptUntilExpiry'
    BY <1>1, <2>3 DEF BucketExpires, KeptUntilExpiry
  <2>4. ASSUME NEW a \in Artifacts, Expires(a) PROVE KeptUntilExpiry'
    BY <1>1, <2>4 DEF Expires, KeptUntilExpiry
  <2>5. CASE UNCHANGED <<objects, written, expired, swept>>
    BY <1>1, <2>5 DEF KeptUntilExpiry
  <2> QED BY <1>1, <2>1, <2>2, <2>3, <2>4, <2>5 DEF ImageNext, imageVars, SetImagePolicy, StartResolve,
        SelectAdmission, CommitAdmission, LoseResolve, StartCleanup, SelectEvidence, CommitEvidence,
        LoseCleanup, CreateTemplate
<1>2. ImageInit => KeptUntilExpiry
  BY DEF ImageInit, KeptUntilExpiry
<1> QED BY <1>1, <1>2, ImageFirst, ImageStep, PTL DEF ImageSpec

(***************************************************************************)
(* CleanupSchedule: one worker at a time, for any numbers of workers and   *)
(* minutes.                                                                *)
(***************************************************************************)
WorkerRows == [at : {"idle", "run"} \cup Recorded, until : Nat]

ScheduleTypeOK ==
    /\ schedule = [enabled |-> schedule.enabled, next |-> schedule.next, leased |-> schedule.leased,
                   owner |-> schedule.owner, failures |-> schedule.failures]
    /\ worker \in [Workers -> WorkerRows]
    /\ now \in Nat

\* While no worker is late the row and every worker agree, and a worker at
\* work has time left: so nobody else may claim.
HeldUntil ==
    ~late => \A w \in Workers : worker[w].at # "idle" =>
                 /\ schedule.owner = w
                 /\ schedule.leased = worker[w].until
                 /\ now < worker[w].until

ScheduleInv == ScheduleTypeOK /\ HeldUntil

LEMMA ScheduleFirst == ScheduleInit => ScheduleInv
  BY DEF ScheduleInit, NewSchedule, ScheduleInv, ScheduleTypeOK, HeldUntil, WorkerRows, Resting, Recorded

LEMMA ScheduleStep == ScheduleInv /\ [ScheduleNext]_scheduleVars => ScheduleInv'
<1> SUFFICES ASSUME ScheduleInv, [ScheduleNext]_scheduleVars PROVE ScheduleInv'
  OBVIOUS
<1> USE IntervalIsHours, LeaseIsPositive DEF ScheduleInv
<1>1. CASE Tick
  <2>1. ScheduleTypeOK'
    <3>1. now' \in Nat
      BY <1>1 DEF Tick, ScheduleTypeOK
    <3> QED BY <3>1, <1>1 DEF Tick, ScheduleTypeOK
  <2>2. ASSUME ~late' PROVE ~late /\ \A w \in Working : ~(worker[w].until <= now')
    BY <1>1, <2>2, Zenon DEF Tick
  <2>3. now \in Nat /\ now' \in Nat /\ \A w \in Workers : worker[w].until \in Nat
    BY <2>1 DEF ScheduleTypeOK, WorkerRows
  <2>4. ASSUME ~late', NEW w \in Workers, worker[w].at # "idle"
        PROVE schedule.owner = w /\ schedule.leased = worker[w].until /\ now' < worker[w].until
    <3>1. schedule.owner = w /\ schedule.leased = worker[w].until
      BY <2>2, <2>4 DEF HeldUntil
    <3>2. ~(worker[w].until <= now')
      BY <2>2, <2>4 DEF Working
    <3> QED BY <3>1, <3>2, <2>3
  <2>5. HeldUntil'
    BY <2>4, <1>1 DEF Tick, HeldUntil
  <2> QED BY <2>1, <2>5
<1>2. ASSUME NEW enabled, NEW next, UpsertSchedule(enabled, next)
      PROVE ScheduleInv'
  BY <1>2 DEF UpsertSchedule, ScheduleTypeOK, HeldUntil
<1>3. ASSUME NEW w \in Workers, ClaimDue(w) PROVE ScheduleInv'
  <2>1. ScheduleTypeOK'
    <3>1. now + LeaseMinutes \in Nat
      BY DEF ScheduleTypeOK
    <3>2. [at |-> "run", until |-> now + LeaseMinutes] \in WorkerRows
      BY <3>1 DEF WorkerRows
    <3>3. worker' \in [Workers -> WorkerRows]
      BY <3>2, <1>3 DEF ClaimDue, ScheduleTypeOK
    <3>4. schedule' = [enabled |-> schedule'.enabled, next |-> schedule'.next, leased |-> schedule'.leased,
                       owner |-> schedule'.owner, failures |-> schedule'.failures]
      BY <1>3 DEF ClaimDue, ScheduleTypeOK
    <3>5. now' \in Nat
      BY <1>3 DEF ClaimDue, ScheduleTypeOK
    <3> QED BY <3>3, <3>4, <3>5 DEF ScheduleTypeOK
  <2>2. HeldUntil'
    BY <1>3 DEF ClaimDue, Claimable, ScheduleTypeOK, HeldUntil, WorkerRows
  <2> QED BY <2>1, <2>2
<1>4. ASSUME NEW w \in Workers, NEW run \in Recorded, RecordRun(w, run) PROVE ScheduleInv'
  <2>1. ScheduleTypeOK'
    BY <1>4 DEF RecordRun, ScheduleTypeOK, WorkerRows, Recorded
  <2>2. HeldUntil'
    BY <1>4 DEF RecordRun, ScheduleTypeOK, HeldUntil, WorkerRows, Recorded
  <2> QED BY <2>1, <2>2
<1>5. ASSUME NEW w \in Workers, MarkRun(w) PROVE ScheduleInv'
  <2>1. ScheduleTypeOK'
    BY <1>5 DEF MarkRun, ScheduleTypeOK, WorkerRows, Resting
  <2>2. HeldUntil'
    BY <1>5 DEF MarkRun, ScheduleTypeOK, HeldUntil, WorkerRows, Resting, Recorded
  <2> QED BY <2>1, <2>2
<1>6. ASSUME NEW w \in Workers, WorkerDies(w) PROVE ScheduleInv'
  <2>1. ScheduleTypeOK'
    BY <1>6 DEF WorkerDies, ScheduleTypeOK, WorkerRows, Resting
  <2>2. HeldUntil'
    BY <1>6 DEF WorkerDies, ScheduleTypeOK, HeldUntil, WorkerRows, Resting
  <2> QED BY <2>1, <2>2
<1>7. CASE UNCHANGED scheduleVars
  BY <1>7 DEF scheduleVars, ScheduleTypeOK, HeldUntil
<1> QED
  BY <1>1, <1>2, <1>3, <1>4, <1>5, <1>6, <1>7 DEF ScheduleNext

\* As long as every worker finishes within its lease no two work on the
\* schedule together (cleanup_worker.py, claim_due_...cleanup_schedules).
THEOREM OneWorkerCorrect == ScheduleSpec => []OneWorkerPerLease
<1>1. ScheduleInv => OneWorkerPerLease
  <2> SUFFICES ASSUME ScheduleInv, ~late PROVE OneWorkerPerLease
    BY DEF OneWorkerPerLease
  <2>1. \A v, w \in Working : v = w
    BY DEF ScheduleInv, HeldUntil, Working
  <2>2. Working = {} \/ \E w \in Working : Working = {w}
    BY <2>1
  <2>3. Cardinality(Working) \in {0, 1}
    BY <2>2, FS_EmptySet, FS_Singleton
  <2>4. \A w \in Working : schedule.owner = w /\ schedule.leased = worker[w].until
    BY DEF ScheduleInv, HeldUntil, Working
  <2> QED BY <2>3, <2>4 DEF OneWorkerPerLease
<1> QED BY ScheduleFirst, ScheduleStep, <1>1, PTL DEF ScheduleSpec

(***************************************************************************)
(* LifecycleRemediation: which rules are in the bucket all projects share, *)
(* for any numbers of projects, approvals, requests and rules of others.   *)
(***************************************************************************)
Rules == [managed : SUBSET Tenants, foreign : SUBSET ForeignRules]
Plans == {"none", "add_rule", "update_managed_rule"}
Decided == {"approved", "rejected", "used"}
RemediationRows == [project : Tenants \cup {"none"}, type : Plans, status : Decided \cup {"none", "pending"}]
RequestRows == [at : {"idle", "decide", "check", "put", "mark"}, project : Tenants \cup {"none"},
                approval : Remediations \cup {"none"}, read : Rules]

RemediationTypeOK ==
    /\ bucketRules \in Rules
    /\ remediation \in [Remediations -> RemediationRows]
    /\ remediating \in [RemediationRequests -> RequestRows]

IsDecided(p) == \E a \in Remediations : remediation[a].project = p /\ remediation[a].status \in Decided

\* What is in the bucket, what a run has read from it and the rule a run is
\* about to add are all of projects with a decision.
RulesAreDecided == \A p \in bucketRules.managed : IsDecided(p)

ReadIsDecided ==
    \A r \in RemediationRequests :
        /\ \A p \in remediating[r].read.managed : IsDecided(p)
        /\ remediating[r].at = "put" => IsDecided(remediating[r].project)

\* A run has named an approval and saw no rule of others in its way.
ReadIsClear ==
    \A r \in RemediationRequests : remediating[r].at \in {"check", "put"} =>
        /\ remediating[r].project \in Tenants /\ remediating[r].approval \in Remediations
        /\ ~Overlapped(remediating[r].read, remediating[r].project)

RemediationInv == RemediationTypeOK /\ RulesAreDecided /\ ReadIsDecided /\ ReadIsClear

LEMMA RemediationFirst == RemediationInit => RemediationInv
  BY DEF RemediationInit, RemediationInv, RemediationTypeOK, RulesAreDecided, ReadIsDecided, ReadIsClear,
         NoRules, NoRemediation, NoRequest, Rules, RemediationRows, RequestRows, Plans

\* What a request does next.
LEMMA RequestStep ==
  ASSUME RemediationInv, UNCHANGED <<bucketRules, remediation>>, NEW r \in RemediationRequests, NEW q \in RequestRows,
         remediating' = [remediating EXCEPT ![r] = q],
         \A p \in q.read.managed : IsDecided(p),
         q.at = "put" => IsDecided(q.project),
         q.at \in {"check", "put"} =>
            q.project \in Tenants /\ q.approval \in Remediations /\ ~Overlapped(q.read, q.project)
  PROVE  RemediationInv'
<1>1. RemediationTypeOK'
  BY DEF RemediationInv, RemediationTypeOK
<1>2. \A s \in RemediationRequests : remediating'[s] = IF s = r THEN q ELSE remediating[s]
  BY DEF RemediationInv, RemediationTypeOK
<1>3. RulesAreDecided' /\ ReadIsDecided'
  BY <1>2 DEF RemediationInv, RulesAreDecided, ReadIsDecided, IsDecided
<1>4. ReadIsClear'
  BY <1>2 DEF RemediationInv, ReadIsClear, Overlapped
<1> QED BY <1>1, <1>3, <1>4 DEF RemediationInv

\* An approval that is requested or decided; the request that decides it ends.
LEMMA ApprovalStep ==
  ASSUME RemediationInv, UNCHANGED bucketRules, NEW a, NEW row \in RemediationRows,
         remediation' = [remediation EXCEPT ![a] = row],
         a \in Remediations /\ remediation[a].status \in Decided =>
            row.status \in Decided /\ row.project = remediation[a].project,
         UNCHANGED remediating \/ \E r \in RemediationRequests : remediating' = [remediating EXCEPT ![r] = NoRequest]
  PROVE  RemediationInv'
<1>1. NoRequest \in RequestRows /\ NoRequest.read.managed = {} /\ NoRequest.at = "idle"
  BY DEF NoRequest, NoRules, RequestRows, Rules
<1>2. RemediationTypeOK'
  BY <1>1 DEF RemediationInv, RemediationTypeOK
<1>3. \A p : IsDecided(p) => \E b \in Remediations : remediation'[b].project = p /\ remediation'[b].status \in Decided
  BY DEF RemediationInv, RemediationTypeOK, IsDecided
<1>4. \A s \in RemediationRequests : remediating'[s] = remediating[s] \/ remediating'[s] = NoRequest
  BY DEF RemediationInv, RemediationTypeOK
<1>5. RulesAreDecided' /\ ReadIsDecided'
  BY <1>1, <1>3, <1>4 DEF RemediationInv, RulesAreDecided, ReadIsDecided, IsDecided
<1>6. ReadIsClear'
  BY <1>1, <1>4 DEF RemediationInv, ReadIsClear, Overlapped
<1> QED BY <1>2, <1>5, <1>6 DEF RemediationInv

LEMMA RemediationStep == RemediationInv /\ [RemediationNext]_remediationVars => RemediationInv'
<1> SUFFICES ASSUME RemediationInv, [RemediationNext]_remediationVars PROVE RemediationInv'
  OBVIOUS
<1>1. /\ bucketRules \in Rules /\ remediation \in [Remediations -> RemediationRows]
      /\ remediating \in [RemediationRequests -> RequestRows]
  BY DEF RemediationInv, RemediationTypeOK
<1>2. NoRequest \in RequestRows /\ NoRequest.read.managed = {} /\ NoRequest.at = "idle"
  BY DEF NoRequest, NoRules, RequestRows, Rules
<1>3. ASSUME NEW a \in Remediations, NEW p \in Tenants, RequestRemediation(a, p) PROVE RemediationInv'
  <2> DEFINE row == [project |-> p, type |-> PlanOf(bucketRules, p), status |-> "pending"]
  <2>1. row \in RemediationRows
    BY DEF RemediationRows, PlanOf, Plans
  <2>2. remediation' = [remediation EXCEPT ![a] = row] /\ UNCHANGED <<bucketRules, remediating>>
    BY <1>3 DEF RequestRemediation
  <2>3. remediation[a].status \notin Decided
    BY <1>3 DEF RequestRemediation, NoRemediation, Decided
  <2> HIDE DEF row
  <2> QED BY <2>1, <2>2, <2>3, ApprovalStep
<1>4. ASSUME NEW r \in RemediationRequests, NEW a \in Remediations, StartDecision(r, a) PROVE RemediationInv'
  <2> DEFINE q == [NoRequest EXCEPT !.at = "decide", !.approval = a]
  <2>1. q \in RequestRows /\ q.read.managed = {} /\ q.at = "decide"
    BY DEF NoRequest, NoRules, RequestRows, Rules
  <2>2. remediating' = [remediating EXCEPT ![r] = q] /\ UNCHANGED <<bucketRules, remediation>>
    BY <1>4 DEF StartDecision
  <2> HIDE DEF q
  <2> QED BY <2>1, <2>2, RequestStep
<1>5. ASSUME NEW r \in RemediationRequests, NEW a \in Remediations, NEW p \in Tenants, StartRemediation(r, p, a)
      PROVE  RemediationInv'
  <2> DEFINE q == [at |-> "check", project |-> p, approval |-> a, read |-> bucketRules]
  <2>1. q \in RequestRows /\ q.read = bucketRules /\ q.at = "check" /\ q.project = p /\ q.approval = a
    BY <1>1 DEF RequestRows
  <2>2. /\ remediating' = [remediating EXCEPT ![r] = q] /\ UNCHANGED <<bucketRules, remediation>>
        /\ ~Overlapped(bucketRules, p)
    BY <1>5 DEF StartRemediation
  <2>3. \A x \in bucketRules.managed : IsDecided(x)
    BY DEF RemediationInv, RulesAreDecided
  <2> HIDE DEF q
  <2> QED BY <2>1, <2>2, <2>3, RequestStep
<1>6. ASSUME NEW r \in RemediationRequests, NEW d \in {"approved", "rejected", "used"},
             remediation' = [remediation EXCEPT ![remediating[r].approval].status = d],
             remediating' = [remediating EXCEPT ![r] = NoRequest], UNCHANGED bucketRules
      PROVE  RemediationInv'
  <2> DEFINE a == remediating[r].approval
             row == [remediation[a] EXCEPT !.status = d]
  <2>1. CASE a \in Remediations
    <3>1. row \in RemediationRows /\ row.status = d /\ row.project = remediation[a].project
      BY <1>1, <2>1 DEF RemediationRows, Decided
    <3>2. remediation' = [remediation EXCEPT ![a] = row]
      BY <1>6
    <3> HIDE DEF row, a
    <3> QED BY <1>6, <3>1, <3>2, ApprovalStep DEF Decided
  <2>2. CASE a \notin Remediations
    <3>1. remediation' = remediation
      BY <1>1, <1>6, <2>2
    <3> QED BY <1>2, <1>6, <3>1, RequestStep
  <2> QED BY <2>1, <2>2
<1>7. ASSUME NEW r \in RemediationRequests, NEW d \in {"approved", "rejected"}, WriteDecision(r, d) PROVE RemediationInv'
  BY <1>6, <1>7 DEF WriteDecision
<1>8. ASSUME NEW r \in RemediationRequests, MarkUsed(r) PROVE RemediationInv'
  BY <1>6, <1>8 DEF MarkUsed
<1>9. ASSUME NEW r \in RemediationRequests, CheckApproval(r) PROVE RemediationInv'
  <2> DEFINE q == remediating[r]
             x == [q EXCEPT !.at = "put"]
  <2>1. /\ q \in RequestRows /\ q.project \in Tenants /\ q.approval \in Remediations
        /\ ~Overlapped(q.read, q.project) /\ UNCHANGED <<bucketRules, remediation>>
    BY <1>1, <1>9 DEF CheckApproval, RemediationInv, ReadIsClear
  <2>2. \A p \in q.read.managed : IsDecided(p)
    BY DEF RemediationInv, ReadIsDecided
  <2>3. CASE Approves(remediation[q.approval], q.project, q.read)
    <3>1. IsDecided(q.project)
      BY <2>1, <2>3 DEF Approves, IsDecided, Decided
    <3>2. /\ x \in RequestRows /\ x.read = q.read /\ x.project = q.project /\ x.approval = q.approval
          /\ x.at = "put"
      BY <2>1 DEF RequestRows
    <3>3. remediating' = [remediating EXCEPT ![r] = x]
      BY <1>9, <2>3 DEF CheckApproval
    <3> HIDE DEF x, q
    <3> QED BY <2>1, <2>2, <3>1, <3>2, <3>3, RequestStep
  <2>4. CASE ~Approves(remediation[q.approval], q.project, q.read)
    <3>1. remediating' = [remediating EXCEPT ![r] = NoRequest]
      BY <1>9, <2>4 DEF CheckApproval
    <3> QED BY <1>2, <2>1, <3>1, RequestStep
  <2> QED BY <2>3, <2>4
\* The configuration a run writes back holds what it read and its own rule.
<1>10. ASSUME NEW r \in RemediationRequests, PutConfiguration(r) PROVE RemediationInv'
  <2> DEFINE q == remediating[r]
             x == [q EXCEPT !.at = "mark"]
  <2>1. /\ q \in RequestRows /\ q.at = "put" /\ q.project \in Tenants /\ IsDecided(q.project)
        /\ \A p \in q.read.managed : IsDecided(p)
    BY <1>1, <1>10 DEF PutConfiguration, RemediationInv, ReadIsClear, ReadIsDecided
  <2>2. x \in RequestRows /\ x.read = q.read /\ x.at = "mark"
    BY <2>1 DEF RequestRows
  <2>3. q.read \in Rules
    BY <2>1 DEF RequestRows
  <2>4. /\ bucketRules' \in Rules /\ bucketRules'.managed = q.read.managed \cup {q.project}
        /\ UNCHANGED remediation /\ remediating' = [remediating EXCEPT ![r] = x]
    BY <1>10, <2>1, <2>3 DEF PutConfiguration, Merged, Rules
  <2> HIDE DEF q, x
  <2>5. \A s \in RemediationRequests : remediating'[s] = IF s = r THEN x ELSE remediating[s]
    BY <1>1, <2>4
  <2>6. RemediationTypeOK'
    BY <1>1, <2>2, <2>4 DEF RemediationTypeOK
  <2>7. RulesAreDecided'
    BY <2>1, <2>4 DEF RulesAreDecided, IsDecided
  <2>8. ReadIsDecided'
    BY <2>1, <2>2, <2>4, <2>5 DEF RemediationInv, ReadIsDecided, IsDecided
  <2>9. ReadIsClear'
    BY <2>2, <2>5 DEF RemediationInv, ReadIsClear, Overlapped
  <2> QED BY <2>6, <2>7, <2>8, <2>9 DEF RemediationInv
<1>11. ASSUME NEW r \in RemediationRequests, LoseRemediation(r) PROVE RemediationInv'
  BY <1>2, <1>11, RequestStep DEF LoseRemediation
<1>12. ASSUME NEW f \in ForeignRules, EditForeign(f) PROVE RemediationInv'
  <2>1. /\ bucketRules' \in Rules /\ bucketRules'.managed = bucketRules.managed
        /\ UNCHANGED <<remediation, remediating>>
    BY <1>1, <1>12 DEF EditForeign, Rules
  <2> QED BY <1>1, <2>1 DEF RemediationInv, RemediationTypeOK, RulesAreDecided, ReadIsDecided, ReadIsClear,
                            IsDecided, Overlapped
<1>13. CASE UNCHANGED remediationVars
  BY <1>13 DEF remediationVars, RemediationInv, RemediationTypeOK, RulesAreDecided, ReadIsDecided, ReadIsClear,
               IsDecided, Overlapped
<1> QED
  BY <1>3, <1>4, <1>5, <1>7, <1>8, <1>9, <1>10, <1>11, <1>12, <1>13 DEF RemediationNext

\* Every project with a rule in the bucket had an approval that was decided
\* (image_artifact_lifecycle_remediation.py).
THEOREM AppliedIsDecidedCorrect == RemediationSpec => []AppliedIsDecided
<1>1. RemediationInv => AppliedIsDecided
  <2> SUFFICES ASSUME RemediationInv, NEW p \in bucketRules.managed
               PROVE  \E a \in Remediations : remediation[a].project = p /\ remediation[a].status # "pending"
    BY DEF AppliedIsDecided
  <2>1. PICK a \in Remediations : remediation[a].project = p /\ remediation[a].status \in Decided
    BY DEF RemediationInv, RulesAreDecided, IsDecided
  <2>2. remediation[a].status # "pending"
    BY <2>1 DEF Decided
  <2> QED BY <2>1, <2>2
<1> QED BY <1>1, RemediationFirst, RemediationStep, PTL DEF RemediationSpec

\* A run that nobody overtook leaves the rules of others and of the other
\* projects as they are, and none of others is in the way of what it adds.
THEOREM KeepsOtherRulesCorrect == RemediationSpec => KeepsOtherRules
<1> DEFINE Keeps == \A r \in RemediationRequests :
              remediating[r].at = "put" /\ remediating'[r].at = "mark" /\ bucketRules = remediating[r].read
              => /\ bucketRules'.foreign = bucketRules.foreign
                 /\ bucketRules'.managed = bucketRules.managed \cup {remediating[r].project}
                 /\ ~Overlapped(bucketRules', remediating[r].project)
<1>1. RemediationInv /\ [RemediationNext]_remediationVars => [Keeps]_remediationVars
  <2> SUFFICES ASSUME RemediationInv, RemediationNext, NEW r \in RemediationRequests,
                      remediating[r].at = "put", remediating'[r].at = "mark", bucketRules = remediating[r].read
               PROVE  /\ bucketRules'.foreign = bucketRules.foreign
                      /\ bucketRules'.managed = bucketRules.managed \cup {remediating[r].project}
                      /\ ~Overlapped(bucketRules', remediating[r].project)
    OBVIOUS
  <2>1. bucketRules \in Rules /\ remediating \in [RemediationRequests -> RequestRows]
    BY DEF RemediationInv, RemediationTypeOK
  <2>2. ~Overlapped(bucketRules, remediating[r].project)
    BY DEF RemediationInv, ReadIsClear
  <2>3. PutConfiguration(r)
    <3>1. ~UNCHANGED remediating /\ NoRequest.at = "idle"
      BY DEF NoRequest
    <3>2. ASSUME NEW s \in RemediationRequests, NEW q, remediating' = [remediating EXCEPT ![s] = q]
          PROVE  s = r /\ q.at = "mark"
      BY <2>1, <3>2
    <3>3. ASSUME NEW s \in RemediationRequests, PutConfiguration(s) PROVE s = r
      BY <2>1, <3>3 DEF PutConfiguration
    <3>4. ASSUME NEW s \in RemediationRequests, NEW a, StartDecision(s, a) PROVE FALSE
      BY <3>2, <3>4, remediating[r].at # "idle", NoRequest.at = "idle" DEF StartDecision, NoRequest
    <3>5. ASSUME NEW s \in RemediationRequests, NEW d, WriteDecision(s, d) PROVE FALSE
      BY <3>1, <3>2, <3>5 DEF WriteDecision
    <3>6. ASSUME NEW s \in RemediationRequests, NEW p, NEW a, StartRemediation(s, p, a) PROVE FALSE
      BY <3>1, <3>2, <3>6 DEF StartRemediation
    <3>7. ASSUME NEW s \in RemediationRequests, CheckApproval(s) PROVE FALSE
      BY <2>1, <3>1, <3>7 DEF CheckApproval
    <3>8. ASSUME NEW s \in RemediationRequests, MarkUsed(s) \/ LoseRemediation(s) PROVE FALSE
      BY <3>1, <3>2, <3>8 DEF MarkUsed, LoseRemediation
    <3>9. ASSUME NEW a, NEW p, RequestRemediation(a, p) PROVE FALSE
      BY <3>1, <3>9 DEF RequestRemediation
    <3>10. ASSUME NEW f, EditForeign(f) PROVE FALSE
      BY <3>1, <3>10 DEF EditForeign
    <3> QED BY <3>3, <3>4, <3>5, <3>6, <3>7, <3>8, <3>9, <3>10 DEF RemediationNext
  <2>4. bucketRules' = [bucketRules EXCEPT !.managed = @ \cup {remediating[r].project}]
    BY <2>3 DEF PutConfiguration, Merged
  <2>5. /\ bucketRules'.foreign = bucketRules.foreign
        /\ bucketRules'.managed = bucketRules.managed \cup {remediating[r].project}
    BY <2>1, <2>4 DEF Rules
  <2> QED BY <2>2, <2>5 DEF Overlapped
<1>2. RemediationInv /\ [RemediationNext]_remediationVars => RemediationInv'
  BY RemediationStep
<1> HIDE DEF Keeps
<1>3. RemediationSpec => [][Keeps]_remediationVars
  BY <1>1, <1>2, RemediationFirst, PTL DEF RemediationSpec
<1> QED BY <1>3 DEF Keeps, KeepsOtherRules

(***************************************************************************)
(* SecretLeases: every call to a server that has a credential carries a    *)
(* lease of it, for any numbers of requests, servers, credentials, leases. *)
(***************************************************************************)
Steps == {"idle", "insert", "read", "commit", "call"}
Named == Credentials \cup {NoCredential, "unregistered"}
Leasings == [at : Steps, server : CredentialUsers \cup {"none"}, credential : Named, lease : Nat,
             gone : SUBSET Credentials]
Leases == [credential : Named, status : {"active", "revoked"}]
LeasedCalls == [by : LeaseRequests, server : CredentialUsers, lease : Nat, gone : SUBSET Credentials]

LeaseTypeOK ==
    /\ names \in [CredentialUsers -> Named]
    /\ secretLeases \in Seq(Leases)
    /\ leasing \in [LeaseRequests -> Leasings]
    /\ leasedCalls \in SUBSET LeasedCalls

\* A request that has read its server has read the credential it names still,
\* which was not archived when the request began ...
ReadIsNamed ==
    \A r \in LeaseRequests :
        leasing[r].at \in {"read", "commit", "call"} /\ leasing[r].server # "none" =>
            /\ names[leasing[r].server] = leasing[r].credential
            /\ leasing[r].credential # "unregistered"
            /\ leasing[r].credential \notin leasing[r].gone

\* ... and when it is about to call it holds a lease of it,
CallIsLeased ==
    \A r \in LeaseRequests :
        /\ leasing[r].at # "call" => leasing[r].lease = 0
        /\ leasing[r].at \in {"read", "commit"} => leasing[r].credential # NoCredential
        /\ leasing[r].at = "call" =>
              /\ leasing[r].server # "none"
              /\ leasing[r].credential = NoCredential => leasing[r].lease = 0
              /\ leasing[r].credential # NoCredential =>
                    /\ leasing[r].lease \in 1 .. Len(secretLeases)
                    /\ secretLeases[leasing[r].lease].credential = leasing[r].credential

\* that no call carries yet and no other request holds.
LeaseIsFresh ==
    \A r \in LeaseRequests : leasing[r].lease # 0 =>
        /\ \A x \in leasedCalls : x.lease # leasing[r].lease
        /\ \A s \in LeaseRequests : s # r => leasing[s].lease # leasing[r].lease

MadeOK ==
    \A x \in leasedCalls :
        /\ names[x.server] # "unregistered"
        /\ names[x.server] = NoCredential => x.lease = 0
        /\ names[x.server] # NoCredential =>
              /\ x.lease \in 1 .. Len(secretLeases)
              /\ secretLeases[x.lease].credential = names[x.server]
              /\ names[x.server] \notin x.gone

OneCallPerLease == \A x, y \in leasedCalls : x.lease # 0 /\ x.lease = y.lease => x = y

LeaseInv == LeaseTypeOK /\ ReadIsNamed /\ CallIsLeased /\ LeaseIsFresh /\ MadeOK /\ OneCallPerLease

LEMMA LeaseFirst == LeaseInit => LeaseInv
  BY DEF LeaseInit, LeaseInv, LeaseTypeOK, ReadIsNamed, CallIsLeased, LeaseIsFresh, MadeOK, OneCallPerLease,
         NotLeasing, NoCredential, Leasings, Steps, Named

\* A request begins, goes on without a lease, or ends.
LEMMA MovesOn ==
  ASSUME LeaseInv, UNCHANGED <<names, secretLeases, leasedCalls>>, NEW r \in LeaseRequests, NEW q \in Leasings,
         leasing' = [leasing EXCEPT ![r] = q], q.lease = 0,
         q.at \in {"read", "commit", "call"} /\ q.server # "none" =>
            /\ names[q.server] = q.credential
            /\ q.credential # "unregistered"
            /\ q.credential \notin q.gone,
         q.at \in {"read", "commit"} => q.credential # NoCredential,
         q.at = "call" => q.server # "none" /\ q.credential = NoCredential
  PROVE  LeaseInv'
<1>1. LeaseTypeOK'
  BY DEF LeaseInv, LeaseTypeOK
<1>2. ReadIsNamed'
  BY DEF LeaseInv, LeaseTypeOK, ReadIsNamed
<1>3. CallIsLeased'
  BY DEF LeaseInv, LeaseTypeOK, CallIsLeased
<1>4. LeaseIsFresh'
  BY DEF LeaseInv, LeaseTypeOK, LeaseIsFresh
<1>5. MadeOK' /\ OneCallPerLease'
  BY DEF LeaseInv, MadeOK, OneCallPerLease
<1> QED BY <1>1, <1>2, <1>3, <1>4, <1>5 DEF LeaseInv

LEMMA StartsStep ==
  ASSUME LeaseInv, UNCHANGED <<names, secretLeases, leasedCalls>>, NEW r \in LeaseRequests,
         NEW at \in Steps, NEW m \in CredentialUsers \cup {"none"}, NEW c \in Named, StartsLeasing(r, at, m, c),
         at = "insert" \/ m = "none" \/ (names[m] = c /\ c # "unregistered" /\ (c # NoCredential => credential[c] = "active")),
         at \in {"read", "commit"} => c # NoCredential,
         at = "call" => m # "none" /\ c = NoCredential
  PROVE  LeaseInv'
<1> DEFINE q == [at |-> at, server |-> m, credential |-> c, lease |-> 0,
                 gone |-> {x \in Credentials : credential[x] = "archived"}]
<1>1. q \in Leasings /\ q.lease = 0 /\ q.at = at /\ q.server = m /\ q.credential = c
  BY DEF Leasings
<1>2. (names[m] = c /\ c # "unregistered" /\ (c # NoCredential => credential[c] = "active")) => c \notin q.gone
  BY NamesAreNames
<1>3. leasing' = [leasing EXCEPT ![r] = q]
  BY DEF StartsLeasing
<1> HIDE DEF q
<1> QED BY <1>1, <1>2, <1>3, MovesOn

LEMMA EndsStep ==
  ASSUME LeaseInv, UNCHANGED <<names, secretLeases, leasedCalls>>, NEW r \in LeaseRequests, EndsLeasing(r)
  PROVE  LeaseInv'
<1>1. NotLeasing \in Leasings /\ NotLeasing.lease = 0 /\ NotLeasing.at = "idle"
  BY DEF NotLeasing, Leasings, Steps, Named, NoCredential
<1> QED BY <1>1, MovesOn DEF EndsLeasing

\* A registration changes no server that a request or a call has read.
LEMMA LeaseInsertStep == ASSUME LeaseInv, NEW r \in LeaseRequests, InsertServer(r) PROVE LeaseInv'
<1>1. /\ UNCHANGED <<secretLeases, leasedCalls>> /\ leasing' = [leasing EXCEPT ![r] = NotLeasing]
      /\ NotLeasing \in Leasings /\ NotLeasing.lease = 0 /\ NotLeasing.at = "idle"
  BY DEF InsertServer, EndsLeasing, NotLeasing, Leasings, Steps, Named, NoCredential
<1>2. /\ names' \in [CredentialUsers -> Named]
      /\ \A m \in CredentialUsers : names[m] # "unregistered" => names'[m] = names[m]
  <2>1. leasing[r].credential \in Named /\ names \in [CredentialUsers -> Named]
    BY DEF LeaseInv, LeaseTypeOK, Leasings
  <2> QED BY <2>1 DEF InsertServer
<1>3. LeaseTypeOK'
  BY <1>1, <1>2 DEF LeaseInv, LeaseTypeOK
<1>4. ReadIsNamed'
  <2>1. \A s \in LeaseRequests : leasing[s].server # "none" => leasing[s].server \in CredentialUsers
    BY DEF LeaseInv, LeaseTypeOK, Leasings
  <2> QED BY <1>1, <1>2, <2>1 DEF LeaseInv, LeaseTypeOK, ReadIsNamed
<1>5. CallIsLeased' /\ LeaseIsFresh'
  BY <1>1 DEF LeaseInv, LeaseTypeOK, CallIsLeased, LeaseIsFresh
<1>6. MadeOK'
  <2>1. \A x \in leasedCalls : x.server \in CredentialUsers
    BY DEF LeaseInv, LeaseTypeOK, LeasedCalls
  <2> QED BY <1>1, <1>2, <2>1 DEF LeaseInv, MadeOK
<1>7. OneCallPerLease'
  BY <1>1 DEF LeaseInv, OneCallPerLease
<1> QED BY <1>3, <1>4, <1>5, <1>6, <1>7 DEF LeaseInv

\* What is read of a lease does not change when leases are added or revoked.
LEMMA LeasesGrow ==
  ASSUME LeaseInv, secretLeases' \in Seq(Leases), Len(secretLeases') >= Len(secretLeases),
         \A l \in 1 .. Len(secretLeases) : secretLeases'[l].credential = secretLeases[l].credential,
         UNCHANGED <<names, leasedCalls>>
  PROVE  MadeOK'
<1>1. Len(secretLeases) \in Nat /\ Len(secretLeases') \in Nat
  BY DEF LeaseInv, LeaseTypeOK
<1>2. \A l \in 1 .. Len(secretLeases) : l \in 1 .. Len(secretLeases')
  BY <1>1
<1> QED BY <1>2 DEF LeaseInv, MadeOK

\* The lease a request commits is a new one.
LEMMA LeaseCommitStep == ASSUME LeaseInv, NEW r \in LeaseRequests, CommitLease(r) PROVE LeaseInv'
<1> DEFINE n == Len(secretLeases)
           new == NewLease(leasing[r].credential)
           q == [at |-> "call", server |-> leasing[r].server, credential |-> leasing[r].credential,
                 lease |-> n + 1, gone |-> leasing[r].gone]
<1>1. leasing[r] \in Leasings /\ n \in Nat /\ secretLeases \in Seq(Leases)
  BY DEF LeaseInv, LeaseTypeOK
<1>2. new \in Leases /\ new.credential = leasing[r].credential
  BY <1>1 DEF NewLease, Leases, Leasings
<1>3. secretLeases' = Append(secretLeases, new)
  BY DEF CommitLease
<1> HIDE DEF new
<1>4. /\ secretLeases' \in Seq(Leases) /\ Len(secretLeases') = n + 1
      /\ \A l \in 1 .. n : secretLeases'[l] = secretLeases[l]
      /\ secretLeases'[n + 1] = new
  BY <1>1, <1>2, <1>3
<1>5. MadeOK'
  BY <1>1, <1>4, LeasesGrow DEF CommitLease
<1>6. OneCallPerLease'
  BY DEF CommitLease, LeaseInv, OneCallPerLease
<1>7. /\ q \in Leasings /\ q.at = "call" /\ q.lease = n + 1 /\ q.server = leasing[r].server
      /\ q.credential = leasing[r].credential /\ q.gone = leasing[r].gone
  BY <1>1 DEF Leasings, Steps
<1>8. leasing' = [leasing EXCEPT ![r] = NotLeasing] \/ (leasing[r].server # "none" /\ leasing' = [leasing EXCEPT ![r] = q])
  BY <1>1, <1>4 DEF CommitLease, EndsLeasing
<1>9. NotLeasing \in Leasings /\ NotLeasing.lease = 0 /\ NotLeasing.at = "idle"
  BY DEF NotLeasing, Leasings, Steps, Named, NoCredential
<1>10. LeaseTypeOK' /\ UNCHANGED <<names, leasedCalls>>
  BY <1>4, <1>7, <1>8, <1>9 DEF CommitLease, LeaseInv, LeaseTypeOK
<1>11. leasing[r].at = "commit"
  BY DEF CommitLease
<1>18. leasing'[r] = NotLeasing \/ (leasing[r].server # "none" /\ leasing'[r] = q)
  BY <1>8 DEF LeaseInv, LeaseTypeOK
<1>19. \A s \in LeaseRequests : s # r => leasing'[s] = leasing[s]
  BY <1>8 DEF LeaseInv, LeaseTypeOK
<1>13. \A s \in LeaseRequests : leasing[s].lease \in 0 .. n
  BY <1>1 DEF LeaseInv, CallIsLeased, LeaseTypeOK, Leasings, Steps
<1>14. \A x \in leasedCalls : x.lease # n + 1
  BY <1>1 DEF LeaseInv, MadeOK
<1> HIDE DEF q, n
<1>12. ReadIsNamed'
  BY <1>7, <1>9, <1>10, <1>11, <1>18, <1>19 DEF LeaseInv, ReadIsNamed
<1>15. CallIsLeased'
  <2>3. ASSUME NEW s \in LeaseRequests, s # r, leasing[s].at = "call", leasing[s].credential # NoCredential
        PROVE  /\ leasing[s].lease \in 1 .. Len(secretLeases')
               /\ secretLeases'[leasing[s].lease].credential = leasing[s].credential
    BY <1>1, <1>4, <2>3 DEF LeaseInv, CallIsLeased, n
  <2>4. n + 1 \in 1 .. Len(secretLeases')
    BY <1>1, <1>4
  <2>5. CallIsLeased
    BY DEF LeaseInv
  <2>6. leasing[r].credential # NoCredential
    BY <1>11, <2>5 DEF CallIsLeased
  <2> QED BY <1>2, <1>4, <1>7, <1>9, <1>18, <1>19, <2>3, <2>4, <2>5, <2>6 DEF CallIsLeased
<1>17. LeaseIsFresh'
  <2>1. LeaseIsFresh
    BY DEF LeaseInv
  <2>2. ASSUME NEW s \in LeaseRequests, s # r PROVE leasing[s].lease # n + 1
    BY <1>1, <1>13 DEF n
  <2> QED BY <1>1, <1>7, <1>9, <1>10, <1>14, <1>18, <1>19, <2>1, <2>2 DEF LeaseIsFresh
<1> QED BY <1>5, <1>6, <1>10, <1>12, <1>15, <1>17 DEF LeaseInv

\* The lease of a call is not used again: the request that held it lets it go.
LEMMA LeaseCallStep == ASSUME LeaseInv, NEW r \in LeaseRequests, CallWithLease(r) PROVE LeaseInv'
<1> DEFINE x == [by |-> r, server |-> leasing[r].server, lease |-> leasing[r].lease, gone |-> leasing[r].gone]
<1>1. leasing[r] \in Leasings /\ leasing[r].at = "call" /\ leasing[r].server \in CredentialUsers
  BY DEF CallWithLease, LeaseInv, LeaseTypeOK, CallIsLeased, Leasings
<1>2. /\ names[leasing[r].server] = leasing[r].credential /\ leasing[r].credential # "unregistered"
      /\ leasing[r].credential \notin leasing[r].gone
      /\ leasing[r].credential = NoCredential => leasing[r].lease = 0
      /\ leasing[r].credential # NoCredential =>
            /\ leasing[r].lease \in 1 .. Len(secretLeases)
            /\ secretLeases[leasing[r].lease].credential = leasing[r].credential
  BY <1>1, NamesAreNames DEF LeaseInv, ReadIsNamed, CallIsLeased
<1>3. /\ x \in LeasedCalls /\ x.lease = leasing[r].lease /\ x.server = leasing[r].server /\ x.gone = leasing[r].gone
  BY <1>1 DEF LeasedCalls, Leasings
<1>4. leasedCalls' = leasedCalls \cup {x} /\ UNCHANGED <<names, secretLeases>>
  BY DEF CallWithLease
<1> HIDE DEF x
<1>5. MadeOK'
  BY <1>2, <1>3, <1>4 DEF LeaseInv, MadeOK
<1>6. leasing[r].lease # 0 => \A y \in leasedCalls : y.lease # x.lease
  BY <1>3 DEF LeaseInv, LeaseIsFresh
<1>7. OneCallPerLease'
  BY <1>3, <1>4, <1>6 DEF LeaseInv, OneCallPerLease
<1>8. NotLeasing \in Leasings /\ NotLeasing.lease = 0 /\ NotLeasing.at = "idle"
  BY DEF NotLeasing, Leasings, Steps, Named, NoCredential
<1>9. leasing' = [leasing EXCEPT ![r] = NotLeasing]
  BY DEF CallWithLease, EndsLeasing
<1>10. LeaseTypeOK'
  BY <1>3, <1>4, <1>8, <1>9 DEF LeaseInv, LeaseTypeOK
<1>11. ReadIsNamed' /\ CallIsLeased'
  BY <1>4, <1>8, <1>9 DEF LeaseInv, LeaseTypeOK, ReadIsNamed, CallIsLeased
<1>12. LeaseIsFresh'
  BY <1>3, <1>4, <1>8, <1>9 DEF LeaseInv, LeaseTypeOK, LeaseIsFresh
<1> QED BY <1>5, <1>7, <1>10, <1>11, <1>12 DEF LeaseInv

\* Revoking a lease leaves what it is a lease of.
LEMMA RevokeStep == ASSUME LeaseInv, NEW l \in DOMAIN secretLeases, RevokeLease(l) PROVE LeaseInv'
<1> DEFINE row == [secretLeases[l] EXCEPT !.status = "revoked"]
<1>1. secretLeases \in Seq(Leases) /\ l \in 1 .. Len(secretLeases) /\ secretLeases[l] \in Leases
  BY DEF LeaseInv, LeaseTypeOK
<1>2. row \in Leases /\ row.credential = secretLeases[l].credential
  BY <1>1 DEF Leases
<1>3. secretLeases' = [secretLeases EXCEPT ![l] = row] /\ UNCHANGED <<names, leasing, leasedCalls>>
  BY DEF RevokeLease
<1> HIDE DEF row
<1>4. /\ secretLeases' \in Seq(Leases) /\ Len(secretLeases') = Len(secretLeases)
      /\ \A k \in 1 .. Len(secretLeases) : secretLeases'[k].credential = secretLeases[k].credential
  BY <1>1, <1>2, <1>3
<1>5. MadeOK'
  BY <1>1, <1>3, <1>4, LeasesGrow
<1>6. CallIsLeased'
  BY <1>3, <1>4 DEF LeaseInv, CallIsLeased
<1>7. LeaseTypeOK' /\ ReadIsNamed' /\ LeaseIsFresh' /\ OneCallPerLease'
  BY <1>3, <1>4 DEF LeaseInv, LeaseTypeOK, ReadIsNamed, LeaseIsFresh, OneCallPerLease
<1> QED BY <1>5, <1>6, <1>7 DEF LeaseInv

LEMMA LeaseStep == LeaseInv /\ [LeaseNext]_leaseVars => LeaseInv'
<1> SUFFICES ASSUME LeaseInv, [LeaseNext]_leaseVars PROVE LeaseInv'
  OBVIOUS
<1>1. ASSUME UNCHANGED <<names, secretLeases, leasing, leasedCalls>> PROVE LeaseInv'
  BY <1>1 DEF LeaseInv, LeaseTypeOK, ReadIsNamed, CallIsLeased, LeaseIsFresh, MadeOK, OneCallPerLease
<1>2. ASSUME NEW c \in Credentials, CreateCredential(c) \/ ArchiveCredential(c) PROVE LeaseInv'
  BY <1>1, <1>2 DEF CreateCredential, ArchiveCredential
<1>3. ASSUME NEW r \in LeaseRequests, NEW m \in CredentialUsers, NEW c \in Credentials \cup {NoCredential},
             EnsureCredential(r, m, c)
      PROVE  LeaseInv'
  <2>1. "insert" \in Steps /\ c \in Named
    BY DEF Steps, Named
  <2> QED BY <1>3, <2>1, StartsStep DEF EnsureCredential
<1>4. ASSUME NEW r \in LeaseRequests, NEW m \in CredentialUsers, ReadServer(r, m) PROVE LeaseInv'
  <2>1. "read" \in Steps /\ "call" \in Steps /\ names[m] \in Named /\ m # "none"
    BY NamesAreNames DEF Steps, LeaseInv, LeaseTypeOK
  <2>2. CASE LeaseNeeded(m)
    BY <1>4, <2>1, <2>2, StartsStep DEF ReadServer, LeaseNeeded
  <2>3. CASE ~LeaseNeeded(m)
    BY <1>4, <2>1, <2>3, StartsStep DEF ReadServer, LeaseNeeded
  <2> QED BY <2>2, <2>3
<1>5. ASSUME NEW r \in LeaseRequests, NEW c \in Credentials, RequestLease(r, c) PROVE LeaseInv'
  <2>1. "read" \in Steps /\ c \in Named /\ c # NoCredential
    BY NamesAreNames DEF Steps, Named
  <2> QED BY <1>5, <2>1, StartsStep DEF RequestLease
<1>6. ASSUME NEW r \in LeaseRequests, ReadCredential(r) PROVE LeaseInv'
  <2> DEFINE q == [leasing[r] EXCEPT !.at = "commit"]
  <2>1. leasing[r] \in Leasings /\ leasing[r].at = "read"
    BY <1>6 DEF ReadCredential, LeaseInv, LeaseTypeOK
  <2>2. /\ q \in Leasings /\ q.at = "commit" /\ q.server = leasing[r].server /\ q.lease = leasing[r].lease
        /\ q.credential = leasing[r].credential /\ q.gone = leasing[r].gone
    BY <2>1 DEF Leasings, Steps
  <2>3. /\ leasing[r].lease = 0 /\ leasing[r].credential # NoCredential
        /\ leasing[r].server # "none" =>
              /\ names[leasing[r].server] = leasing[r].credential
              /\ leasing[r].credential # "unregistered"
              /\ leasing[r].credential \notin leasing[r].gone
    BY <2>1 DEF LeaseInv, CallIsLeased, ReadIsNamed
  <2>4. leasing' = [leasing EXCEPT ![r] = q] \/ EndsLeasing(r)
    BY <1>6 DEF ReadCredential, Continues
  <2> HIDE DEF q
  <2>5. CASE leasing' = [leasing EXCEPT ![r] = q]
    BY <1>6, <2>2, <2>3, <2>5, MovesOn DEF ReadCredential
  <2> QED BY <1>6, <2>4, <2>5, EndsStep DEF ReadCredential
<1>7. CASE UNCHANGED leaseVars
  BY <1>1, <1>7 DEF leaseVars
<1> QED
  BY <1>2, <1>3, <1>4, <1>5, <1>6, <1>7, LeaseInsertStep, LeaseCommitStep, LeaseCallStep, RevokeStep DEF LeaseNext

\* No call to a server that has a credential goes out without a lease of it
\* (tool_gateway/service.py), whatever is archived or revoked meanwhile.
THEOREM CallsAreLeasedCorrect == LeaseSpec => []CallsAreLeased
<1>1. LeaseInv => CallsAreLeased
  <2> SUFFICES ASSUME LeaseInv, NEW x \in leasedCalls, names[x.server] # NoCredential
               PROVE  /\ x.lease \in DOMAIN secretLeases
                      /\ secretLeases[x.lease].credential = names[x.server]
                      /\ names[x.server] \notin x.gone
                      /\ \A y \in leasedCalls : y.lease = x.lease => y = x
    BY DEF CallsAreLeased
  <2>1. /\ x.lease \in 1 .. Len(secretLeases) /\ secretLeases \in Seq(Leases)
        /\ secretLeases[x.lease].credential = names[x.server] /\ names[x.server] \notin x.gone
    BY DEF LeaseInv, LeaseTypeOK, MadeOK
  <2>2. x.lease # 0 /\ x.lease \in DOMAIN secretLeases
    BY <2>1
  <2> QED BY <2>1, <2>2 DEF LeaseInv, OneCallPerLease
<1> QED BY <1>1, LeaseFirst, LeaseStep, PTL DEF LeaseSpec

(***************************************************************************)
(* TrustStore: what a verification concludes, for any numbers of uploads,  *)
(* stores, bundles and verifications.                                      *)
(***************************************************************************)
\* The name of an object tells what is in it.
ObjectsAreNamed == \A o \in bundleObjects : o.body = o.key.digest

Stored(key) == \E o \in bundleObjects : o.key = key

\* The object of an upload is there before its row, and that of a row for good.
UploadsAreStored ==
    /\ upload = [u \in Uploads |-> upload[u]]
    /\ \A u \in Uploads : upload[u].at = "insert" =>
          /\ Stored(upload[u].key)
          /\ upload[u].key = ObjectKey(upload[u].store, upload[u].version, upload[u].bundle)

CertificatesAreStored ==
    /\ IsFiniteSet(certificates)
    /\ \A c \in certificates : Stored(c.key) /\ c.key = ObjectKey(c.store, c.version, c.sha256)
    /\ \A c, d \in certificates : SameVersion(c, d) => c = d

\* A file is what its certificate was uploaded with.
FileOf(c) == [store |-> c.store, version |-> c.version, body |-> c.sha256]

VerificationOK ==
    /\ verification = [at |-> verification.at, stores |-> verification.stores, listed |-> verification.listed,
                       files |-> verification.files, signer |-> verification.signer,
                       outcome |-> verification.outcome, count |-> verification.count]
    /\ verification.outcome # "mismatch"
    /\ verification.at \in {"list", "materialize"} => verification.outcome \notin {"passed", "rejected"}
    /\ verification.at = "list" => verification.files = {}
    /\ verification.at = "materialize" => verification.files \subseteq {FileOf(c) : c \in verification.listed}
    /\ verification.at = "materialize" =>
          /\ \A c \in verification.listed : c \in certificates /\ c.store \in verification.stores

TrustInv == ObjectsAreNamed /\ UploadsAreStored /\ CertificatesAreStored /\ VerificationOK /\ TrustIsExact

LEMMA TrustFirst == TrustInit => TrustInv
  BY FS_EmptySet DEF TrustInit, TrustInv, ObjectsAreNamed, UploadsAreStored, CertificatesAreStored, VerificationOK,
         TrustIsExact, NoVerification

\* Objects are replaced by their likes only.
LEMMA ObjectsStay ==
  ASSUME TrustInv, NEW u \in Uploads, PutObject(u)
  PROVE  /\ ObjectsAreNamed' /\ CertificatesAreStored' /\ UploadsAreStored'
<1> DEFINE key == ObjectKey(upload[u].store, upload[u].version, upload[u].bundle)
<1>1. /\ bundleObjects' = {o \in bundleObjects : o.key # key} \cup {[key |-> key, body |-> upload[u].bundle]}
      /\ upload' = [upload EXCEPT ![u] = [at |-> "insert", key |-> key, store |-> @.store,
                                          bundle |-> @.bundle, version |-> @.version]]
      /\ UNCHANGED <<certificates>>
  BY DEF PutObject
<1>2. key.digest = upload[u].bundle
  BY DEF ObjectKey
<1> HIDE DEF key
<1>3. ObjectsAreNamed'
  BY <1>1, <1>2 DEF TrustInv, ObjectsAreNamed
<1>4. \A k : Stored(k) => \E o \in bundleObjects' : o.key = k
  <2>1. ASSUME NEW o \in bundleObjects PROVE \E x \in bundleObjects' : x.key = o.key
    <3>1. CASE o.key = key
      <4>1. [key |-> key, body |-> upload[u].bundle] \in bundleObjects'
        BY <1>1
      <4> QED BY <3>1, <4>1
    <3>2. CASE o.key # key
      BY <1>1, <3>2
    <3> QED BY <3>1, <3>2
  <2> QED BY <2>1 DEF Stored
<1>5. \E o \in bundleObjects' : o.key = key
  <2>1. [key |-> key, body |-> upload[u].bundle] \in bundleObjects'
    BY <1>1
  <2> QED BY <2>1
<1>6. CertificatesAreStored'
  BY <1>1, <1>4 DEF TrustInv, CertificatesAreStored, Stored
<1>7. UploadsAreStored'
  <2>1. ASSUME NEW v \in Uploads, v # u PROVE upload'[v] = upload[v]
    BY <1>1, <2>1 DEF TrustInv, UploadsAreStored
  <2>2. /\ upload' = [v \in Uploads |-> upload'[v]]
        /\ upload'[u].key = key /\ upload'[u].store = upload[u].store
        /\ upload'[u].version = upload[u].version /\ upload'[u].bundle = upload[u].bundle
    BY <1>1 DEF TrustInv, UploadsAreStored
  <2> QED BY <1>4, <1>5, <2>1, <2>2 DEF TrustInv, UploadsAreStored, key, Stored
<1> QED BY <1>3, <1>6, <1>7

\* A row is inserted with a version of its own.
LEMMA UploadStep == ASSUME TrustInv, NEW u \in Uploads, InsertCertificate(u) PROVE TrustInv'
<1> DEFINE row == CertificateRow(u)
<1>1. /\ upload[u].at = "insert" /\ UNCHANGED <<bundleObjects, verification>>
      /\ certificates' = certificates \cup IF \E c \in certificates : SameVersion(c, row) THEN {} ELSE {row}
      /\ upload' = [upload EXCEPT ![u] = [at |-> "done"]]
  BY DEF InsertCertificate
<1>2. Stored(row.key) /\ row.key = ObjectKey(row.store, row.version, row.sha256)
  BY <1>1 DEF TrustInv, UploadsAreStored, CertificateRow
<1> HIDE DEF row
<1>3. certificates' = certificates \/ (certificates' = certificates \cup {row} /\ ~\E c \in certificates : SameVersion(c, row))
  BY <1>1
<1>4. IsFiniteSet(certificates')
  BY <1>3, FS_AddElement DEF TrustInv, CertificatesAreStored
<1>5. \A c, d \in certificates' : SameVersion(c, d) => c = d
  BY <1>3 DEF TrustInv, CertificatesAreStored, SameVersion
<1>6. CertificatesAreStored'
  BY <1>1, <1>2, <1>3, <1>4, <1>5 DEF TrustInv, CertificatesAreStored, Stored, SameVersion
<1>7. UploadsAreStored'
  BY <1>1 DEF TrustInv, UploadsAreStored, Stored
<1>8. ObjectsAreNamed'
  BY <1>1 DEF TrustInv, ObjectsAreNamed
<1>9. \A c \in certificates : c \in certificates'
  BY <1>3
<1>10. VerificationOK' /\ TrustIsExact'
  BY <1>1, <1>9 DEF TrustInv, VerificationOK, TrustIsExact
<1> QED BY <1>6, <1>7, <1>8, <1>10 DEF TrustInv

\* As many files as certificates: every certificate has its file.
LEMMA AllFiles ==
  ASSUME TrustInv, verification.at = "materialize",
         Cardinality(verification.files) = Cardinality(verification.listed)
  PROVE  verification.files = {FileOf(c) : c \in verification.listed}
<1> DEFINE L == verification.listed
           T == {FileOf(c) : c \in L}
           f == [c \in L |-> FileOf(c)]
<1>1. L \subseteq certificates /\ verification.files \subseteq T /\ IsFiniteSet(certificates)
  BY DEF TrustInv, VerificationOK, CertificatesAreStored
<1>2. IsFiniteSet(L)
  BY <1>1, FS_Subset
<1>3. f \in Surjection(L, T)
  BY DEF Surjection
<1>4. IsFiniteSet(T) /\ Cardinality(T) <= Cardinality(L)
  BY <1>2, <1>3, FS_Surjection
<1>5. verification.files \in SUBSET T
  BY <1>1
<1>6. /\ Cardinality(verification.files) <= Cardinality(T)
      /\ Cardinality(T) = Cardinality(verification.files) => T = verification.files
  BY <1>4, <1>5, FS_Subset
<1>7. Cardinality(T) \in Nat /\ Cardinality(L) \in Nat
  BY <1>2, <1>4, FS_CardinalityType
<1> QED BY <1>4, <1>6, <1>7

\* The verification's own steps.
LEMMA VerificationStep ==
  ASSUME TrustInv,
         \/ \E b \in Bundles : ReadTrustPolicy(b)
         \/ ListCertificates \/ FailVerification \/ Verify
         \/ \E c \in verification.listed : Materialize(c)
  PROVE  TrustInv'
<1>1. UNCHANGED <<certificates, bundleObjects, upload>>
  BY DEF ReadTrustPolicy, ListCertificates, FailVerification, Verify, Materialize
<1>2. ObjectsAreNamed' /\ UploadsAreStored' /\ CertificatesAreStored'
  BY <1>1 DEF TrustInv, ObjectsAreNamed, UploadsAreStored, CertificatesAreStored, Stored
<1>3. ASSUME NEW b \in Bundles, ReadTrustPolicy(b) PROVE VerificationOK' /\ TrustIsExact'
  BY <1>3 DEF ReadTrustPolicy, NoVerification, VerificationOK, TrustIsExact
<1> DEFINE v == verification
<1>4. CASE ListCertificates
  <2>1. /\ v.at = "list" /\ v'.outcome \in {v.outcome, "unconfigured"} /\ v'.at \in {"done", "materialize"}
        /\ v'.stores = v.stores /\ v'.files = v.files
        /\ v' = [at |-> v'.at, stores |-> v'.stores, listed |-> v'.listed, files |-> v'.files,
                 signer |-> v'.signer, outcome |-> v'.outcome, count |-> v'.count]
        /\ v'.at = "materialize" => v'.listed = {c \in certificates : c.store \in v'.stores}
    BY <1>4 DEF ListCertificates, TrustInv, VerificationOK
  <2>2. v.files = {} /\ v.outcome \notin {"passed", "rejected", "mismatch"}
    BY <2>1 DEF TrustInv, VerificationOK
  <2>3. VerificationOK'
    BY <1>1, <2>1, <2>2 DEF VerificationOK
  <2>4. TrustIsExact'
    BY <2>1, <2>2 DEF TrustIsExact
  <2> QED BY <1>2, <2>3, <2>4 DEF TrustInv
<1>5. CASE FailVerification
  <2>1. /\ v'.outcome = "failed" /\ v'.at = "done"
        /\ v' = [at |-> v'.at, stores |-> v'.stores, listed |-> v'.listed, files |-> v'.files,
                 signer |-> v'.signer, outcome |-> v'.outcome, count |-> v'.count]
    BY <1>5 DEF FailVerification, TrustInv, VerificationOK
  <2> QED BY <1>2, <2>1 DEF TrustInv, VerificationOK, TrustIsExact
<1>6. CASE Verify
  <2>1. /\ v.at = "materialize" /\ v'.at = "done" /\ v'.listed = v.listed /\ v'.stores = v.stores
        /\ v'.signer = v.signer
        /\ v'.outcome = IF \E f \in v.files : f.body = v.signer THEN "passed" ELSE "rejected"
        /\ v' = [at |-> v'.at, stores |-> v'.stores, listed |-> v'.listed, files |-> v'.files,
                 signer |-> v'.signer, outcome |-> v'.outcome, count |-> v'.count]
    BY <1>6 DEF Verify, TrustInv, VerificationOK
  <2>2. v.files = {FileOf(c) : c \in v.listed}
    BY <1>6, AllFiles DEF Verify
  <2>3. (\E f \in v.files : f.body = v.signer) <=> \E c \in v.listed : c.sha256 = v.signer
    <3>1. ASSUME NEW c \in v.listed, c.sha256 = v.signer PROVE \E f \in v.files : f.body = v.signer
      <4>1. FileOf(c) \in v.files /\ FileOf(c).body = v.signer
        BY <2>2, <3>1 DEF FileOf
      <4> QED BY <4>1
    <3>2. ASSUME NEW f \in v.files, f.body = v.signer PROVE \E c \in v.listed : c.sha256 = v.signer
      <4>1. PICK c \in v.listed : f = FileOf(c)
        BY <2>2, <3>2
      <4>2. c.sha256 = v.signer
        BY <3>2, <4>1 DEF FileOf
      <4> QED BY <4>2
    <3> QED BY <3>1, <3>2
  <2>4. \A c \in v.listed : c \in certificates /\ c.store \in v.stores
    BY <2>1 DEF TrustInv, VerificationOK
  <2> HIDE DEF v
  <2> QED BY <1>1, <1>2, <2>1, <2>3, <2>4 DEF TrustInv, VerificationOK, TrustIsExact, v
<1>7. ASSUME NEW c \in v.listed, Materialize(c) PROVE VerificationOK' /\ TrustIsExact'
  <2>1. v.at = "materialize" /\ c \in certificates
    BY <1>7 DEF Materialize, TrustInv, VerificationOK
  <2>2. \E o \in bundleObjects : o.key = c.key /\ o.body = c.sha256
    <3>1. PICK o \in bundleObjects : o.key = c.key
      BY <2>1 DEF TrustInv, CertificatesAreStored, Stored
    <3>2. o.body = c.sha256
      <4>1. o.key = ObjectKey(c.store, c.version, c.sha256) /\ o.body = o.key.digest
        BY <2>1, <3>1 DEF TrustInv, CertificatesAreStored, ObjectsAreNamed
      <4>2. ObjectKey(c.store, c.version, c.sha256).digest = c.sha256
        BY DEF ObjectKey
      <4> QED BY <4>1, <4>2
    <3> QED BY <3>1, <3>2
  <2>3. v' = [v EXCEPT !.files = @ \cup {FileOf(c)}]
    BY <1>7, <2>2 DEF Materialize, FileOf
  <2>4. /\ v'.at = "materialize" /\ v'.outcome = v.outcome /\ v'.listed = v.listed /\ v'.stores = v.stores
        /\ v'.files = v.files \cup {FileOf(c)}
        /\ v' = [at |-> v'.at, stores |-> v'.stores, listed |-> v'.listed, files |-> v'.files,
                 signer |-> v'.signer, outcome |-> v'.outcome, count |-> v'.count]
    BY <2>1, <2>3 DEF TrustInv, VerificationOK
  <2>5. v'.files \subseteq {FileOf(d) : d \in v.listed}
    BY <1>7, <2>1, <2>4 DEF TrustInv, VerificationOK
  <2> QED BY <1>1, <2>1, <2>4, <2>5 DEF TrustInv, VerificationOK, TrustIsExact
<1> QED BY <1>2, <1>3, <1>4, <1>5, <1>6, <1>7 DEF TrustInv

LEMMA TrustStep == TrustInv /\ [TrustNext]_trustVars => TrustInv'
<1> SUFFICES ASSUME TrustInv, [TrustNext]_trustVars PROVE TrustInv'
  OBVIOUS
<1> USE DEF TrustInv
<1>1. ASSUME UNCHANGED <<certificates, bundleObjects, upload, verification>> PROVE TrustInv'
  BY <1>1 DEF ObjectsAreNamed, UploadsAreStored, CertificatesAreStored, Stored, VerificationOK, TrustIsExact
<1>2. ASSUME NEW stores, SetTrustPolicy(stores) PROVE TrustInv'
  BY <1>1, <1>2 DEF SetTrustPolicy
<1>3. ASSUME NEW u \in Uploads, UNCHANGED <<certificates, bundleObjects, verification>>,
             NEW x, upload' = [upload EXCEPT ![u] = x], x.at # "insert"
      PROVE  TrustInv'
  <2>1. UploadsAreStored'
    BY <1>3 DEF UploadsAreStored, Stored
  <2>2. CertificatesAreStored'
    BY <1>3 DEF CertificatesAreStored, Stored
  <2> QED BY <1>3, <2>1, <2>2 DEF ObjectsAreNamed, VerificationOK, TrustIsExact
<1>4. ASSUME NEW u \in Uploads, NEW s, NEW b, ReadVersion(u, s, b) PROVE TrustInv'
  <2> DEFINE x == [at |-> "put", store |-> s, bundle |-> b, version |-> NextVersion(s)]
  <2>1. /\ UNCHANGED <<certificates, bundleObjects, verification>>
        /\ upload' = [upload EXCEPT ![u] = x] /\ x.at # "insert"
    BY <1>4 DEF ReadVersion
  <2> HIDE DEF x
  <2> QED BY <1>3, <2>1
<1>5. ASSUME NEW u \in Uploads, LoseUpload(u) PROVE TrustInv'
  <2> DEFINE x == [at |-> "done"]
  <2>1. /\ UNCHANGED <<certificates, bundleObjects, verification>>
        /\ upload' = [upload EXCEPT ![u] = x] /\ x.at # "insert"
    BY <1>5 DEF LoseUpload
  <2> HIDE DEF x
  <2> QED BY <1>3, <2>1
<1>6. ASSUME NEW u \in Uploads, PutObject(u) PROVE TrustInv'
  <2>1. UNCHANGED <<certificates, verification>>
    BY <1>6 DEF PutObject
  <2> QED BY <1>6, <2>1, ObjectsStay DEF VerificationOK, TrustIsExact
<1>7. CASE UNCHANGED trustVars
  BY <1>1, <1>7 DEF trustVars
<1> HIDE DEF TrustInv
<1> QED BY <1>2, <1>4, <1>5, <1>6, <1>7, UploadStep, VerificationStep DEF TrustNext

\* A verification finds every certificate as it was uploaded and passes what
\* is signed under one of a store the policy names (image_evidence.py).
THEOREM TrustIsExactCorrect == TrustSpec => []TrustIsExact
<1>1. TrustInv => TrustIsExact
  BY DEF TrustInv
<1> QED BY <1>1, TrustFirst, TrustStep, PTL DEF TrustSpec
=============================================================================
