---------------------------- MODULE ToolRegistry ----------------------------
(* The tools of one MCP server (tool_registry/sqlalchemy_store.py): requests *)
(* synchronise them with what the server lists, a tool group authorizes some *)
(* of them, and an agent asks which ones it may call.  A synchronisation     *)
(* reads the server row, asks the server, reads the definitions and writes   *)
(* back the columns that differ from what it read.                           *)
EXTENDS Naturals, FiniteSets

CONSTANTS Syncs,        \* the synchronisations that may be in progress
          ToolNames,    \* the tools the server may list
          Listings,     \* its answers: functions from tool names to risks
          GroupRisk,    \* the risk of the tool group
          MaxSyncVersion \* bound: how far the sync version grows

\* Risks in the order of _highest_risk_level: low, medium, high, critical.
ToolRisks == 0 .. 3

ASSUME ListingsAreRisks ==
    /\ \A l \in Listings : DOMAIN l \subseteq ToolNames /\ \A t \in DOMAIN l : l[t] \in ToolRisks
    /\ GroupRisk \in ToolRisks

VARIABLES toolDefs,    \* the definition rows, by tool name
          groupItems,  \* the items of the group, by tool name
          serverSync,  \* the last sync of the server row
          syncs        \* the synchronisations in progress

registryVars == <<toolDefs, groupItems, serverSync, syncs>>

NoDefinition == [status |-> "none", risk |-> 0, version |-> 0]
NoItem == [status |-> "none", risk |-> 0]
NeverSynced == [version |-> 0, status |-> "never"]
NoListing == [t \in {} |-> 0]
NoDefs == [t \in ToolNames |-> NoDefinition]
NoSync == [at |-> "idle", version |-> 0, status |-> "never", listing |-> NoListing, copy |-> NoDefs]

RegistryInit ==
    /\ toolDefs = NoDefs
    /\ groupItems = [t \in ToolNames |-> NoItem]
    /\ serverSync = NeverSynced
    /\ syncs = [s \in Syncs |-> NoSync]

StartSync(s) ==
    /\ syncs[s] = NoSync
    /\ serverSync.version < MaxSyncVersion
    /\ syncs' = [syncs EXCEPT ![s].at = "list", ![s].version = serverSync.version + 1,
                              ![s].status = serverSync.status]
    /\ UNCHANGED <<toolDefs, groupItems, serverSync>>

ListTools(s, listing) ==
    /\ syncs[s].at = "list"
    /\ syncs' = [syncs EXCEPT ![s].at = "read", ![s].listing = listing]
    /\ UNCHANGED <<toolDefs, groupItems, serverSync>>

\* The status is written when it differs from what this request read.
SyncStatus(s, status) == IF syncs[s].status = status THEN serverSync.status ELSE status

\* The server does not answer, or its address is refused: the definitions
\* stay as they are.
FailSync(s) ==
    /\ syncs[s].at = "list"
    /\ serverSync' = [serverSync EXCEPT !.status = SyncStatus(s, "failed")]
    /\ syncs' = [syncs EXCEPT ![s] = NoSync]
    /\ UNCHANGED <<toolDefs, groupItems>>

ReadDefinitions(s) ==
    /\ syncs[s].at = "read"
    /\ syncs' = [syncs EXCEPT ![s].at = "write", ![s].copy = toolDefs]
    /\ UNCHANGED <<toolDefs, groupItems, serverSync>>

\* Mutant: tools the server no longer lists stay active.
Upserted_Kept(row, old, name, listing, version) ==
    IF name \in DOMAIN listing
    THEN [status |-> "active", risk |-> listing[name], version |-> version]
    ELSE row

\* A row after the write: a column is written when it differs from the copy.
Upserted(row, old, name, listing, version) ==
    IF name \in DOMAIN listing
    THEN [status  |-> IF old.status = "active" THEN row.status ELSE "active",
          risk    |-> IF old.risk = listing[name] THEN row.risk ELSE listing[name],
          version |-> IF old.version = version THEN row.version ELSE version]
    ELSE IF old.status = "active" THEN [row EXCEPT !.status = "stale"] ELSE row

\* Another synchronisation has inserted a tool this one would insert.
InsertConflict(s) ==
    \E t \in DOMAIN syncs[s].listing : syncs[s].copy[t].status = "none" /\ toolDefs[t].status # "none"

CommitSync(s) ==
    LET r == syncs[s]
    IN  /\ r.at = "write"
        /\ IF InsertConflict(s)
           THEN UNCHANGED <<toolDefs, serverSync>>
           ELSE /\ toolDefs' = [t \in ToolNames |->
                                  Upserted(toolDefs[t], r.copy[t], t, r.listing, r.version)]
                /\ serverSync' = [version |-> r.version, status |-> SyncStatus(s, "success")]
        /\ syncs' = [syncs EXCEPT ![s] = NoSync]
        /\ UNCHANGED groupItems

LoseSync(s) ==
    /\ syncs[s] # NoSync
    /\ syncs' = [syncs EXCEPT ![s] = NoSync]
    /\ UNCHANGED <<toolDefs, groupItems, serverSync>>

\* The item keeps the risk it has now: the highest of group and definition.
CreateItem(t) ==
    /\ toolDefs[t].status = "active"
    /\ groupItems[t].status = "none"
    /\ groupItems' = [groupItems EXCEPT ![t] =
          [status |-> "active", risk |-> IF toolDefs[t].risk > GroupRisk THEN toolDefs[t].risk ELSE GroupRisk]]
    /\ UNCHANGED <<toolDefs, serverSync, syncs>>

ArchiveItem(t) ==
    /\ groupItems[t].status = "active"
    /\ groupItems' = [groupItems EXCEPT ![t].status = "archived"]
    /\ UNCHANGED <<toolDefs, serverSync, syncs>>

RegistryNext ==
    \/ \E s \in Syncs : StartSync(s) \/ FailSync(s) \/ ReadDefinitions(s) \/ CommitSync(s) \/ LoseSync(s)
    \/ \E s \in Syncs, l \in Listings : ListTools(s, l)
    \/ \E t \in ToolNames : CreateItem(t) \/ ArchiveItem(t)

RegistrySpec == RegistryInit /\ [][RegistryNext]_registryVars

\* resolve_authorized_tools for a caller every item admits.
AuthorizedTools == {t \in ToolNames : groupItems[t].status = "active" /\ toolDefs[t].status = "active"}

\* A synchronisation that no other overlaps while it reads and writes leaves
\* authorized exactly the grouped tools the server listed, at the risk it
\* listed: tools that vanished are out, tools that came back are in.
SyncIsExact ==
    [][\A s \in Syncs : CommitSync(s) /\ syncs[s].copy = toolDefs
          => LET listing == syncs[s].listing
             IN  /\ AuthorizedTools' = {t \in DOMAIN listing : groupItems[t].status = "active"}
                 /\ \A t \in DOMAIN listing : toolDefs'[t].risk = listing[t]]_registryVars
=============================================================================
