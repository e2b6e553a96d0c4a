------------------------------- MODULE Retrieval -------------------------------
(* The retrieval gateway (retrieval/sqlalchemy_store.py) on the documents of *)
(* Knowledge: a query loads the visible chunks in one statement, drops those *)
(* the asker may not read, searches, and checks the access lists again, for  *)
(* documents and lists may change while the vector store answers.  Each      *)
(* check is a statement for every list of every candidate, one after the     *)
(* other, and the lists may change between any two of them.                  *)
EXTENDS Knowledge

CONSTANTS Queries,     \* the queries in progress
          Subjects,    \* subject references that entries of an access list name
          Asker,       \* those of the account that queries
          TopK,        \* results at most
          MaxAclChanges \* bound: changes of access lists

ASSUME AskerIsSubject == Asker \subseteq Subjects /\ TopK \in Nat \ {0}

VARIABLES acl,         \* scope -> the subjects with an active read entry
          aclChanges,  \* how often a list has changed
          query        \* what each query has read and may not return

retrievalVars == <<documents, versions, importing, deleting, acl, aclChanges, query>>

Chunks == {<<d, n>> : d \in Documents, n \in 1 .. MaxVersions}
\* The scopes of a chunk that have access lists, in the order they are read.
ScopesOf(c) == <<<<"knowledge_base", NoDocument, 0>>, <<"document", c[1], 0>>, <<"chunk", c[1], c[2]>>>>
Scopes == UNION {{ScopesOf(c)[k] : k \in 1 .. 3} : c \in Chunks}

\* The checks of candidates that are left: each with the list to read next.
ToCheck(C) == C \X {1}

NoQuery == [at |-> "idle", chunks |-> {}, todo |-> {}, gone |-> {}, barred |-> {}]

RetrievalInit ==
    /\ KnowledgeInit
    /\ acl = [s \in Scopes |-> {}]
    /\ aclChanges = 0
    /\ query = [q \in Queries |-> NoQuery]

\* A scope without entries is open; otherwise one must name the asker.
Bars(list, s) == list[s] # {} /\ list[s] \cap Asker = {}

Visible(c) ==
    /\ c[2] \in Numbers(c[1])
    /\ documents[c[1]].exists /\ ~documents[c[1]].deleted
    /\ versions[c[1]][c[2]].status = "active"
    /\ ~versions[c[1]][c[2]].deleted /\ versions[c[1]][c[2]].ready

Load(q) ==
    /\ query[q].at = "idle"
    /\ LET C == {c \in Chunks : Visible(c)}
       IN  query' = [query EXCEPT ![q] =
               [at |-> "allow", chunks |-> C, todo |-> ToCheck(C),
                gone |-> {c \in Chunks : documents[c[1]].deleted}, barred |-> {}]]
    /\ UNCHANGED <<knowledgeVars, acl, aclChanges>>

\* Mutant: the check after the search reads the lists and lets all pass.
Refused_Trusted(q, t) == query[q].at = "allow" /\ Bars(acl, ScopesOf(t[1])[t[2]])

\* The list that check t reads bars the asker.
Refused(q, t) == Bars(acl, ScopesOf(t[1])[t[2]])

\* The lists of a candidate are read one by one until one of them refuses it;
\* then the next candidate has its turn.
ReadAcl(q) == \E t \in query[q].todo :
    /\ t[2] = 1 => \A u \in query[q].todo : u[2] = 1
    /\ LET next == IF Refused(q, t) \/ t[2] = 3 THEN {} ELSE {<<t[1], t[2] + 1>>}
       IN  query' = [query EXCEPT ![q].todo = (@ \ {t}) \cup next,
                                  ![q].chunks = IF Refused(q, t) THEN @ \ {t[1]} ELSE @]
    /\ UNCHANGED <<knowledgeVars, acl, aclChanges>>

\* The candidates of either search, which RankFusion merges; a vector store
\* that fails contributes none.
Search(q) == \E S \in SUBSET query[q].chunks :
    /\ query[q].at = "allow" /\ query[q].todo = {}
    /\ query' = [query EXCEPT ![q].at = "recheck", ![q].chunks = S, ![q].todo = ToCheck(S),
                              ![q].barred = {s \in Scopes : Bars(acl, s)}]
    /\ UNCHANGED <<knowledgeVars, acl, aclChanges>>

\* The reranker keeps its input; the best TopK are returned and logged.
Answer(q) == \E S \in SUBSET query[q].chunks :
    /\ query[q].at = "recheck" /\ query[q].todo = {}
    /\ IF Cardinality(query[q].chunks) <= TopK THEN S = query[q].chunks ELSE Cardinality(S) = TopK
    /\ query' = [query EXCEPT ![q].at = "answered", ![q].chunks = S]
    /\ UNCHANGED <<knowledgeVars, acl, aclChanges>>

Return(q) ==
    /\ query[q].at = "answered"
    /\ query' = [query EXCEPT ![q] = NoQuery]
    /\ UNCHANGED <<knowledgeVars, acl, aclChanges>>

\* Entries of access lists are written outside this program.
ChangeAcl(s) == \E S \in SUBSET Subjects :
    /\ aclChanges < MaxAclChanges
    /\ S # acl[s]
    /\ acl' = [acl EXCEPT ![s] = S]
    /\ aclChanges' = aclChanges + 1
    /\ query' = [q \in Queries |->
           IF query[q].at = "answered" THEN query[q]
           ELSE [query[q] EXCEPT !.barred = {x \in @ : Bars(acl', x)}]]
    /\ UNCHANGED knowledgeVars

RetrievalNext ==
    \/ KnowledgeNext /\ UNCHANGED <<acl, aclChanges, query>>
    \/ \E q \in Queries : Load(q) \/ ReadAcl(q) \/ Search(q) \/ Answer(q) \/ Return(q)
    \/ \E s \in Scopes : ChangeAcl(s)

RetrievalSpec == RetrievalInit /\ [][RetrievalNext]_retrievalVars

\* A query returns nothing of a document that was deleted when the query
\* began, even one whose import overtook its deletion, and no chunk one of
\* whose lists barred the asker when the search answered and has since: the
\* first check is not what the answer relies on.
ResultsAreVisible ==
    \A q \in Queries : query[q].at = "answered" =>
        \A c \in query[q].chunks :
            c \notin query[q].gone /\ \A k \in 1 .. 3 : ScopesOf(c)[k] \notin query[q].barred
=============================================================================
