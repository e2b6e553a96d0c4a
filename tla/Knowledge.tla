------------------------------- MODULE Knowledge -------------------------------
(* Documents of a knowledge base and their versions                          *)
(* (knowledge/sqlalchemy_store.py).  An import reads the document and then   *)
(* its versions, stores the texts and commits everything at the end; another *)
(* import or a deletion of the document may commit in between.  The chunks   *)
(* of a version are written with it and share its fields here.               *)
EXTENDS Naturals, Sequences, FiniteSets

CONSTANTS Documents,    \* document references
          Contents,     \* what may be imported: the hashes tell texts apart
          Importers,    \* import requests in progress
          Deleters,     \* delete requests in progress
          MaxVersions   \* bound: versions of a document

VARIABLES documents,  \* document -> its row
          versions,   \* document -> its version rows, with their chunks
          importing,  \* importer -> what it read
          deleting    \* deleter -> the document it read, or NoDocument

knowledgeVars == <<documents, versions, importing, deleting>>

CONSTANT NoDocument
NoRow      == [exists |-> FALSE, deleted |-> FALSE, current |-> 0]
NotStarted == [at |-> "idle", document |-> NoDocument, content |-> "", seen |-> NoRow, old |-> {}]

KnowledgeInit ==
    /\ documents = [d \in Documents |-> NoRow]
    /\ versions = [d \in Documents |-> <<>>]
    /\ importing = [i \in Importers |-> NotStarted]
    /\ deleting = [x \in Deleters |-> NoDocument]

Numbers(d)     == DOMAIN versions[d]
NotDeleted(d)  == {n \in Numbers(d) : ~versions[d][n].deleted}
LatestVersion(d) == {n \in NotDeleted(d) : \A m \in NotDeleted(d) : m <= n}

\* import_text_document: the document by its reference, deleted or not.
ReadDocument(i, d) == \E c \in Contents :
    /\ importing[i].at = "idle"
    /\ importing' = [importing EXCEPT ![i] =
           [at |-> "versions", document |-> d, content |-> c, seen |-> documents[d], old |-> {}]]
    /\ UNCHANGED <<documents, versions, deleting>>

\* The latest version of a document that is not deleted already holds this text.
Unchanged(i) ==
    LET d == importing[i].document
    IN  /\ importing[i].seen.exists /\ ~importing[i].seen.deleted
        /\ \E n \in LatestVersion(d) : /\ versions[d][n].content = importing[i].content
                                       /\ versions[d][n].ready

\* Mutant: a document that is imported again after its deletion is taken to
\* have no version left to supersede.
Superseded_Revived(i) ==
    {n \in NotDeleted(importing[i].document) :
        /\ versions[importing[i].document][n].status = "active"
        /\ ~importing[i].seen.deleted}

\* The versions the import sets to "superseded", and their chunks.
Superseded(i) ==
    {n \in NotDeleted(importing[i].document) :
        versions[importing[i].document][n].status = "active"}

ReadVersions(i) ==
    /\ importing[i].at = "versions"
    /\ importing' = [importing EXCEPT ![i] =
           IF Unchanged(i) THEN NotStarted
           ELSE [@ EXCEPT !.at = "commit",
                          !.old = IF importing[i].seen.exists THEN Superseded(i) ELSE {}]]
    /\ UNCHANGED <<documents, versions, deleting>>

\* The update names only the columns whose value differs from what was read:
\* a document read before its deletion stays deleted.
Imported(seen, row) ==
    [exists  |-> TRUE,
     deleted |-> IF seen.deleted THEN FALSE ELSE row.deleted,
     current |-> seen.current + 1]

NewVersion(c) == [content |-> c, status |-> "active", ready |-> TRUE, deleted |-> FALSE]

\* The document row is locked from the first flush to the commit.  Its
\* reference and the version's number are unique.
CommitImport(i) ==
    LET d == importing[i].document
        n == importing[i].seen.current + 1
    IN  /\ importing[i].at = "commit"
        /\ n \notin Numbers(d) /\ n <= MaxVersions
        /\ importing[i].seen.exists = documents[d].exists
        /\ documents' = [documents EXCEPT ![d] = Imported(importing[i].seen, @)]
        /\ versions' = [versions EXCEPT ![d] = Append(
               [m \in DOMAIN @ |-> IF m \in importing[i].old
                                   THEN [@[m] EXCEPT !.status = "superseded"] ELSE @[m]],
               NewVersion(importing[i].content))]
        /\ importing' = [importing EXCEPT ![i] = NotStarted]
        /\ UNCHANGED deleting

\* A number or a reference that is taken, an object store that fails: the
\* transaction is rolled back and the request answers with an error.
FailImport(i) ==
    /\ importing[i].at = "commit"
    /\ importing' = [importing EXCEPT ![i] = NotStarted]
    /\ UNCHANGED <<documents, versions, deleting>>

ReadForDelete(x, d) ==
    /\ deleting[x] = NoDocument
    /\ documents[d].exists /\ ~documents[d].deleted
    /\ deleting' = [deleting EXCEPT ![x] = d]
    /\ UNCHANGED <<documents, versions, importing>>

\* The document is written, and locked, before its versions are read.
CommitDelete(x) ==
    LET d == deleting[x]
    IN  /\ d # NoDocument
        /\ documents' = [documents EXCEPT ![d].deleted = TRUE]
        /\ versions' = [versions EXCEPT ![d] = [n \in DOMAIN @ |->
               [@[n] EXCEPT !.status = "deleted", !.ready = FALSE, !.deleted = TRUE]]]
        /\ deleting' = [deleting EXCEPT ![x] = NoDocument]
        /\ UNCHANGED importing

KnowledgeNext ==
    \/ \E i \in Importers : \/ \E d \in Documents : ReadDocument(i, d)
                            \/ ReadVersions(i) \/ CommitImport(i) \/ FailImport(i)
    \/ \E x \in Deleters : \/ \E d \in Documents : ReadForDelete(x, d)
                           \/ CommitDelete(x)

KnowledgeSpec == KnowledgeInit /\ [][KnowledgeNext]_knowledgeVars

\* Imports that race each other and deletions leave a document with at most
\* one active version, the one its row calls current.
OneLiveVersion ==
    \A d \in Documents : \A n \in Numbers(d) :
        versions[d][n].status = "active" => n = documents[d].current
=============================================================================
