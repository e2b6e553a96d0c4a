--------------------------- MODULE Knowledge_proofs ---------------------------
(* The knowledge base: the one live version of a document, results without   *)
(* what the asker may not see, the fusion of two searches, and the cutting   *)
(* of a document into chunks.                                                *)
EXTENDS Retrieval, RankFusion, Chunking, Extrema, FiniteSetTheorems, SequenceTheorems, TLAPS

(***************************************************************************)
(* Knowledge.                                                              *)
(***************************************************************************)
DocumentRow == [exists : BOOLEAN, deleted : BOOLEAN, current : Nat]
VersionRow  == [content : Contents, status : {"active", "superseded", "deleted"},
                ready : BOOLEAN, deleted : BOOLEAN]
ImportRow   == [at : {"idle", "versions", "commit"}, document : Documents \cup {NoDocument},
                content : Contents \cup {""}, seen : DocumentRow, old : SUBSET Nat]

KnowledgeTypeOK ==
    /\ documents \in [Documents -> DocumentRow]
    /\ versions \in [Documents -> Seq(VersionRow)]
    /\ importing \in [Importers -> ImportRow]
    /\ deleting \in [Deleters -> Documents \cup {NoDocument}]

\* The number a document's row holds counts its versions, and only the last of
\* them may be active.
RowCounts(d) ==
    /\ documents[d].current = Len(versions[d])
    /\ ~documents[d].exists => Len(versions[d]) = 0
    /\ \A n \in 1 .. Len(versions[d]) :
          versions[d][n].status = "active" => n = Len(versions[d]) /\ ~versions[d][n].deleted

\* What an import read is behind the row by the imports committed since; when
\* none was, it supersedes every active version there is.
ReadInTime(i) ==
    LET d == importing[i].document
    IN  importing[i].at # "idle" =>
          /\ d \in Documents
          /\ importing[i].content \in Contents
          /\ importing[i].seen.current <= Len(versions[d])
          /\ ~importing[i].seen.exists => importing[i].seen.current = 0
          /\ importing[i].at = "commit" /\ importing[i].seen.current = Len(versions[d]) =>
                \A n \in 1 .. Len(versions[d]) :
                    versions[d][n].status = "active" => n \in importing[i].old

KnowledgeInv ==
    /\ KnowledgeTypeOK
    /\ \A d \in Documents : RowCounts(d)
    /\ \A i \in Importers : ReadInTime(i)

LEMMA NumbersOf ==
  ASSUME KnowledgeTypeOK, NEW d \in Documents
  PROVE  Len(versions[d]) \in Nat /\ Numbers(d) = 1 .. Len(versions[d])
         /\ versions[d] \in [1 .. Len(versions[d]) -> VersionRow]
<1>1. versions[d] \in Seq(VersionRow)
  BY DEF KnowledgeTypeOK
<1> QED BY <1>1, LenProperties DEF Numbers

LEMMA IdleRow == NotStarted \in ImportRow /\ NotStarted.at = "idle"
  BY DEF NotStarted, ImportRow, NoRow, DocumentRow

LEMMA KnowledgeFirst == KnowledgeInit => KnowledgeInv
<1> SUFFICES ASSUME KnowledgeInit PROVE KnowledgeInv
  OBVIOUS
<1>1. KnowledgeTypeOK
  BY IdleRow, EmptySeq DEF KnowledgeInit, KnowledgeTypeOK, NoRow, DocumentRow
<1>2. \A d \in Documents : RowCounts(d)
  BY DEF KnowledgeInit, RowCounts, NoRow
<1>3. \A i \in Importers : ReadInTime(i)
  BY IdleRow DEF KnowledgeInit, ReadInTime
<1> QED BY <1>1, <1>2, <1>3 DEF KnowledgeInv

\* A step that changes what imports have read and leaves the rows alone.
LEMMA ImportMoves ==
  ASSUME KnowledgeInv, UNCHANGED <<documents, versions>>, deleting' \in [Deleters -> Documents \cup {NoDocument}],
         importing' \in [Importers -> ImportRow], \A i \in Importers : ReadInTime(i)'
  PROVE  KnowledgeInv'
  BY DEF KnowledgeInv, KnowledgeTypeOK, RowCounts

LEMMA ReadDocumentStep ==
  ASSUME KnowledgeInv, NEW i \in Importers, NEW d \in Documents, ReadDocument(i, d)
  PROVE  KnowledgeInv'
<1>1. PICK c \in Contents : importing' = [importing EXCEPT ![i] =
           [at |-> "versions", document |-> d, content |-> c, seen |-> documents[d], old |-> {}]]
  BY DEF ReadDocument
<1>2. documents[d] \in DocumentRow /\ RowCounts(d) /\ Len(versions[d]) \in Nat
  BY NumbersOf DEF KnowledgeInv, KnowledgeTypeOK
<1>3. importing' \in [Importers -> ImportRow]
  BY <1>1, <1>2 DEF KnowledgeInv, KnowledgeTypeOK, ImportRow
<1>4. ASSUME NEW j \in Importers PROVE ReadInTime(j)'
  <2>1. CASE j = i
    BY <1>1, <1>2, <2>1 DEF ReadInTime, RowCounts, ReadDocument, KnowledgeInv, KnowledgeTypeOK
  <2>2. CASE j # i
    BY <1>1, <2>2 DEF ReadInTime, ReadDocument, KnowledgeInv, KnowledgeTypeOK
  <2> QED BY <2>1, <2>2
<1> QED BY <1>3, <1>4, ImportMoves DEF ReadDocument, KnowledgeInv, KnowledgeTypeOK

\* Ending an import leaves nothing to hold.
LEMMA ImportEnds ==
  ASSUME KnowledgeInv, NEW i \in Importers, importing' = [importing EXCEPT ![i] = NotStarted],
         UNCHANGED <<documents, versions, deleting>>
  PROVE  KnowledgeInv'
<1>1. importing' \in [Importers -> ImportRow]
  BY IdleRow DEF KnowledgeInv, KnowledgeTypeOK
<1>2. ASSUME NEW j \in Importers PROVE ReadInTime(j)'
  BY IdleRow DEF ReadInTime, KnowledgeInv, KnowledgeTypeOK
<1> QED BY <1>1, <1>2, ImportMoves DEF KnowledgeInv, KnowledgeTypeOK

LEMMA ReadVersionsStep ==
  ASSUME KnowledgeInv, NEW i \in Importers, ReadVersions(i)
  PROVE  KnowledgeInv'
<1>1. CASE Unchanged(i)
  BY <1>1, ImportEnds DEF ReadVersions
<1>2. CASE ~Unchanged(i)
  <2> DEFINE d   == importing[i].document
             old == IF importing[i].seen.exists THEN Superseded(i) ELSE {}
  <2>1. importing' = [importing EXCEPT ![i] = [@ EXCEPT !.at = "commit", !.old = old]]
    BY <1>2 DEF ReadVersions
  <2>2. /\ importing[i] \in ImportRow /\ importing[i].at = "versions" /\ ReadInTime(i) /\ d \in Documents
        /\ RowCounts(d) /\ Len(versions[d]) \in Nat /\ Numbers(d) = 1 .. Len(versions[d])
    BY NumbersOf DEF ReadVersions, KnowledgeInv, KnowledgeTypeOK, ReadInTime
  <2>3. old \in SUBSET Nat
    BY <2>2 DEF Superseded, NotDeleted
  <2>4. importing[i].seen.current = Len(versions[d]) =>
          \A n \in 1 .. Len(versions[d]) : versions[d][n].status = "active" => n \in old
    <3>1. CASE importing[i].seen.exists
      BY <2>2, <3>1 DEF Superseded, NotDeleted, RowCounts
    <3>2. CASE ~importing[i].seen.exists
      BY <2>2, <3>2 DEF ReadInTime
    <3> QED BY <3>1, <3>2
  <2> HIDE DEF old
  <2>5. importing' \in [Importers -> ImportRow]
    BY <2>1, <2>2, <2>3 DEF KnowledgeInv, KnowledgeTypeOK, ImportRow
  <2>6. ASSUME NEW j \in Importers PROVE ReadInTime(j)'
    <3>1. CASE j = i
      <4>1. /\ importing'[i].at = "commit" /\ importing'[i].old = old /\ importing'[i].document = d
            /\ importing'[i].content = importing[i].content /\ importing'[i].seen = importing[i].seen
        BY <2>1, <2>2 DEF KnowledgeInv, KnowledgeTypeOK, ImportRow
      <4> QED BY <2>2, <2>4, <3>1, <4>1 DEF ReadInTime, ReadVersions
    <3>2. CASE j # i
      BY <2>1, <3>2 DEF ReadInTime, ReadVersions, KnowledgeInv, KnowledgeTypeOK
    <3> QED BY <3>1, <3>2
  <2> QED BY <2>5, <2>6, ImportMoves DEF ReadVersions, KnowledgeInv, KnowledgeTypeOK
<1> QED BY <1>1, <1>2

LEMMA CommitImportStep ==
  ASSUME KnowledgeInv, NEW i \in Importers, CommitImport(i)
  PROVE  KnowledgeInv'
<1> DEFINE d    == importing[i].document
           n    == Len(versions[d])
           row  == Imported(importing[i].seen, documents[d])
           past == [m \in DOMAIN versions[d] |-> IF m \in importing[i].old
                                                 THEN [versions[d][m] EXCEPT !.status = "superseded"]
                                                 ELSE versions[d][m]]
           last == NewVersion(importing[i].content)
           rows == Append(past, last)
<1>1. /\ importing[i] \in ImportRow /\ importing[i].at = "commit" /\ ReadInTime(i) /\ d \in Documents
      /\ documents[d] \in DocumentRow /\ RowCounts(d) /\ n \in Nat /\ Numbers(d) = 1 .. n
      /\ versions[d] \in [1 .. n -> VersionRow]
  BY NumbersOf DEF CommitImport, KnowledgeInv, KnowledgeTypeOK, ReadInTime
<1>2. /\ documents' = [documents EXCEPT ![d] = row]
      /\ versions' = [versions EXCEPT ![d] = rows]
      /\ importing' = [importing EXCEPT ![i] = NotStarted]
      /\ importing[i].seen.current + 1 \notin Numbers(d)
      /\ deleting' = deleting
  BY DEF CommitImport
\* No other import has committed since this one read the row.
<1>3. importing[i].seen.current = n
  <2>1. importing[i].seen.current \in Nat /\ importing[i].seen.current <= n
    BY <1>1 DEF ReadInTime, ImportRow, DocumentRow
  <2>2. n \in Nat /\ importing[i].seen.current + 1 \notin 1 .. n
    BY <1>1, <1>2
  <2> QED BY <2>1, <2>2
<1>4. row \in DocumentRow /\ row.exists /\ row.current = n + 1
  <2>1. row = [exists |-> TRUE, deleted |-> IF importing[i].seen.deleted THEN FALSE ELSE documents[d].deleted,
               current |-> n + 1]
    BY <1>3 DEF Imported
  <2>2. documents[d].deleted \in BOOLEAN /\ n + 1 \in Nat
    BY <1>1 DEF DocumentRow
  <2> HIDE DEF row
  <2> QED BY <2>1, <2>2 DEF DocumentRow
<1>5. /\ past \in [1 .. n -> VersionRow]
      /\ \A m \in 1 .. n : past[m].status # "active"
  <2>1. ASSUME NEW m \in 1 .. n PROVE past[m] \in VersionRow /\ past[m].status # "active"
    <3>1. versions[d][m] \in VersionRow /\ m \in DOMAIN versions[d]
      BY <1>1
    <3>2. CASE m \in importing[i].old
      BY <3>1, <3>2 DEF VersionRow
    <3>3. CASE m \notin importing[i].old
      BY <1>1, <1>3, <3>1, <3>3 DEF ReadInTime
    <3> QED BY <3>2, <3>3
  <2> QED BY <1>1, <2>1
<1>6. last \in VersionRow /\ last.status = "active" /\ ~last.deleted
  BY <1>1 DEF NewVersion, VersionRow, ReadInTime
<1> HIDE DEF past, last, row
<1>7. past \in Seq(VersionRow) /\ Len(past) = n
  BY <1>1, <1>5
<1>8. /\ rows \in Seq(VersionRow) /\ Len(rows) = n + 1
      /\ \A m \in 1 .. n : rows[m] = past[m]
      /\ rows[n + 1] = last
  BY <1>6, <1>7, AppendProperties
<1> HIDE DEF rows
<1>9. KnowledgeTypeOK'
  BY <1>1, <1>2, <1>4, <1>8, IdleRow DEF KnowledgeInv, KnowledgeTypeOK
<1>10. ASSUME NEW e \in Documents PROVE RowCounts(e)'
  <2>1. CASE e # d
    BY <1>2, <2>1 DEF RowCounts, KnowledgeInv, KnowledgeTypeOK
  <2>2. CASE e = d
    <3>1. versions'[e] = rows /\ documents'[e] = row
      BY <1>1, <1>2, <2>2 DEF KnowledgeInv, KnowledgeTypeOK
    <3>2. ASSUME NEW m \in 1 .. n + 1, rows[m].status = "active" PROVE m = n + 1 /\ ~rows[m].deleted
      BY <1>1, <1>5, <1>6, <1>8, <3>2
    <3> QED BY <1>1, <1>4, <1>8, <3>1, <3>2 DEF RowCounts
  <2> QED BY <2>1, <2>2
<1>11. ASSUME NEW j \in Importers PROVE ReadInTime(j)'
  <2>1. CASE j = i
    BY <1>2, <2>1, IdleRow DEF ReadInTime, KnowledgeInv, KnowledgeTypeOK
  <2>2. CASE j # i /\ importing[j].document # d
    BY <1>1, <1>2, <2>2 DEF ReadInTime, KnowledgeInv, KnowledgeTypeOK
  <2>3. CASE j # i /\ importing[j].document = d
    <3>1. importing'[j] = importing[j] /\ versions'[d] = rows /\ importing[j].seen.current \in Nat /\ ReadInTime(j)
      BY <1>1, <1>2, <2>3 DEF KnowledgeInv, KnowledgeTypeOK, ImportRow, DocumentRow
    <3> QED BY <1>1, <1>8, <2>3, <3>1 DEF ReadInTime
  <2> QED BY <2>1, <2>2, <2>3
<1> QED BY <1>9, <1>10, <1>11 DEF KnowledgeInv

LEMMA CommitDeleteStep ==
  ASSUME KnowledgeInv, NEW x \in Deleters, CommitDelete(x)
  PROVE  KnowledgeInv'
<1> DEFINE d    == deleting[x]
           n    == Len(versions[d])
           rows == [m \in DOMAIN versions[d] |->
                      [versions[d][m] EXCEPT !.status = "deleted", !.ready = FALSE, !.deleted = TRUE]]
<1>1. d \in Documents
  BY DEF CommitDelete, KnowledgeInv, KnowledgeTypeOK
<1>2. /\ documents[d] \in DocumentRow /\ RowCounts(d) /\ n \in Nat /\ Numbers(d) = 1 .. n
      /\ versions[d] \in [1 .. n -> VersionRow]
  BY <1>1, NumbersOf DEF KnowledgeInv, KnowledgeTypeOK
<1>3. /\ documents' = [documents EXCEPT ![d].deleted = TRUE]
      /\ versions' = [versions EXCEPT ![d] = rows]
      /\ deleting' = [deleting EXCEPT ![x] = NoDocument]
      /\ importing' = importing
  BY DEF CommitDelete
<1>4. rows \in [1 .. n -> VersionRow] /\ \A m \in 1 .. n : rows[m].status = "deleted"
  <2>1. ASSUME NEW m \in 1 .. n PROVE rows[m] \in VersionRow /\ rows[m].status = "deleted"
    BY <1>2 DEF VersionRow
  <2> QED BY <1>2, <2>1
<1> HIDE DEF rows
<1>5. rows \in Seq(VersionRow) /\ Len(rows) = n
  BY <1>2, <1>4
<1>6. documents' \in [Documents -> DocumentRow] /\ documents'[d].current = documents[d].current
      /\ documents'[d].exists = documents[d].exists
  BY <1>1, <1>3 DEF KnowledgeInv, KnowledgeTypeOK, DocumentRow
<1>7. KnowledgeTypeOK'
  BY <1>1, <1>3, <1>5, <1>6 DEF KnowledgeInv, KnowledgeTypeOK
<1>8. versions'[d] = rows /\ \A e \in Documents : e # d => versions'[e] = versions[e] /\ documents'[e] = documents[e]
  BY <1>1, <1>3 DEF KnowledgeInv, KnowledgeTypeOK
<1>9. ASSUME NEW e \in Documents PROVE RowCounts(e)'
  <2>1. CASE e # d
    BY <1>8, <2>1 DEF RowCounts, KnowledgeInv
  <2>2. CASE e = d
    BY <1>2, <1>4, <1>5, <1>6, <1>8, <2>2 DEF RowCounts
  <2> QED BY <2>1, <2>2
<1>10. ASSUME NEW j \in Importers PROVE ReadInTime(j)'
  BY <1>2, <1>3, <1>4, <1>5, <1>8 DEF ReadInTime, KnowledgeInv
<1> QED BY <1>7, <1>9, <1>10 DEF KnowledgeInv

LEMMA KnowledgeStep == KnowledgeInv /\ [KnowledgeNext]_knowledgeVars => KnowledgeInv'
<1> SUFFICES ASSUME KnowledgeInv, [KnowledgeNext]_knowledgeVars PROVE KnowledgeInv'
  OBVIOUS
<1>1. ASSUME NEW i \in Importers, FailImport(i) PROVE KnowledgeInv'
  BY <1>1, ImportEnds DEF FailImport
<1>2. ASSUME NEW x \in Deleters, NEW d \in Documents, ReadForDelete(x, d) PROVE KnowledgeInv'
  BY <1>2 DEF ReadForDelete, KnowledgeInv, KnowledgeTypeOK, RowCounts, ReadInTime
<1>3. CASE UNCHANGED knowledgeVars
  BY <1>3 DEF knowledgeVars, KnowledgeInv, KnowledgeTypeOK, RowCounts, ReadInTime
<1> QED BY <1>1, <1>2, <1>3, ReadDocumentStep, ReadVersionsStep, CommitImportStep, CommitDeleteStep DEF KnowledgeNext

LEMMA LiveIsCurrent == KnowledgeInv => OneLiveVersion
  BY NumbersOf DEF KnowledgeInv, OneLiveVersion, RowCounts

\* However imports and deletions of a document interleave, at most one of its
\* versions is active, the one its row calls current.
THEOREM OneLiveCorrect == KnowledgeSpec => []OneLiveVersion
  BY LiveIsCurrent, KnowledgeFirst, KnowledgeStep, PTL DEF KnowledgeSpec

(***************************************************************************)
(* Retrieval.                                                              *)
(***************************************************************************)
QueryRow == [at : {"idle", "allow", "recheck", "answered"}, chunks : SUBSET Chunks,
             todo : SUBSET (Chunks \X (1 .. 3)), gone : SUBSET Chunks, barred : SUBSET Scopes]

\* The lists of c before the m-th have been read and do not bar it; the m-th
\* is the next to read, unless c is through.
Passed(row, c, m) ==
    /\ m < 4 => <<c, m>> \in row.todo
    /\ \A k \in 1 .. 3 : k < m => ScopesOf(c)[k] \notin row.barred

\* A query holds no chunk of a document that was gone when it began.  A list
\* that barred the asker when the search answered, and is noted as barred
\* since, bars him still: whoever reads it refuses the chunk.
RowOK(row, list) ==
    /\ row.chunks \cap row.gone = {}
    /\ row.at \in {"idle", "answered"} => row.todo = {}
    /\ row.at = "recheck" => /\ \A s \in row.barred : Bars(list, s)
                            /\ \A c \in row.chunks : \E m \in 1 .. 4 : Passed(row, c, m)
    /\ row.at = "answered" => \A c \in row.chunks : \A k \in 1 .. 3 : ScopesOf(c)[k] \notin row.barred

RetrievalInv ==
    /\ query \in [Queries -> QueryRow]
    /\ \A q \in Queries : RowOK(query[q], acl)

LEMMA NoQueryRow == NoQuery \in QueryRow /\ \A list : RowOK(NoQuery, list)
  BY DEF NoQuery, QueryRow, RowOK

LEMMA RetrievalFirst == RetrievalInit => RetrievalInv
  BY NoQueryRow DEF RetrievalInit, RetrievalInv

\* A query moves on under the lists there are.
LEMMA QueryMoves ==
  ASSUME RetrievalInv, NEW q \in Queries, NEW row \in QueryRow,
         query' = [query EXCEPT ![q] = row], acl' = acl, RowOK(row, acl)
  PROVE  RetrievalInv'
<1>1. query' \in [Queries -> QueryRow] /\ \A p \in Queries : query'[p] = IF p = q THEN row ELSE query[p]
  BY DEF RetrievalInv
<1>2. \A p \in Queries : RowOK(query'[p], acl')
  BY <1>1 DEF RetrievalInv
<1> QED BY <1>1, <1>2 DEF RetrievalInv

\* Reading one list: a list that is noted as barred refuses the chunk, so a
\* chunk that is kept has one list more behind it.
LEMMA ReadAclStep == ASSUME RetrievalInv, NEW q \in Queries, ReadAcl(q) PROVE RetrievalInv'
<1> USE DEF RetrievalInv
<1>0. query[q] \in QueryRow /\ RowOK(query[q], acl)
  OBVIOUS
<1>1. PICK t \in query[q].todo :
         query' = [query EXCEPT
           ![q].todo = (@ \ {t}) \cup (IF Refused(q, t) \/ t[2] = 3 THEN {} ELSE {<<t[1], t[2] + 1>>}),
           ![q].chunks = IF Refused(q, t) THEN @ \ {t[1]} ELSE @]
  BY DEF ReadAcl
<1> DEFINE next == IF Refused(q, t) \/ t[2] = 3 THEN {} ELSE {<<t[1], t[2] + 1>>}
           row == [query[q] EXCEPT !.todo = (@ \ {t}) \cup next,
                                   !.chunks = IF Refused(q, t) THEN @ \ {t[1]} ELSE @]
<1>2. PICK d \in Chunks, n \in 1 .. 3 : t = <<d, n>>
  BY <1>0 DEF QueryRow
<1>3. next \subseteq Chunks \X (1 .. 3)
  BY <1>2
<1>4. /\ row.at = query[q].at /\ row.gone = query[q].gone /\ row.barred = query[q].barred
      /\ row.todo = (query[q].todo \ {t}) \cup next
      /\ row.chunks = IF Refused(q, t) THEN query[q].chunks \ {t[1]} ELSE query[q].chunks
      /\ row \in QueryRow
  BY <1>0, <1>3 DEF QueryRow
<1>5. query' = [query EXCEPT ![q] = row] /\ acl' = acl
  BY <1>1 DEF ReadAcl
<1> HIDE DEF row
<1>6. row.at \notin {"idle", "answered"}
  BY <1>0, <1>1, <1>4 DEF RowOK
<1>7. ASSUME row.at = "recheck", NEW c \in row.chunks PROVE \E m \in 1 .. 4 : Passed(row, c, m)
  <2>1. PICK m \in 1 .. 4 : Passed(query[q], c, m)
    BY <1>0, <1>4, <1>7 DEF RowOK
  <2>2. CASE t = <<c, m>>
    <3>1. ~Refused(q, t) /\ m \in 1 .. 3
      BY <1>2, <1>4, <1>7, <2>2
    <3>2. ScopesOf(c)[m] \notin row.barred
      BY <1>0, <1>4, <1>7, <2>2, <3>1 DEF Refused, RowOK
    <3>3. m + 1 < 4 => <<c, m + 1>> \in row.todo
      BY <1>4, <2>2, <3>1
    <3>4. Passed(row, c, m + 1) /\ m + 1 \in 1 .. 4
      BY <1>4, <2>1, <3>1, <3>2, <3>3 DEF Passed
    <3> QED BY <3>4
  <2>3. CASE t # <<c, m>>
    BY <1>4, <2>1, <2>3 DEF Passed
  <2> QED BY <2>2, <2>3
<1>8. RowOK(row, acl)
  BY <1>0, <1>4, <1>6, <1>7 DEF RowOK
<1> QED BY <1>4, <1>5, <1>8, QueryMoves

LEMMA RetrievalStep == RetrievalInv /\ [RetrievalNext]_retrievalVars => RetrievalInv'
<1> SUFFICES ASSUME RetrievalInv, [RetrievalNext]_retrievalVars PROVE RetrievalInv'
  OBVIOUS
<1>1. CASE UNCHANGED <<acl, query>>
  BY <1>1 DEF RetrievalInv
<1>2. ASSUME NEW q \in Queries, Load(q) PROVE RetrievalInv'
  <2> DEFINE C == {c \in Chunks : Visible(c)}
             row == [at |-> "allow", chunks |-> C, todo |-> ToCheck(C),
                     gone |-> {c \in Chunks : documents[c[1]].deleted}, barred |-> {}]
  <2>1. row \in QueryRow /\ row.chunks \cap row.gone = {}
    BY DEF QueryRow, Visible, ToCheck
  <2>2. query' = [query EXCEPT ![q] = row] /\ acl' = acl /\ row.at = "allow"
    BY <1>2 DEF Load
  <2> HIDE DEF row
  <2>3. RowOK(row, acl)
    BY <2>1, <2>2 DEF RowOK
  <2> QED BY <2>1, <2>2, <2>3, QueryMoves
<1>3. ASSUME NEW q \in Queries, Search(q) PROVE RetrievalInv'
  <2>0. query[q] \in QueryRow /\ query[q].chunks \cap query[q].gone = {}
    BY DEF RetrievalInv, RowOK
  <2>1. PICK S \in SUBSET query[q].chunks :
           query' = [query EXCEPT ![q].at = "recheck", ![q].chunks = S, ![q].todo = ToCheck(S),
                                  ![q].barred = {s \in Scopes : Bars(acl, s)}]
    BY <1>3 DEF Search
  <2> DEFINE row == [query[q] EXCEPT !.at = "recheck", !.chunks = S, !.todo = ToCheck(S),
                                     !.barred = {s \in Scopes : Bars(acl, s)}]
  <2>2. /\ row \in QueryRow /\ row.chunks = S /\ row.gone = query[q].gone /\ row.at = "recheck"
        /\ row.barred = {s \in Scopes : Bars(acl, s)} /\ row.todo = ToCheck(S)
    <3>1. S \subseteq Chunks /\ {s \in Scopes : Bars(acl, s)} \subseteq Scopes
      BY <2>0 DEF QueryRow
    <3>2. ToCheck(S) \subseteq Chunks \X (1 .. 3)
      BY <3>1 DEF ToCheck
    <3> QED BY <2>0, <3>1, <3>2 DEF QueryRow
  <2>3. query' = [query EXCEPT ![q] = row] /\ acl' = acl
    BY <1>3, <2>1 DEF Search, RetrievalInv
  <2> HIDE DEF row
  <2>4. \A c \in row.chunks : Passed(row, c, 1)
    BY <2>2 DEF Passed, ToCheck
  <2>5. RowOK(row, acl)
    BY <2>0, <2>2, <2>4 DEF RowOK
  <2> QED BY <2>2, <2>3, <2>5, QueryMoves
<1>4. ASSUME NEW q \in Queries, Answer(q) PROVE RetrievalInv'
  <2>0. query[q] \in QueryRow /\ RowOK(query[q], acl)
    BY DEF RetrievalInv
  <2>1. PICK S \in SUBSET query[q].chunks : query' = [query EXCEPT ![q].at = "answered", ![q].chunks = S]
    BY <1>4 DEF Answer
  <2> DEFINE row == [query[q] EXCEPT !.at = "answered", !.chunks = S]
  <2>2. /\ row \in QueryRow /\ row.chunks = S /\ row.gone = query[q].gone /\ row.at = "answered"
        /\ row.barred = query[q].barred /\ row.todo = query[q].todo
    BY <2>0 DEF QueryRow
  <2>3. query' = [query EXCEPT ![q] = row] /\ acl' = acl /\ query[q].at = "recheck" /\ query[q].todo = {}
    BY <1>4, <2>1 DEF Answer, RetrievalInv
  <2> HIDE DEF row
  <2>4. ASSUME NEW c \in S, NEW k \in 1 .. 3 PROVE ScopesOf(c)[k] \notin row.barred
    <3>1. PICK m \in 1 .. 4 : Passed(query[q], c, m)
      BY <2>0, <2>3 DEF RowOK
    <3>2. m = 4
      BY <2>3, <3>1 DEF Passed
    <3> QED BY <2>2, <3>1, <3>2 DEF Passed
  <2>5. RowOK(row, acl)
    BY <2>0, <2>2, <2>3, <2>4 DEF RowOK
  <2> QED BY <2>2, <2>3, <2>5, QueryMoves
<1>5. ASSUME NEW q \in Queries, Return(q) PROVE RetrievalInv'
  <2>1. query' = [query EXCEPT ![q] = NoQuery] /\ acl' = acl
    BY <1>5 DEF Return
  <2> QED BY <2>1, NoQueryRow, QueryMoves
<1>6. ASSUME NEW s \in Scopes, ChangeAcl(s) PROVE RetrievalInv'
  <2>1. query' = [q \in Queries |-> IF query[q].at = "answered" THEN query[q]
                                    ELSE [query[q] EXCEPT !.barred = {x \in @ : Bars(acl', x)}]]
    BY <1>6 DEF ChangeAcl
  <2>2. ASSUME NEW q \in Queries PROVE query'[q] \in QueryRow /\ RowOK(query'[q], acl')
    <3>1. query[q] \in QueryRow /\ RowOK(query[q], acl)
      BY DEF RetrievalInv
    <3>2. CASE query[q].at = "answered"
      BY <2>1, <3>1, <3>2 DEF RowOK
    <3>3. CASE query[q].at # "answered"
      <4> DEFINE row == query'[q]
      <4>1. row = [query[q] EXCEPT !.barred = {x \in @ : Bars(acl', x)}]
        BY <2>1, <3>3
      <4>2. /\ row \in QueryRow /\ row.chunks = query[q].chunks /\ row.todo = query[q].todo
            /\ row.gone = query[q].gone /\ row.at = query[q].at
            /\ row.barred = {x \in query[q].barred : Bars(acl', x)}
        BY <3>1, <4>1 DEF QueryRow
      <4> HIDE DEF row
      <4>3. \A c, m : Passed(query[q], c, m) => Passed(row, c, m)
        BY <4>2 DEF Passed
      <4>4. RowOK(row, acl')
        BY <3>1, <3>3, <4>2, <4>3 DEF RowOK
      <4> QED BY <4>2, <4>4 DEF row
    <3> QED BY <3>2, <3>3
  <2>3. query' \in [Queries -> QueryRow]
    BY <2>1, <2>2
  <2> QED BY <2>2, <2>3 DEF RetrievalInv
<1> QED BY <1>1, <1>2, <1>3, <1>4, <1>5, <1>6, ReadAclStep DEF RetrievalNext, retrievalVars

\* A query returns nothing of a document that was gone when it began, and no
\* chunk one of whose lists barred the asker when the search answered and
\* since, although the lists may change between the reads of any two of them.
THEOREM VisibleCorrect == RetrievalSpec => []ResultsAreVisible
<1>1. RetrievalInv => ResultsAreVisible
  <2> SUFFICES ASSUME RetrievalInv, NEW q \in Queries, query[q].at = "answered", NEW c \in query[q].chunks
               PROVE  c \notin query[q].gone /\ \A k \in 1 .. 3 : ScopesOf(c)[k] \notin query[q].barred
    BY DEF ResultsAreVisible
  <2> QED BY DEF RetrievalInv, RowOK
<1> QED BY <1>1, RetrievalFirst, RetrievalStep, PTL DEF RetrievalSpec

\* Queries leave the documents to the imports and deletions: the one live
\* version is what they search, too.
THEOREM SearchedIsLive == RetrievalSpec => KnowledgeSpec /\ []OneLiveVersion
<1>1. RetrievalInit => KnowledgeInit
  BY DEF RetrievalInit
<1>2. [RetrievalNext]_retrievalVars => [KnowledgeNext]_knowledgeVars
  BY DEF RetrievalNext, retrievalVars, knowledgeVars, Load, ReadAcl, Search, Answer, Return, ChangeAcl
<1> QED BY <1>1, <1>2, OneLiveCorrect, PTL DEF RetrievalSpec, KnowledgeSpec

(***************************************************************************)
(* Fusion: the fractions of the scores.                                     *)
(***************************************************************************)

\* Multiplying by a positive number keeps the order (scores are compared crosswise).
LEMMA TimesKeepsOrder ==
  ASSUME NEW x \in Nat, NEW y \in Nat, NEW z \in Nat \ {0}
  PROVE  /\ x * z \in Nat /\ y * z \in Nat
         /\ x < y <=> x * z < y * z
         /\ x = y <=> x * z = y * z
<1>1. x * z \in Nat /\ y * z \in Nat
  OBVIOUS
<1>2. ASSUME NEW a \in Nat, NEW b \in Nat, a < b PROVE a * z < b * z
  <2>1. PICK d \in Nat \ {0} : b = a + d
    <3>1. b - a \in Nat \ {0} /\ b = a + (b - a)
      BY <1>2
    <3> QED BY <3>1
  <2>2. b * z = a * z + d * z /\ d * z > 0
    BY <2>1
  <2>3. a * z \in Nat /\ d * z \in Nat
    BY <2>1
  <2> QED BY <2>2, <2>3
<1>3. x < y \/ x = y \/ y < x
  OBVIOUS
<1>4. CASE x < y
  BY <1>1, <1>2, <1>4
<1>5. CASE x = y
  BY <1>1, <1>5
<1>6. CASE y < x
  BY <1>1, <1>2, <1>6
<1> QED BY <1>3, <1>4, <1>5, <1>6

\* Fractions that are compared crosswise are ordered: a/b, c/d and e/f.
LEMMA CrosswiseIsTransitive ==
  ASSUME NEW a \in Nat \ {0}, NEW b \in Nat \ {0}, NEW c \in Nat \ {0},
         NEW d \in Nat \ {0}, NEW e \in Nat \ {0}, NEW f \in Nat \ {0},
         a * d >= c * b, c * f >= e * d
  PROVE  /\ a * f >= e * b
         /\ a * d > c * b \/ c * f > e * d => a * f > e * b
         /\ a * f = e * b => a * d = c * b /\ c * f = e * d
<1> DEFINE ad == a * d
           cb == c * b
           cf == c * f
           ed == e * d
           af == a * f
           eb == e * b
<1>1. ad \in Nat /\ cb \in Nat /\ cf \in Nat /\ ed \in Nat /\ af \in Nat /\ eb \in Nat
  OBVIOUS
<1>2. af * d = ad * f /\ cb * f = cf * b /\ ed * b = eb * d
  OBVIOUS
<1>3. ad >= cb /\ cf >= ed
  OBVIOUS
<1>4. /\ a * d = ad /\ c * b = cb /\ c * f = cf /\ e * d = ed /\ a * f = af /\ e * b = eb
  OBVIOUS
<1> HIDE DEF ad, cb, cf, ed, af, eb
<1>5. /\ ad * f >= cb * f /\ (ad > cb => ad * f > cb * f)
      /\ cf * b >= ed * b /\ (cf > ed => cf * b > ed * b)
  <2>1. cb < ad <=> cb * f < ad * f
    BY <1>1, TimesKeepsOrder
  <2>2. ed < cf <=> ed * b < cf * b
    BY <1>1, TimesKeepsOrder
  <2>3. (cb = ad => cb * f = ad * f) /\ (ed = cf => ed * b = cf * b)
    OBVIOUS
  <2>4. ad * f \in Nat /\ cb * f \in Nat /\ cf * b \in Nat /\ ed * b \in Nat
    BY <1>1
  <2> QED BY <1>1, <1>3, <2>1, <2>2, <2>3, <2>4
<1>6. ad * f \in Nat /\ cb * f \in Nat /\ cf * b \in Nat /\ ed * b \in Nat /\ af * d \in Nat /\ eb * d \in Nat
  BY <1>1
<1>7. af * d >= eb * d /\ (ad > cb \/ cf > ed => af * d > eb * d)
  BY <1>2, <1>5, <1>6
<1>8. (eb < af <=> eb * d < af * d) /\ (eb = af <=> eb * d = af * d)
  BY <1>1, TimesKeepsOrder
<1>9. af >= eb /\ (ad > cb \/ cf > ed => af > eb)
  BY <1>1, <1>6, <1>7, <1>8
<1> QED BY <1>1, <1>3, <1>4, <1>9

\* Two ranks that are both better sum to the greater score.
LEMMA SumIsGreater ==
  ASSUME NEW x \in Nat \ {0}, NEW y \in Nat \ {0}, NEW p \in Nat \ {0}, NEW q \in Nat \ {0},
         x < p, y < q
  PROVE  (x + y) * (p * q) > (p + q) * (x * y)
<1> DEFINE xp == x * p
           yq == y * q
<1>1. xp \in Nat \ {0} /\ yq \in Nat \ {0}
  OBVIOUS
<1>2. (x + y) * (p * q) = xp * q + yq * p /\ (p + q) * (x * y) = xp * y + yq * x
  OBVIOUS
<1> HIDE DEF xp, yq
<1>3. y * xp < q * xp /\ x * yq < p * yq
  BY <1>1, TimesKeepsOrder
<1>4. y * xp = xp * y /\ q * xp = xp * q /\ x * yq = yq * x /\ p * yq = yq * p
  BY <1>1
<1>5. xp * y \in Nat /\ xp * q \in Nat /\ yq * x \in Nat /\ yq * p \in Nat
  BY <1>1
<1> QED BY <1>2, <1>3, <1>4, <1>5

(***************************************************************************)
(* Fusion: the order of the candidates.                                     *)
(***************************************************************************)

\* The lists rank every chunk they hold at one place.
LEMMA RankedOnce ==
  ASSUME NEW l \in Rankings
  PROVE  /\ \E n \in Nat : DOMAIN l = 1 .. n
         /\ Found(l) \subseteq ChunkIds /\ IsFiniteSet(Found(l))
         /\ IsInjective(l)
         /\ \A c \in Found(l) : RankIn(l, c) \in Nat \ {0} /\ RankIn(l, c) \in DOMAIN l /\ l[RankIn(l, c)] = c
<1>1. PICK n \in 0 .. MaxRanked : l \in [1 .. n -> ChunkIds] /\ IsInjective(l)
  BY DEF Rankings
<1>2. n \in Nat /\ DOMAIN l = 1 .. n
  BY <1>1
<1>3. l \in Surjection(1 .. n, Found(l))
  BY <1>1 DEF Surjection, Found
<1>4. IsFiniteSet(Found(l))
  <2>1. IsFiniteSet(1 .. n)
    BY <1>2, FS_Interval
  <2> QED BY <1>3, <2>1, FS_Surjection
<1>5. ASSUME NEW c \in Found(l)
      PROVE  RankIn(l, c) \in Nat \ {0} /\ RankIn(l, c) \in DOMAIN l /\ l[RankIn(l, c)] = c
  <2>1. \E i \in DOMAIN l : l[i] = c
    BY <1>5 DEF Found
  <2>2. RankIn(l, c) \in DOMAIN l /\ l[RankIn(l, c)] = c
    BY <2>1 DEF RankIn
  <2> QED BY <1>2, <2>2
<1> QED BY <1>1, <1>2, <1>4, <1>5 DEF Found

\* A candidate's score is a fraction of positive numbers, its best rank a number.
LEMMA ScoreIsPositive ==
  ASSUME NEW k \in Rankings, NEW v \in Rankings, NEW c \in Scored(k, v)
  PROVE  /\ Score(k, v, c)[1] \in Nat \ {0} /\ Score(k, v, c)[2] \in Nat \ {0}
         /\ BestRank(k, v, c) \in Nat
         /\ c \in Nat
<1>1. c \in Found(k) \/ c \in Found(v)
  BY DEF Scored
<1>2. c \in Nat
  BY <1>1, RankedOnce, ChunkIdsAreNumbers
<1>3. /\ c \in Found(k) => RankIn(k, c) \in Nat \ {0}
      /\ c \in Found(v) => RankIn(v, c) \in Nat \ {0}
  BY RankedOnce
<1>4. Score(k, v, c)[1] \in Nat \ {0} /\ Score(k, v, c)[2] \in Nat \ {0}
  <2>1. CASE c \in Found(k) /\ c \in Found(v)
    <3> DEFINE x == RankConstant + RankIn(k, c)
               y == RankConstant + RankIn(v, c)
    <3>1. x \in Nat \ {0} /\ y \in Nat \ {0}
      BY <1>3, <2>1, RankConstantIsNat
    <3>2. Score(k, v, c) = <<x + y, x * y>>
      BY <2>1 DEF Score
    <3> HIDE DEF x, y
    <3>3. x + y \in Nat \ {0} /\ x * y \in Nat \ {0}
      BY <3>1
    <3> QED BY <3>2, <3>3
  <2>2. CASE ~ (c \in Found(k) /\ c \in Found(v))
    <3>1. Score(k, v, c) = <<1, RankConstant + RankIn(IF c \in Found(k) THEN k ELSE v, c)>>
      BY <2>2 DEF Score
    <3>2. RankIn(IF c \in Found(k) THEN k ELSE v, c) \in Nat \ {0}
      BY <1>1, <1>3
    <3>3. RankConstant + RankIn(IF c \in Found(k) THEN k ELSE v, c) \in Nat \ {0}
      BY <3>2, RankConstantIsNat
    <3> QED BY <3>1, <3>3
  <2> QED BY <2>1, <2>2
<1>5. BestRank(k, v, c) \in Nat
  <2> DEFINE ranks == {RankIn(l, c) : l \in {m \in {k, v} : c \in Found(m)}}
  <2>1. ranks # {} /\ ranks \subseteq Nat
    BY <1>1, <1>3
  <2>2. BestRank(k, v, c) = CHOOSE r \in ranks : \A s \in ranks : r <= s
    BY DEF BestRank
  <2> HIDE DEF ranks
  <2>3. \E r \in ranks : \A s \in ranks : r <= s
    BY <2>1, Least
  <2> QED BY <2>1, <2>2, <2>3
<1> QED BY <1>2, <1>4, <1>5

\* The key of the sort orders the candidates totally: of two, one is first,
\* and the order is transitive although the scores are compared crosswise.
LEMMA PrecedesIsTotal ==
  ASSUME NEW k \in Rankings, NEW v \in Rankings
  PROVE  /\ \A a \in Scored(k, v) : ~ Precedes(k, v, a, a)
         /\ \A a, b \in Scored(k, v) : a # b => Precedes(k, v, a, b) \/ Precedes(k, v, b, a)
         /\ \A a, b, c \in Scored(k, v) :
               Precedes(k, v, a, b) /\ Precedes(k, v, b, c) => Precedes(k, v, a, c)
<1> DEFINE N(c) == Score(k, v, c)[1]
           D(c) == Score(k, v, c)[2]
           R(c) == BestRank(k, v, c)
           Tie(a, b) == R(a) < R(b) \/ (R(a) = R(b) /\ a < b)
<1>1. \A c \in Scored(k, v) : N(c) \in Nat \ {0} /\ D(c) \in Nat \ {0} /\ R(c) \in Nat /\ c \in Nat
  BY ScoreIsPositive
<1>2. \A a, b : Precedes(k, v, a, b) <=>
                (N(a) * D(b) > N(b) * D(a)) \/ (N(a) * D(b) = N(b) * D(a) /\ Tie(a, b))
  BY DEF Precedes
<1> HIDE DEF N, D, R
<1>3. \A a, b \in Scored(k, v) : N(a) * D(b) \in Nat
  BY <1>1
<1>4. ASSUME NEW a \in Scored(k, v) PROVE ~ Precedes(k, v, a, a)
  <2>1. N(a) * D(a) \in Nat /\ R(a) \in Nat /\ a \in Nat
    BY <1>1, <1>3
  <2>2. ~ Tie(a, a) /\ ~ (N(a) * D(a) > N(a) * D(a))
    BY <2>1
  <2> QED BY <1>2, <2>2
<1>5. ASSUME NEW a \in Scored(k, v), NEW b \in Scored(k, v), a # b
      PROVE  Precedes(k, v, a, b) \/ Precedes(k, v, b, a)
  <2>1. N(a) * D(b) \in Nat /\ N(b) * D(a) \in Nat
    BY <1>3
  <2>2. N(a) * D(b) > N(b) * D(a) \/ N(a) * D(b) = N(b) * D(a) \/ N(b) * D(a) > N(a) * D(b)
    BY <2>1
  <2>3. R(a) \in Nat /\ R(b) \in Nat /\ a \in Nat /\ b \in Nat
    BY <1>1
  <2>4. Tie(a, b) \/ Tie(b, a)
    BY <1>5, <2>3
  <2> QED BY <1>2, <2>2, <2>4
<1>6. ASSUME NEW a \in Scored(k, v), NEW b \in Scored(k, v), NEW c \in Scored(k, v),
             Precedes(k, v, a, b), Precedes(k, v, b, c)
      PROVE  Precedes(k, v, a, c)
  <2>1. /\ N(a) * D(b) \in Nat /\ N(b) * D(a) \in Nat /\ N(b) * D(c) \in Nat /\ N(c) * D(b) \in Nat
        /\ N(a) * D(c) \in Nat /\ N(c) * D(a) \in Nat
    BY <1>3
  <2>2. N(a) * D(b) >= N(b) * D(a) /\ N(b) * D(c) >= N(c) * D(b)
    BY <1>2, <1>6, <2>1
  <2>3. /\ N(a) \in Nat \ {0} /\ N(b) \in Nat \ {0} /\ N(c) \in Nat \ {0}
        /\ D(a) \in Nat \ {0} /\ D(b) \in Nat \ {0} /\ D(c) \in Nat \ {0}
        /\ R(a) \in Nat /\ R(b) \in Nat /\ R(c) \in Nat /\ a \in Nat /\ b \in Nat /\ c \in Nat
    BY <1>1
  <2>4. /\ N(a) * D(c) >= N(c) * D(a)
        /\ N(a) * D(b) > N(b) * D(a) \/ N(b) * D(c) > N(c) * D(b) => N(a) * D(c) > N(c) * D(a)
    BY <2>2, <2>3, CrosswiseIsTransitive
  <2>5. CASE N(a) * D(b) > N(b) * D(a) \/ N(b) * D(c) > N(c) * D(b)
    BY <1>2, <2>4, <2>5
  <2>6. CASE ~ (N(a) * D(b) > N(b) * D(a) \/ N(b) * D(c) > N(c) * D(b))
    <3>1. Tie(a, b) /\ Tie(b, c)
      BY <1>2, <1>6, <2>6
    <3>2. Tie(a, c)
      BY <2>3, <3>1
    <3>3. N(a) * D(c) > N(c) * D(a) \/ N(a) * D(c) = N(c) * D(a)
      BY <2>1, <2>4
    <3> QED BY <1>2, <3>2, <3>3
  <2> QED BY <2>5, <2>6
<1> QED BY <1>4, <1>5, <1>6

\* A candidate stands after those that precede it, and the places are 1 .. n:
\* the sort returns every candidate once and keeps their order.
LEMMA FusedIsSorted ==
  ASSUME NEW k \in Rankings, NEW v \in Rankings
  PROVE  /\ Found(Fused(k, v)) = Scored(k, v)
         /\ IsInjective(Fused(k, v))
         /\ \A a, b \in Scored(k, v) :
               Precedes(k, v, a, b) => RankIn(Fused(k, v), a) < RankIn(Fused(k, v), b)
<1> DEFINE S == Scored(k, v)
           n == Cardinality(S)
           place == [c \in S |-> Cardinality(Preceding(k, v, c)) + 1]
           s == Fused(k, v)
<1>1. IsFiniteSet(S) /\ n \in Nat
  <2>1. IsFiniteSet(Found(k)) /\ IsFiniteSet(Found(v))
    BY RankedOnce
  <2>2. IsFiniteSet(S)
    BY <2>1, FS_Union DEF Scored
  <2> QED BY <2>2, FS_CardinalityType
<1>2. ASSUME NEW c \in S
      PROVE  /\ Preceding(k, v, c) \subseteq S /\ IsFiniteSet(Preceding(k, v, c))
             /\ c \notin Preceding(k, v, c)
             /\ Cardinality(Preceding(k, v, c)) \in Nat
             /\ place[c] \in 1 .. n
  <2>1. Preceding(k, v, c) \subseteq S
    BY DEF Preceding
  <2>2. c \notin Preceding(k, v, c)
    BY PrecedesIsTotal DEF Preceding
  <2>3. /\ IsFiniteSet(Preceding(k, v, c))
        /\ Cardinality(Preceding(k, v, c)) <= n
        /\ Cardinality(Preceding(k, v, c)) # n
    BY <1>1, <2>1, <2>2, FS_Subset
  <2>4. Cardinality(Preceding(k, v, c)) \in Nat
    BY <2>3, FS_CardinalityType
  <2>5. place[c] = Cardinality(Preceding(k, v, c)) + 1
    OBVIOUS
  <2> HIDE DEF n, place
  <2> QED BY <1>1, <2>1, <2>2, <2>3, <2>4, <2>5
<1>3. ASSUME NEW a \in S, NEW b \in S, Precedes(k, v, a, b)
      PROVE  place[a] < place[b]
  <2> DEFINE A == Preceding(k, v, a)
             B == Preceding(k, v, b)
  <2>1. a \in B /\ a \notin A
    BY <1>2, <1>3 DEF Preceding
  <2>2. A \subseteq B
    BY <1>3, PrecedesIsTotal DEF Preceding
  <2>3. IsFiniteSet(B) /\ Cardinality(A) \in Nat /\ Cardinality(B) \in Nat
    BY <1>2
  <2>4. place[a] = Cardinality(A) + 1 /\ place[b] = Cardinality(B) + 1
    OBVIOUS
  <2> HIDE DEF A, B, place
  <2>5. Cardinality(A) <= Cardinality(B) /\ Cardinality(A) # Cardinality(B)
    BY <2>1, <2>2, <2>3, FS_Subset
  <2> QED BY <2>3, <2>4, <2>5
<1>4. \A a, b \in S : place[a] = place[b] => a = b
  <2> SUFFICES ASSUME NEW a \in S, NEW b \in S, place[a] = place[b], a # b PROVE FALSE
    OBVIOUS
  <2>1. place[a] < place[b] \/ place[b] < place[a]
    BY <1>3, PrecedesIsTotal
  <2>2. place[a] \in 1 .. n /\ place[b] \in 1 .. n
    BY <1>2
  <2> HIDE DEF place, n
  <2> QED BY <1>1, <2>1, <2>2
<1>5. \A i \in 1 .. n : \E c \in S : place[c] = i
  <2>1. place \in Injection(S, 1 .. n)
    BY <1>2, <1>4 DEF Injection, IsInjective
  <2>2. IsFiniteSet(1 .. n) /\ Cardinality(1 .. n) = n
    BY <1>1, FS_Interval
  <2>3. place \in Surjection(S, 1 .. n)
    BY <2>1, <2>2, FS_Injection
  <2> QED BY <2>3 DEF Surjection
<1>6. DOMAIN s = 1 .. n /\ \A i \in 1 .. n : s[i] \in S /\ place[s[i]] = i
  <2>1. s = [i \in 1 .. n |-> CHOOSE c \in S : Cardinality(Preceding(k, v, c)) = i - 1]
    BY DEF Fused
  <2>2. ASSUME NEW i \in 1 .. n PROVE s[i] \in S /\ place[s[i]] = i
    <3>1. s[i] = CHOOSE c \in S : Cardinality(Preceding(k, v, c)) = i - 1
      BY <2>1
    <3>2. PICK c \in S : place[c] = i
      BY <1>5
    <3>3. Cardinality(Preceding(k, v, c)) = i - 1
      BY <1>2, <3>2
    <3>4. s[i] \in S /\ Cardinality(Preceding(k, v, s[i])) = i - 1
      BY <3>1, <3>3
    <3> QED BY <3>4
  <2> QED BY <2>1, <2>2
<1> HIDE DEF place, n, s
<1>7. \A c \in S : c \in Found(s) /\ RankIn(s, c) = place[c]
  <2> SUFFICES ASSUME NEW c \in S PROVE c \in Found(s) /\ RankIn(s, c) = place[c]
    OBVIOUS
  <2>1. place[c] \in 1 .. n
    BY <1>2
  <2>2. s[place[c]] = c
    BY <1>4, <1>6, <2>1
  <2>3. \A i \in DOMAIN s : s[i] = c => i = place[c]
    BY <1>6
  <2> QED BY <1>6, <2>1, <2>2, <2>3 DEF Found, RankIn
<1>8. Found(s) = S
  BY <1>6, <1>7 DEF Found
<1>9. IsInjective(s)
  BY <1>6 DEF IsInjective
<1>10. \A a, b \in S : Precedes(k, v, a, b) => RankIn(s, a) < RankIn(s, b)
  BY <1>3, <1>7
<1> QED BY <1>8, <1>9, <1>10 DEF s

\* What no search puts later, and one puts earlier, has the better score: its
\* fraction is greater, whichever of the searches found the two.
LEMMA AgreementIsKept ==
  ASSUME NEW k \in Rankings, NEW v \in Rankings, NEW a \in Scored(k, v), NEW b \in Scored(k, v),
         Ahead(k, a, b) \/ b \notin Found(k), Ahead(v, a, b) \/ b \notin Found(v)
  PROVE  Precedes(k, v, a, b)
<1> DEFINE X(c) == RankConstant + RankIn(k, c)
           Y(c) == RankConstant + RankIn(v, c)
<1>1. /\ \A c \in Found(k) : X(c) \in Nat \ {0} /\ RankIn(k, c) \in Nat
      /\ \A c \in Found(v) : Y(c) \in Nat \ {0} /\ RankIn(v, c) \in Nat
  BY RankedOnce, RankConstantIsNat
<1>2. /\ b \in Found(k) => a \in Found(k) /\ X(a) < X(b)
      /\ b \in Found(v) => a \in Found(v) /\ Y(a) < Y(b)
  BY <1>1, RankConstantIsNat DEF Ahead
<1>3. Score(k, v, a)[1] * Score(k, v, b)[2] > Score(k, v, b)[1] * Score(k, v, a)[2]
  <2>1. \A c \in Found(k) \cap Found(v) : Score(k, v, c) = <<X(c) + Y(c), X(c) * Y(c)>>
    BY DEF Score
  <2>2. /\ \A c \in Found(k) \ Found(v) : Score(k, v, c) = <<1, X(c)>>
        /\ \A c \in Found(v) \ Found(k) : Score(k, v, c) = <<1, Y(c)>>
    BY DEF Score
  <2> HIDE DEF X, Y
  <2>3. CASE b \in Found(k) /\ b \in Found(v)
    <3>1. Score(k, v, a) = <<X(a) + Y(a), X(a) * Y(a)>> /\ Score(k, v, b) = <<X(b) + Y(b), X(b) * Y(b)>>
      BY <1>2, <2>1, <2>3
    <3>2. (X(a) + Y(a)) * (X(b) * Y(b)) > (X(b) + Y(b)) * (X(a) * Y(a))
      BY <1>1, <1>2, <2>3, SumIsGreater
    <3> QED BY <3>1, <3>2
  <2>4. ASSUME NEW x \in Nat \ {0}, NEW y \in Nat \ {0}, NEW p \in Nat \ {0}, x < p
        PROVE  (x + y) * p > 1 * (x * y) /\ 1 * p > 1 * x
    <3>1. x * y < p * y
      BY <2>4, TimesKeepsOrder
    <3>2. (x + y) * p = x * p + p * y /\ 1 * p = p /\ 1 * x = x /\ 1 * (x * y) = x * y
      OBVIOUS
    <3>3. x * p \in Nat /\ p * y \in Nat /\ x * y \in Nat
      OBVIOUS
    <3> QED BY <2>4, <3>1, <3>2, <3>3
  <2>5. CASE b \in Found(k) /\ b \notin Found(v)
    <3>1. Score(k, v, b) = <<1, X(b)>> /\ X(a) \in Nat \ {0} /\ X(b) \in Nat \ {0} /\ X(a) < X(b)
      BY <1>1, <1>2, <2>2, <2>5
    <3>2. CASE a \in Found(v)
      <4>1. Score(k, v, a) = <<X(a) + Y(a), X(a) * Y(a)>> /\ Y(a) \in Nat \ {0}
        BY <1>1, <1>2, <2>1, <2>5, <3>2
      <4>2. (X(a) + Y(a)) * X(b) > 1 * (X(a) * Y(a))
        BY <2>4, <3>1, <4>1
      <4> QED BY <3>1, <4>1, <4>2
    <3>3. CASE a \notin Found(v)
      <4>1. Score(k, v, a) = <<1, X(a)>>
        BY <1>2, <2>2, <2>5, <3>3
      <4> QED BY <2>4, <3>1, <4>1
    <3> QED BY <3>2, <3>3
  <2>6. CASE b \notin Found(k) /\ b \in Found(v)
    <3>1. Score(k, v, b) = <<1, Y(b)>> /\ Y(a) \in Nat \ {0} /\ Y(b) \in Nat \ {0} /\ Y(a) < Y(b)
      BY <1>1, <1>2, <2>2, <2>6
    <3>2. CASE a \in Found(k)
      <4>1. Score(k, v, a) = <<X(a) + Y(a), X(a) * Y(a)>> /\ X(a) \in Nat \ {0}
        BY <1>1, <1>2, <2>1, <2>6, <3>2
      <4>2. (Y(a) + X(a)) * Y(b) > 1 * (Y(a) * X(a))
        BY <2>4, <3>1, <4>1
      <4>3. X(a) + Y(a) = Y(a) + X(a) /\ X(a) * Y(a) = Y(a) * X(a)
        BY <3>1, <4>1
      <4> QED BY <3>1, <4>1, <4>2, <4>3
    <3>3. CASE a \notin Found(k)
      <4>1. Score(k, v, a) = <<1, Y(a)>>
        BY <1>2, <2>2, <2>6, <3>3
      <4> QED BY <2>4, <3>1, <4>1
    <3> QED BY <3>2, <3>3
  <2> QED BY <2>3, <2>5, <2>6 DEF Scored
<1> QED BY <1>3 DEF Precedes

\* The lists are lists of ranked chunks, and what a hybrid query answers is
\* their fusion.
RankInv ==
    /\ ranking.keyword \in Rankings /\ ranking.vector \in Rankings
    /\ ranking.at = "hybrid" => ranking.fused = Fused(ranking.keyword, ranking.vector)
    /\ ranking = [at |-> ranking.at, keyword |-> ranking.keyword, vector |-> ranking.vector,
                  fused |-> ranking.fused, measures |-> ranking.measures]

\* The answer to a hybrid query holds every candidate once and turns no
\* agreement of the searches round, whatever the lists and the constant.
THEOREM FusionCorrect == RankSpec => []FusionIsMonotone
<1>1. RankInit => RankInv
  BY DEF RankInit, RankInv
<1>2. RankInv /\ [RankNext]_ranking => RankInv'
  <2> SUFFICES ASSUME RankInv, [RankNext]_ranking PROVE RankInv'
    OBVIOUS
  <2> DEFINE row(at, fused, measures) == [at |-> at, keyword |-> ranking.keyword, vector |-> ranking.vector,
                                          fused |-> fused, measures |-> measures]
  <2>1. CASE UNCHANGED ranking
    BY <2>1 DEF RankInv
  <2>2. CASE Evaluate
    <3>1. PICK m : ranking' = [ranking EXCEPT !.measures = m]
      BY <2>2 DEF Evaluate
    <3>2. ranking' = row(ranking.at, ranking.fused, m)
      BY <3>1 DEF RankInv
    <3> QED BY <3>2 DEF RankInv
  <2>3. ASSUME NEW mode \in {"hybrid", "keyword", "vector"}, Fuse(mode) PROVE RankInv'
    <3> DEFINE fused == CASE mode = "hybrid"  -> Fused(ranking.keyword, ranking.vector)
                          [] mode = "keyword" -> ranking.keyword
                          [] mode = "vector"  -> ranking.vector
    <3>1. ranking' = [ranking EXCEPT !.at = mode, !.fused = fused]
      BY <2>3 DEF Fuse
    <3>2. mode = "hybrid" => fused = Fused(ranking.keyword, ranking.vector)
      OBVIOUS
    <3> HIDE DEF fused
    <3>3. ranking' = row(mode, fused, ranking.measures)
      BY <3>1 DEF RankInv
    <3> QED BY <3>2, <3>3 DEF RankInv
  <2> QED BY <2>1, <2>2, <2>3 DEF RankNext
<1>3. RankInv => FusionIsMonotone
  <2> SUFFICES ASSUME RankInv, ranking.at = "hybrid"
               PROVE  /\ Found(ranking.fused) = Found(ranking.keyword) \cup Found(ranking.vector)
                      /\ IsInjective(ranking.fused)
                      /\ \A a, b \in Found(ranking.fused) :
                            LET lists == {ranking.keyword, ranking.vector}
                            IN  /\ \E l \in lists : Ahead(l, a, b)
                                /\ \A l \in lists : Ahead(l, a, b) \/ b \notin Found(l)
                                => Position(a) < Position(b)
    BY DEF FusionIsMonotone
  <2> DEFINE k == ranking.keyword
             v == ranking.vector
  <2>1. k \in Rankings /\ v \in Rankings /\ ranking.fused = Fused(k, v)
    BY DEF RankInv
  <2>2. Scored(k, v) = Found(k) \cup Found(v)
    BY DEF Scored
  <2>3. Found(ranking.fused) = Scored(k, v) /\ IsInjective(ranking.fused)
    BY <2>1, FusedIsSorted
  <2>4. ASSUME NEW a \in Scored(k, v), NEW b \in Scored(k, v),
               Ahead(k, a, b) \/ b \notin Found(k), Ahead(v, a, b) \/ b \notin Found(v)
        PROVE  Position(a) < Position(b)
    BY <2>1, <2>4, AgreementIsKept, FusedIsSorted DEF Position
  <2> QED BY <2>2, <2>3, <2>4
<1> QED BY <1>1, <1>2, <1>3, PTL DEF RankSpec

(***************************************************************************)
(* Chunking: windows.                                                       *)
(***************************************************************************)

\* What every cutting promises: chunks from a to b, none empty or larger than
\* target, each beginning overlap tokens before the last one ends.
Covers(c, a, b, target, overlap) ==
    /\ c \in Seq(Nat \X Nat) /\ Len(c) > 0
    /\ c[1][1] = a /\ c[Len(c)][2] = b
    /\ \A i \in 1 .. Len(c) : Size(c[i]) \in 1 .. target
    /\ \A i \in 1 .. Len(c) - 1 : c[i + 1][1] = c[i][2] - overlap

\* The function that Split defines: the windows from s on.
EndOf(s, b, target) == Smaller(s + target, b)

NextOf(s, b, target, overlap) == Smaller(NextStart(s, EndOf(s, b, target), overlap), b)

Window(f, s, b, target, overlap) ==
    IF EndOf(s, b, target) = b THEN << <<s, EndOf(s, b, target)>> >>
    ELSE << <<s, EndOf(s, b, target)>> >> \o f[NextOf(s, b, target, overlap)]

IsFrom(f, m, b, target, overlap) == f = [s \in m .. b |-> Window(f, s, b, target, overlap)]

LEMMA SplitIsFrom ==
  ASSUME NEW iv, NEW t, NEW o
  PROVE  Split(iv, t, o) = (CHOOSE f : IsFrom(f, iv[1], iv[2], t, o))[iv[1]]
BY DEF Split, IsFrom, Window, EndOf, NextOf

\* One chunk covers what it spans.
LEMMA OneCovers ==
  ASSUME NEW a \in Nat, NEW b \in Nat, NEW t \in Nat, NEW o \in Nat, b - a \in 1 .. t
  PROVE  Covers(<< <<a, b>> >>, a, b, t, o)
<1> DEFINE c == << <<a, b>> >>
<1>1. c \in Seq(Nat \X Nat) /\ Len(c) = 1 /\ c[1] = <<a, b>>
  OBVIOUS
<1>2. Size(c[1]) = b - a
  BY <1>1 DEF Size
<1> HIDE DEF c
<1>3. \A i \in 1 .. Len(c) : i = 1
  BY <1>1
<1>4. 1 .. Len(c) - 1 = {}
  BY <1>1
<1> QED BY <1>1, <1>2, <1>3, <1>4 DEF Covers, c

\* Two coverings join to one if the second begins where the overlap says.
LEMMA CoversJoin ==
  ASSUME NEW c, NEW d, NEW a \in Nat, NEW b \in Nat, NEW m \in Nat, NEW z \in Nat,
         NEW t \in Nat, NEW o \in Nat,
         Covers(c, a, b, t, o), Covers(d, m, z, t, o), m = b - o
  PROVE  Covers(c \o d, a, z, t, o)
<1> DEFINE e == c \o d
           p == Len(c)
           q == Len(d)
           n == Len(e)
<1>1. c \in Seq(Nat \X Nat) /\ d \in Seq(Nat \X Nat)
  BY DEF Covers
<1>2. /\ p \in Nat /\ q \in Nat /\ p > 0 /\ q > 0
      /\ c[1][1] = a /\ c[p][2] = b /\ d[1][1] = m /\ d[q][2] = z
      /\ \A i \in 1 .. p : Size(c[i]) \in 1 .. t
      /\ \A i \in 1 .. q : Size(d[i]) \in 1 .. t
      /\ \A i \in 1 .. p - 1 : c[i + 1][1] = c[i][2] - o
      /\ \A i \in 1 .. q - 1 : d[i + 1][1] = d[i][2] - o
  BY <1>1, LenProperties DEF Covers
<1>3. /\ e \in Seq(Nat \X Nat) /\ n = p + q
      /\ \A i \in 1 .. p + q : e[i] = IF i <= p THEN c[i] ELSE d[i - p]
  BY <1>1, ConcatProperties
<1> HIDE DEF e, p, q, n
<1>4. (\A i \in 1 .. p : e[i] = c[i]) /\ (\A i \in 1 .. q : e[p + i] = d[i])
  <2>1. \A i \in 1 .. p : i \in 1 .. p + q /\ i <= p
    BY <1>2
  <2>2. \A i \in 1 .. q : p + i \in 1 .. p + q /\ ~ (p + i <= p) /\ (p + i) - p = i
    BY <1>2
  <2> QED BY <1>3, <2>1, <2>2
<1>5. ASSUME NEW i \in 1 .. p + q PROVE i \in 1 .. p \/ \E j \in 1 .. q : i = p + j
  <2>1. CASE i <= p
    BY <2>1
  <2>2. CASE ~ (i <= p)
    <3>1. i - p \in 1 .. q /\ i = p + (i - p)
      BY <1>2, <2>2
    <3> QED BY <3>1
  <2> QED BY <2>1, <2>2
<1>6. e[1] = c[1] /\ e[p + q] = d[q]
  <2>1. 1 \in 1 .. p /\ q \in 1 .. q
    BY <1>2
  <2> QED BY <1>4, <2>1
<1>7. ASSUME NEW i \in 1 .. p + q PROVE Size(e[i]) \in 1 .. t
  <2>1. CASE i \in 1 .. p
    BY <1>2, <1>4, <2>1
  <2>2. ASSUME NEW j \in 1 .. q, i = p + j PROVE Size(e[i]) \in 1 .. t
    BY <1>2, <1>4, <2>2
  <2> QED BY <1>5, <2>1, <2>2
<1>8. ASSUME NEW i \in 1 .. (p + q) - 1 PROVE e[i + 1][1] = e[i][2] - o
  <2>1. CASE i < p
    <3>1. i \in 1 .. p - 1 /\ i \in 1 .. p /\ i + 1 \in 1 .. p
      BY <1>2, <2>1
    <3> QED BY <1>2, <1>4, <3>1
  <2>2. CASE i = p
    <3>1. p \in 1 .. p /\ 1 \in 1 .. q
      BY <1>2
    <3>2. e[p + 1] = d[1] /\ e[p] = c[p]
      BY <1>4, <3>1
    <3> QED BY <1>2, <2>2, <3>2
  <2>3. CASE i > p
    <3> DEFINE j == i - p
    <3>1. j \in 1 .. q - 1 /\ j \in 1 .. q /\ j + 1 \in 1 .. q /\ i = p + j /\ i + 1 = p + (j + 1)
      BY <1>2, <2>3
    <3> HIDE DEF j
    <3>2. e[i] = d[j] /\ e[i + 1] = d[j + 1]
      BY <1>4, <3>1
    <3> QED BY <1>2, <3>1, <3>2
  <2> QED BY <1>2, <2>1, <2>2, <2>3
<1>9. n > 0
  BY <1>2, <1>3
<1> QED BY <1>2, <1>3, <1>6, <1>7, <1>8, <1>9 DEF Covers, e, n

\* Before the last window, the next one begins later and before the end.
LEMMA NextIsLater ==
  ASSUME NEW s \in Nat, NEW b \in Nat, NEW t \in Nat \ {0}, NEW o \in 0 .. t - 1,
         s <= b, EndOf(s, b, t) # b
  PROVE  /\ EndOf(s, b, t) = s + t
         /\ NextOf(s, b, t, o) = (s + t) - o
         /\ NextOf(s, b, t, o) \in s + 1 .. b - 1
<1>1. EndOf(s, b, t) = s + t /\ s + t < b
  BY DEF Smaller, EndOf
<1>2. (s + t) - o \in s + 1 .. b - 1
  BY <1>1
<1>3. NextStart(s, s + t, o) = (s + t) - o
  BY <1>2 DEF NextStart, Larger
<1>4. NextOf(s, b, t, o) = Smaller((s + t) - o, b)
  BY <1>1, <1>3 DEF NextOf
<1> QED BY <1>1, <1>2, <1>4 DEF Smaller

\* Split's recursion ends: there is a function that satisfies its equation.
LEMMA FromExists ==
  ASSUME NEW a \in Nat, NEW b \in Nat, a <= b, NEW t \in Nat \ {0}, NEW o \in 0 .. t - 1
  PROVE  \E f : IsFrom(f, a, b, t, o)
<1> DEFINE Wrong == {d \in 0 .. b - a : ~ \E f : IsFrom(f, b - d, b, t, o)}
<1>1. SUFFICES ASSUME Wrong # {} PROVE FALSE
  <2>1. b - a \in 0 .. b - a /\ b - (b - a) = a
    OBVIOUS
  <2> QED BY <2>1
<1>2. PICK d \in Wrong : \A x \in Wrong : d <= x
  <2>1. Wrong \subseteq Nat
    OBVIOUS
  <2> HIDE DEF Wrong
  <2> QED BY <1>1, <2>1, Least
<1>3. d \in 0 .. b - a /\ ~ \E f : IsFrom(f, b - d, b, t, o)
  BY <1>2
<1> DEFINE m == b - d
<1>4. m \in a .. b
  BY <1>3
<1>5. CASE d = 0
  <2> DEFINE f == [s \in b .. b |-> << <<b, b>> >>]
  <2>1. EndOf(b, b, t) = b
    BY DEF Smaller, EndOf
  <2>2. \A s \in b .. b : s = b
    OBVIOUS
  <2>3. \A s \in b .. b : Window(f, s, b, t, o) = << <<b, b>> >>
    BY <2>1, <2>2 DEF Window
  <2> HIDE DEF f
  <2>4. f = [s \in b .. b |-> Window(f, s, b, t, o)]
    BY <2>3 DEF f
  <2>5. IsFrom(f, b, b, t, o) /\ b - d = b
    BY <1>5, <2>4 DEF IsFrom
  <2> QED BY <1>3, <2>5
<1>6. CASE d > 0
  <2>1. d - 1 \in 0 .. b - a /\ d - 1 \notin Wrong /\ b - (d - 1) = m + 1
    BY <1>2, <1>3, <1>6
  <2>2. PICK g : IsFrom(g, m + 1, b, t, o)
    BY <2>1
  <2> DEFINE f == [s \in m .. b |-> IF s = m THEN Window(g, m, b, t, o) ELSE g[s]]
  <2>3. ASSUME NEW s \in m .. b PROVE Window(f, s, b, t, o) = Window(g, s, b, t, o)
    <3>1. s \in Nat /\ s <= b /\ m \in Nat
      BY <1>4
    <3>2. CASE EndOf(s, b, t) = b
      BY <3>2 DEF Window
    <3>3. CASE EndOf(s, b, t) # b
      <4> DEFINE next == NextOf(s, b, t, o)
      <4>1. next \in s + 1 .. b - 1
        BY <3>1, <3>3, NextIsLater
      <4> HIDE DEF next
      <4>2. next \in m .. b /\ next # m
        BY <3>1, <4>1
      <4>3. f[next] = g[next]
        BY <4>2
      <4> HIDE DEF f
      <4> QED BY <3>3, <4>3 DEF Window, next
    <3> QED BY <3>2, <3>3
  <2>4. \A s \in m .. b : s # m => s \in m + 1 .. b
    BY <1>4
  <2>5. \A s \in m + 1 .. b : g[s] = Window(g, s, b, t, o)
    BY <2>2 DEF IsFrom
  <2>6. \A s \in m .. b : f[s] = Window(f, s, b, t, o)
    BY <2>3, <2>4, <2>5
  <2>7. f = [s \in m .. b |-> f[s]]
    OBVIOUS
  <2> HIDE DEF f
  <2>8. IsFrom(f, m, b, t, o)
    BY <2>6, <2>7 DEF IsFrom
  <2> QED BY <1>3, <2>8
<1> QED BY <1>3, <1>5, <1>6

\* Splitting an interval covers it, whatever target and a smaller overlap are.
LEMMA SplitCovers ==
  ASSUME NEW a \in Nat, NEW b \in Nat, a < b, NEW t \in Nat \ {0}, NEW o \in 0 .. t - 1
  PROVE  Covers(Split(<<a, b>>, t, o), a, b, t, o)
<1> DEFINE f == CHOOSE g : IsFrom(g, a, b, t, o)
<1>1. Split(<<a, b>>, t, o) = f[a]
  BY SplitIsFrom
<1>2. \A s \in a .. b : f[s] = Window(f, s, b, t, o)
  <2>1. IsFrom(f, a, b, t, o)
    BY FromExists
  <2> HIDE DEF f
  <2> QED BY <2>1 DEF IsFrom
<1> HIDE DEF f
<1> DEFINE Wrong == {d \in 1 .. b - a : ~ Covers(f[b - d], b - d, b, t, o)}
<1>3. SUFFICES ASSUME Wrong # {} PROVE FALSE
  <2>1. b - a \in 1 .. b - a /\ b - (b - a) = a
    OBVIOUS
  <2>2. Covers(f[b - (b - a)], b - (b - a), b, t, o)
    BY <1>3, <2>1
  <2> QED BY <1>1, <2>1, <2>2
<1>4. PICK d \in Wrong : \A x \in Wrong : d <= x
  <2>1. Wrong \subseteq Nat
    OBVIOUS
  <2> HIDE DEF Wrong
  <2> QED BY <1>3, <2>1, Least
<1>5. PICK s \in a .. b - 1 : s = b - d
  BY <1>4
<1>6. s \in Nat /\ s \in a .. b /\ s < b /\ ~ Covers(f[s], s, b, t, o)
  BY <1>4, <1>5
<1>7. CASE EndOf(s, b, t) = b
  <2>1. b - s \in 1 .. t
    BY <1>6, <1>7 DEF Smaller, EndOf
  <2>2. f[s] = << <<s, b>> >>
    BY <1>2, <1>6, <1>7 DEF Window
  <2> QED BY <1>6, <2>1, <2>2, OneCovers
<1>8. CASE EndOf(s, b, t) # b
  <2> DEFINE e == s + t
             next == e - o
  <2>1. EndOf(s, b, t) = e /\ NextOf(s, b, t, o) = next /\ next \in s + 1 .. b - 1
    BY <1>6, <1>8, NextIsLater
  <2>2. e \in Nat /\ next \in Nat /\ e - s \in 1 .. t
    BY <1>6, <2>1
  <2>3. b - next \in 1 .. b - a /\ b - next < d /\ b - (b - next) = next
    BY <1>5, <1>6, <2>1
  <2>4. Covers(f[next], next, b, t, o)
    <3> DEFINE x == b - next
    <3>1. x \in 1 .. b - a /\ d \in Nat /\ ~ (d <= x) /\ b - x = next
      BY <1>4, <2>3
    <3> HIDE DEF x, next
    <3>2. x \notin Wrong
      <4> HIDE DEF Wrong
      <4> QED BY <1>4, <3>1
    <3> QED BY <3>1, <3>2
  <2>5. f[s] = << <<s, e>> >> \o f[next]
    BY <1>2, <1>6, <1>8, <2>1 DEF Window
  <2>6. Covers(<< <<s, e>> >>, s, e, t, o)
    BY <1>6, <2>2, OneCovers
  <2> HIDE DEF next, e
  <2>7. Covers(<< <<s, e>> >> \o f[next], s, b, t, o)
    <3>1. next = e - o /\ t \in Nat /\ o \in Nat
      BY DEF next
    <3> QED BY <1>6, <2>2, <2>4, <2>6, <3>1, CoversJoin
  <2>8. Covers(f[s], s, b, t, o)
    BY <2>5, <2>7
  <2> QED BY <1>6, <2>8
<1> QED BY <1>7, <1>8

(***************************************************************************)
(* Chunking: sections and parents.                                          *)
(***************************************************************************)

IsSums(u, sizes, n) == u = [i \in 0 .. n |-> IF i = 0 THEN 0 ELSE u[i - 1] + sizes[i]]

\* The sections of a document are cut at increasing places.
IsCut(u, sections, k) ==
    /\ u \in [0 .. k -> Nat] /\ u[0] = 0
    /\ \A i \in 1 .. k : u[i - 1] < u[i]
    /\ sections = [i \in 1 .. k |-> <<u[i - 1], u[i]>>]

LEMMA SumsExist ==
  ASSUME NEW sizes, NEW k \in Nat
  PROVE  \E u : IsSums(u, sizes, k)
<1> DEFINE Wrong == {n \in 0 .. k : ~ \E u : IsSums(u, sizes, n)}
<1>1. SUFFICES ASSUME Wrong # {} PROVE FALSE
  OBVIOUS
<1>2. PICK n \in Wrong : \A x \in Wrong : n <= x
  <2>1. Wrong \subseteq Nat
    OBVIOUS
  <2> HIDE DEF Wrong
  <2> QED BY <1>1, <2>1, Least
<1>3. n \in 0 .. k /\ ~ \E u : IsSums(u, sizes, n)
  BY <1>2
<1>4. CASE n = 0
  <2> DEFINE u == [i \in 0 .. 0 |-> 0]
  <2>1. \A i \in 0 .. 0 : i = 0
    OBVIOUS
  <2>2. u = [i \in 0 .. 0 |-> IF i = 0 THEN 0 ELSE u[i - 1] + sizes[i]]
    BY <2>1
  <2> HIDE DEF u
  <2> QED BY <1>3, <1>4, <2>2 DEF IsSums
<1>5. CASE n > 0
  <2>1. n - 1 \in 0 .. k /\ n - 1 \notin Wrong
    BY <1>2, <1>3, <1>5
  <2>2. PICK v : IsSums(v, sizes, n - 1)
    BY <2>1
  <2> DEFINE u == [i \in 0 .. n |-> IF i = n THEN v[n - 1] + sizes[n] ELSE v[i]]
  <2>3. \A i \in 0 .. n - 1 : v[i] = IF i = 0 THEN 0 ELSE v[i - 1] + sizes[i]
    BY <2>2 DEF IsSums
  <2>4. ASSUME NEW i \in 0 .. n PROVE u[i] = IF i = 0 THEN 0 ELSE u[i - 1] + sizes[i]
    <3>1. CASE i = n
      <4>1. n - 1 \in 0 .. n /\ n - 1 # n /\ n # 0 /\ n \in 0 .. n
        BY <1>3, <1>5
      <4>2. u[n - 1] = v[n - 1] /\ u[n] = v[n - 1] + sizes[n]
        BY <4>1
      <4> HIDE DEF u
      <4> QED BY <3>1, <4>1, <4>2
    <3>2. CASE i # n
      <4>1. i \in 0 .. n - 1 /\ u[i] = v[i]
        BY <1>3, <3>2
      <4>2. i # 0 => i - 1 \in 0 .. n /\ i - 1 # n
        BY <1>3, <3>2
      <4> QED BY <2>3, <4>1, <4>2
    <3> QED BY <3>1, <3>2
  <2>5. u = [i \in 0 .. n |-> u[i]]
    <3> HIDE DEF Wrong
    <3> QED OBVIOUS
  <2> HIDE DEF u
  <2>6. IsSums(u, sizes, n)
    BY <2>4, <2>5 DEF IsSums
  <2> QED BY <1>3, <2>6
<1> QED BY <1>3, <1>4, <1>5

LEMMA SectionsAreCut ==
  ASSUME NEW k \in Nat \ {0}, NEW sizes \in [1 .. k -> Nat \ {0}]
  PROVE  \E u : IsCut(u, SectionsOf(sizes), k)
<1> DEFINE u == CHOOSE w : IsSums(w, sizes, k)
<1>1. Len(sizes) = k
  BY LenProperties
<1>2. SectionsOf(sizes) = [i \in 1 .. k |-> <<u[i - 1], u[i]>>]
  BY <1>1 DEF SectionsOf, IsSums
<1>3. IsSums(u, sizes, k)
  BY SumsExist
<1> HIDE DEF u
<1>4. /\ u = [i \in 0 .. k |-> u[i]]
      /\ u[0] = 0
      /\ \A i \in 1 .. k : u[i] = u[i - 1] + sizes[i]
  <2>1. u = [i \in 0 .. k |-> IF i = 0 THEN 0 ELSE u[i - 1] + sizes[i]]
    BY <1>3 DEF IsSums
  <2>2. \A i \in 0 .. k : u[i] = IF i = 0 THEN 0 ELSE u[i - 1] + sizes[i]
    BY <2>1
  <2>3. DOMAIN u = 0 .. k
    BY <2>1
  <2>4. u = [i \in 0 .. k |-> u[i]]
    BY <2>1, <2>3
  <2>5. 0 \in 0 .. k /\ \A i \in 1 .. k : i \in 0 .. k /\ i # 0
    OBVIOUS
  <2> QED BY <2>2, <2>4, <2>5
<1>5. \A i \in 0 .. k : u[i] \in Nat
  <2> DEFINE Wrong == {i \in 0 .. k : u[i] \notin Nat}
  <2>1. SUFFICES ASSUME Wrong # {} PROVE FALSE
    OBVIOUS
  <2>2. PICK i \in Wrong : \A x \in Wrong : i <= x
    <3>1. Wrong \subseteq Nat
      OBVIOUS
    <3> HIDE DEF Wrong
    <3> QED BY <2>1, <3>1, Least
  <2>3. i # 0 /\ i \in 1 .. k
    BY <1>4, <2>2
  <2>4. i - 1 \in 0 .. k /\ i - 1 \notin Wrong
    BY <2>2, <2>3
  <2>5. u[i - 1] \in Nat /\ sizes[i] \in Nat
    BY <2>3, <2>4
  <2>6. u[i] = u[i - 1] + sizes[i]
    BY <1>4, <2>3
  <2>7. u[i] \in Nat
    BY <2>5, <2>6
  <2> QED BY <2>2, <2>7
<1>6. \A i \in 1 .. k : u[i - 1] < u[i]
  <2> SUFFICES ASSUME NEW i \in 1 .. k PROVE u[i - 1] < u[i]
    OBVIOUS
  <2>1. u[i] = u[i - 1] + sizes[i]
    BY <1>4
  <2>2. i - 1 \in 0 .. k /\ sizes[i] \in Nat \ {0}
    OBVIOUS
  <2>3. u[i - 1] \in Nat
    BY <1>5, <2>2
  <2> QED BY <2>1, <2>2, <2>3
<1> QED BY <1>2, <1>4, <1>5, <1>6 DEF IsCut

\* What the parents reach: nothing yet, or the tokens up to z.
Reaches(parents, z) ==
    (parents = <<>> /\ z = 0) \/ Covers(parents, 0, z, ParentTarget, 0)

\* What the loop keeps: the parents reach m, and the collected sections go
\* from there to z, with no more tokens than a parent may have.
Packed(acc, z) ==
    \E m \in Nat :
        /\ acc = [parents |-> acc.parents, collected |-> acc.collected]
        /\ Reaches(acc.parents, m)
        /\ \/ acc.collected = <<>> /\ m = z
           \/ acc.collected = <<m, z>> /\ z - m \in 1 .. ParentTarget

LEMMA ReachesFurther ==
  ASSUME NEW p, NEW d, NEW m \in Nat, NEW z \in Nat, Reaches(p, m), Covers(d, m, z, ParentTarget, 0)
  PROVE  Covers(p \o d, 0, z, ParentTarget, 0)
<1>1. CASE p = <<>> /\ m = 0
  <2>1. d \in Seq(Nat \X Nat)
    BY DEF Covers
  <2>2. p \o d = d
    BY <1>1, <2>1, ConcatEmptySeq
  <2> QED BY <1>1, <2>2
<1>2. CASE Covers(p, 0, m, ParentTarget, 0)
  <2>1. ParentTarget \in Nat /\ m = m - 0
    BY OverlapIsSmaller
  <2> QED BY <1>2, <2>1, CoversJoin
<1> QED BY <1>1, <1>2 DEF Reaches

LEMMA FlushReaches ==
  ASSUME NEW acc, NEW z \in Nat, Packed(acc, z)
  PROVE  /\ Flush(acc) = [parents |-> Flush(acc).parents, collected |-> <<>>]
         /\ Reaches(Flush(acc).parents, z)
<1>1. PICK m \in Nat :
        /\ acc = [parents |-> acc.parents, collected |-> acc.collected]
        /\ Reaches(acc.parents, m)
        /\ \/ acc.collected = <<>> /\ m = z
           \/ acc.collected = <<m, z>> /\ z - m \in 1 .. ParentTarget
  BY DEF Packed
<1>2. CASE acc.collected = <<>> /\ m = z
  BY <1>1, <1>2 DEF Flush
<1>3. CASE acc.collected = <<m, z>> /\ z - m \in 1 .. ParentTarget
  <2>1. acc.collected # <<>>
    BY <1>3
  <2>2. Flush(acc) = [parents |-> Append(acc.parents, <<m, z>>), collected |-> <<>>]
    <3>1. acc.collected[1] = m /\ acc.collected[2] = z
      BY <1>3
    <3> QED BY <2>1, <3>1 DEF Flush
  <2>3. acc.parents \in Seq(Nat \X Nat)
    <3>1. <<>> \in Seq(Nat \X Nat)
      OBVIOUS
    <3> QED BY <1>1, <3>1 DEF Reaches, Covers
  <2>4. Append(acc.parents, <<m, z>>) = acc.parents \o << <<m, z>> >>
    <3>1. <<m, z>> \in Nat \X Nat
      OBVIOUS
    <3> QED BY <2>3, <3>1, AppendIsConcat
  <2>5. Covers(<< <<m, z>> >>, m, z, ParentTarget, 0)
    BY <1>3, OverlapIsSmaller, OneCovers
  <2>6. Covers(Append(acc.parents, <<m, z>>), 0, z, ParentTarget, 0)
    BY <1>1, <2>4, <2>5, ReachesFurther
  <2> QED BY <2>2, <2>6 DEF Reaches
<1> QED BY <1>1, <1>2, <1>3

\* A section more: it is split, starts a new parent or joins the collected ones.
LEMMA AddSectionReaches ==
  ASSUME NEW acc, NEW a \in Nat, NEW b \in Nat, a < b, Packed(acc, a)
  PROVE  Packed(AddSection(acc, <<a, b>>), b)
<1> DEFINE s == <<a, b>>
           r == AddSection(acc, s)
<1>1. Size(s) = b - a /\ s[1] = a /\ s[2] = b /\ ParentTarget \in Nat \ {0}
  BY OverlapIsSmaller DEF Size
<1>2. PICK m \in Nat :
        /\ acc = [parents |-> acc.parents, collected |-> acc.collected]
        /\ Reaches(acc.parents, m)
        /\ \/ acc.collected = <<>> /\ m = a
           \/ acc.collected = <<m, a>> /\ a - m \in 1 .. ParentTarget
  BY DEF Packed
<1>3. PICK p : Flush(acc) = [parents |-> p, collected |-> <<>>] /\ Reaches(p, a)
  BY FlushReaches
<1> HIDE DEF s
<1>4. CASE Size(s) > ParentTarget
  <2> DEFINE cut == Split(s, ParentTarget, 0)
  <2>1. r = [parents |-> p \o cut, collected |-> <<>>]
    <3>1. r = [Flush(acc) EXCEPT !.parents = @ \o cut]
      BY <1>4 DEF AddSection
    <3>2. ASSUME NEW y PROVE [Flush(acc) EXCEPT !.parents = y] = [parents |-> y, collected |-> <<>>]
      BY <1>3
    <3>3. [Flush(acc) EXCEPT !.parents = @ \o cut]
            = [parents |-> Flush(acc).parents \o cut, collected |-> <<>>]
      BY <3>2
    <3>4. Flush(acc).parents = p
      BY <1>3
    <3> QED BY <3>1, <3>3, <3>4
  <2>2. Covers(cut, a, b, ParentTarget, 0)
    BY <1>1, SplitCovers DEF s
  <2>3. Covers(p \o cut, 0, b, ParentTarget, 0)
    BY <1>3, <2>2, ReachesFurther
  <2> DEFINE q == p \o cut
  <2>4. r = [parents |-> q, collected |-> <<>>] /\ Reaches(q, b)
    BY <2>1, <2>3 DEF Reaches
  <2> HIDE DEF q, r
  <2>5. Packed(r, b)
    BY <2>4 DEF Packed
  <2> QED BY <2>5 DEF r, s
<1>5. CASE Size(s) <= ParentTarget /\ acc.collected # <<>> /\ Size(acc.collected) + Size(s) > ParentTarget
  <2>1. r = Collect(Flush(acc), s)
    BY <1>1, <1>5 DEF AddSection
  <2>2. r = [parents |-> p, collected |-> <<a, b>>]
    BY <1>3, <2>1 DEF Collect, s
  <2>3. b - a \in 1 .. ParentTarget
    BY <1>1, <1>5
  <2> HIDE DEF r
  <2> QED BY <1>3, <2>2, <2>3 DEF Packed, r, s
<1>6. CASE Size(s) <= ParentTarget /\ acc.collected = <<>>
  <2>1. r = Collect(acc, s)
    BY <1>1, <1>6 DEF AddSection
  <2>2. r = [parents |-> acc.parents, collected |-> <<a, b>>]
    BY <1>2, <1>6, <2>1 DEF Collect, s
  <2>3. m = a /\ b - a \in 1 .. ParentTarget
    BY <1>1, <1>2, <1>6
  <2> HIDE DEF r
  <2> QED BY <1>2, <2>2, <2>3 DEF Packed, r, s
<1>7. CASE /\ Size(s) <= ParentTarget /\ acc.collected # <<>>
           /\ Size(acc.collected) + Size(s) <= ParentTarget
  <2>1. acc.collected = <<m, a>> /\ a - m \in 1 .. ParentTarget /\ Size(acc.collected) = a - m
    BY <1>2, <1>7 DEF Size
  <2>2. r = Collect(acc, s)
    BY <1>1, <1>7, <2>1 DEF AddSection
  <2>3. r = [acc EXCEPT !.collected[2] = b]
    BY <1>1, <1>7, <2>2 DEF Collect
  <2>4. r = [parents |-> acc.parents, collected |-> <<m, b>>]
    <3>1. [acc.collected EXCEPT ![2] = b] = <<m, b>>
      BY <2>1
    <3> QED BY <1>2, <2>3, <3>1
  <2>5. b - m \in 1 .. ParentTarget
    BY <1>1, <1>7, <2>1
  <2> HIDE DEF r
  <2> QED BY <1>2, <2>4, <2>5 DEF Packed, r, s
<1>8. acc.collected # <<>> => Size(acc.collected) \in Nat
  BY <1>2 DEF Size
<1> QED BY <1>1, <1>4, <1>5, <1>6, <1>7, <1>8 DEF s

\* The function that ParentsOf defines.
IsPacked(f, sections, n) ==
    f = [i \in 0 .. n |-> IF i = 0 THEN [parents |-> <<>>, collected |-> <<>>]
                          ELSE AddSection(f[i - 1], sections[i])]

LEMMA PackedExists ==
  ASSUME NEW sections, NEW k \in Nat
  PROVE  \E f : IsPacked(f, sections, k)
<1> DEFINE none == [parents |-> <<>>, collected |-> <<>>]
<1>0. \A f, n : IsPacked(f, sections, n) <=>
                f = [i \in 0 .. n |-> IF i = 0 THEN none ELSE AddSection(f[i - 1], sections[i])]
  BY DEF IsPacked
<1> HIDE DEF none
<1> DEFINE Wrong == {n \in 0 .. k : ~ \E f : IsPacked(f, sections, n)}
<1>1. SUFFICES ASSUME Wrong # {} PROVE FALSE
  OBVIOUS
<1>2. PICK n \in Wrong : \A x \in Wrong : n <= x
  <2>1. Wrong \subseteq Nat
    OBVIOUS
  <2> HIDE DEF Wrong
  <2> QED BY <1>1, <2>1, Least
<1>3. n \in 0 .. k /\ ~ \E f : IsPacked(f, sections, n)
  BY <1>2
<1>4. CASE n = 0
  <2> DEFINE f == [i \in 0 .. 0 |-> none]
  <2>1. \A i \in 0 .. 0 : i = 0
    OBVIOUS
  <2>2. f = [i \in 0 .. 0 |-> IF i = 0 THEN none ELSE AddSection(f[i - 1], sections[i])]
    BY <2>1
  <2> HIDE DEF f
  <2> QED BY <1>0, <1>3, <1>4, <2>2
<1>5. CASE n > 0
  <2>1. n - 1 \in 0 .. k /\ n - 1 \notin Wrong
    BY <1>2, <1>3, <1>5
  <2>2. PICK g : IsPacked(g, sections, n - 1)
    BY <2>1
  <2> DEFINE f == [i \in 0 .. n |-> IF i = n THEN AddSection(g[n - 1], sections[n]) ELSE g[i]]
  <2>3. \A i \in 0 .. n - 1 : g[i] = IF i = 0 THEN none ELSE AddSection(g[i - 1], sections[i])
    BY <1>0, <2>2
  <2>4. ASSUME NEW i \in 0 .. n PROVE f[i] = IF i = 0 THEN none ELSE AddSection(f[i - 1], sections[i])
    <3>1. CASE i = n
      <4>1. n - 1 \in 0 .. n /\ n - 1 # n /\ n # 0 /\ n \in 0 .. n
        BY <1>3, <1>5
      <4>2. f[n - 1] = g[n - 1] /\ f[n] = AddSection(g[n - 1], sections[n])
        BY <4>1
      <4> HIDE DEF f
      <4> QED BY <3>1, <4>1, <4>2
    <3>2. CASE i # n
      <4>1. i \in 0 .. n - 1 /\ f[i] = g[i]
        BY <1>3, <3>2
      <4>2. i # 0 => i - 1 \in 0 .. n /\ i - 1 # n
        BY <1>3, <3>2
      <4> QED BY <2>3, <4>1, <4>2
    <3> QED BY <3>1, <3>2
  <2>5. f = [i \in 0 .. n |-> f[i]]
    <3> HIDE DEF Wrong
    <3> QED OBVIOUS
  <2> HIDE DEF f
  <2>6. f = [i \in 0 .. n |-> IF i = 0 THEN none ELSE AddSection(f[i - 1], sections[i])]
    BY <2>4, <2>5
  <2>7. IsPacked(f, sections, n)
    BY <1>0, <2>6
  <2> QED BY <1>3, <2>7
<1> QED BY <1>3, <1>4, <1>5

\* The parents of a document cover it.
LEMMA ParentsCover ==
  ASSUME NEW sections, NEW k \in Nat \ {0}, NEW u, IsCut(u, sections, k)
  PROVE  Covers(ParentsOf(sections), 0, u[k], ParentTarget, 0)
<1> DEFINE f == CHOOSE g : IsPacked(g, sections, k)
<1>1. /\ u \in [0 .. k -> Nat] /\ u[0] = 0
      /\ \A i \in 1 .. k : u[i - 1] < u[i]
      /\ sections = [i \in 1 .. k |-> <<u[i - 1], u[i]>>]
  BY DEF IsCut
<1>2. Len(sections) = k
  <2>1. sections \in [1 .. k -> Nat \X Nat]
    <3>1. \A i \in 1 .. k : i - 1 \in 0 .. k /\ i \in 0 .. k
      OBVIOUS
    <3> QED BY <1>1, <3>1
  <2> QED BY <2>1, LenProperties
<1>3. ParentsOf(sections) = Flush(f[k]).parents
  BY <1>2 DEF ParentsOf, IsPacked
<1>4. IsPacked(f, sections, k)
  BY PackedExists
<1> HIDE DEF f
<1>5. \A i \in 0 .. k : f[i] = IF i = 0 THEN [parents |-> <<>>, collected |-> <<>>]
                               ELSE AddSection(f[i - 1], sections[i])
  BY <1>4 DEF IsPacked
<1>6. \A i \in 0 .. k : Packed(f[i], u[i])
  <2> DEFINE Wrong == {i \in 0 .. k : ~ Packed(f[i], u[i])}
  <2>1. SUFFICES ASSUME Wrong # {} PROVE FALSE
    OBVIOUS
  <2>2. PICK i \in Wrong : \A x \in Wrong : i <= x
    <3>1. Wrong \subseteq Nat
      OBVIOUS
    <3> HIDE DEF Wrong
    <3> QED BY <2>1, <3>1, Least
  <2>3. i \in 0 .. k /\ ~ Packed(f[i], u[i])
    BY <2>2
  <2>4. CASE i = 0
    <3>1. f[0] = [parents |-> <<>>, collected |-> <<>>]
      BY <1>5, <2>3, <2>4
    <3>2. Packed(f[0], 0)
      BY <3>1 DEF Packed, Reaches
    <3> QED BY <1>1, <2>3, <2>4, <3>2
  <2>5. CASE i # 0
    <3>1. i \in 1 .. k /\ i - 1 \in 0 .. k /\ i - 1 \notin Wrong
      BY <2>2, <2>3, <2>5
    <3>2. Packed(f[i - 1], u[i - 1])
      BY <3>1
    <3>3. u[i - 1] \in Nat /\ u[i] \in Nat /\ u[i - 1] < u[i] /\ sections[i] = <<u[i - 1], u[i]>>
      BY <1>1, <2>3, <3>1
    <3>4. f[i] = AddSection(f[i - 1], <<u[i - 1], u[i]>>)
      BY <1>5, <2>3, <2>5, <3>3
    <3>5. Packed(f[i], u[i])
      BY <3>2, <3>3, <3>4, AddSectionReaches
    <3> QED BY <2>3, <3>5
  <2> QED BY <2>4, <2>5
<1>7. k \in 0 .. k /\ k - 1 \in 0 .. k /\ k \in 1 .. k
  OBVIOUS
<1>8. u[k] \in Nat /\ u[k] # 0
  <2>1. u[k] \in Nat /\ u[k - 1] \in Nat /\ u[k - 1] < u[k]
    BY <1>1, <1>7
  <2> QED BY <2>1
<1>9. Reaches(Flush(f[k]).parents, u[k])
  BY <1>6, <1>7, <1>8, FlushReaches
<1> QED BY <1>3, <1>8, <1>9 DEF Reaches

(***************************************************************************)
(* Chunking: the pipeline.                                                  *)
(***************************************************************************)

\* The sections are cut, the parents cover them and each parent's children
\* cover the parent.
ChunkingInv ==
    \E k, u :
        /\ k \in Nat \ {0} /\ IsCut(u, chunking.sections, k)
        /\ chunking = [at |-> chunking.at, sections |-> chunking.sections,
                       parents |-> chunking.parents, children |-> chunking.children]
        /\ chunking.at \in {"parents", "children", "done"}
        /\ chunking.at # "parents" => Covers(chunking.parents, 0, u[k], ParentTarget, 0)
        /\ chunking.at = "done" =>
              chunking.children = [i \in DOMAIN chunking.parents |->
                                      Split(chunking.parents[i], ChildTarget, ChildOverlap)]

LEMMA ChunkingFirst == ChunkingInit => ChunkingInv
<1> SUFFICES ASSUME NEW k \in 1 .. MaxSections, NEW sizes \in [1 .. k -> 1 .. MaxTokens],
                    chunking = [at |-> "parents", sections |-> SectionsOf(sizes),
                                parents |-> <<>>, children |-> <<>>]
             PROVE  ChunkingInv
  BY DEF ChunkingInit
<1>1. k \in Nat \ {0} /\ sizes \in [1 .. k -> Nat \ {0}]
  OBVIOUS
<1>2. PICK u : IsCut(u, SectionsOf(sizes), k)
  BY <1>1, SectionsAreCut
<1> QED BY <1>1, <1>2 DEF ChunkingInv

LEMMA ChunkingStep == ChunkingInv /\ [ChunkingNext]_chunking => ChunkingInv'
<1> SUFFICES ASSUME ChunkingInv, [ChunkingNext]_chunking PROVE ChunkingInv'
  OBVIOUS
<1> DEFINE row(at, parents, children) == [at |-> at, sections |-> chunking.sections,
                                          parents |-> parents, children |-> children]
<1>1. PICK k, u :
        /\ k \in Nat \ {0} /\ IsCut(u, chunking.sections, k)
        /\ chunking = row(chunking.at, chunking.parents, chunking.children)
        /\ chunking.at \in {"parents", "children", "done"}
        /\ chunking.at # "parents" => Covers(chunking.parents, 0, u[k], ParentTarget, 0)
        /\ chunking.at = "done" =>
              chunking.children = [i \in DOMAIN chunking.parents |->
                                      Split(chunking.parents[i], ChildTarget, ChildOverlap)]
  BY DEF ChunkingInv
<1>2. CASE UNCHANGED chunking
  BY <1>2 DEF ChunkingInv
<1>3. CASE BuildParents
  <2>1. chunking' = row("children", ParentsOf(chunking.sections), chunking.children)
    BY <1>1, <1>3 DEF BuildParents
  <2>2. Covers(ParentsOf(chunking.sections), 0, u[k], ParentTarget, 0)
    BY <1>1, ParentsCover
  <2> QED BY <1>1, <2>1, <2>2 DEF ChunkingInv
<1>4. CASE BuildChildren
  <2> DEFINE children == [i \in DOMAIN chunking.parents |->
                             Split(chunking.parents[i], ChildTarget, ChildOverlap)]
  <2>1. chunking' = row("done", chunking.parents, children) /\ chunking.at = "children"
    BY <1>1, <1>4 DEF BuildChildren
  <2> QED BY <1>1, <2>1 DEF ChunkingInv
<1> QED BY <1>2, <1>3, <1>4 DEF ChunkingNext

\* Whatever the document and the targets, every token is in one parent and in
\* a child of it; children of a parent share the overlap, and no chunk is
\* empty or larger than its target.
THEOREM ChunkingCorrect == ChunkingSpec => []NothingIsLost
<1>1. ChunkingInv => NothingIsLost
  <2> SUFFICES ASSUME ChunkingInv, chunking.at = "done" PROVE NothingIsLost
    BY DEF NothingIsLost
  <2> DEFINE p == chunking.parents
             c == chunking.children
  <2>1. PICK k, u :
          /\ k \in Nat \ {0} /\ IsCut(u, chunking.sections, k)
          /\ Covers(p, 0, u[k], ParentTarget, 0)
          /\ c = [i \in DOMAIN p |-> Split(p[i], ChildTarget, ChildOverlap)]
    BY DEF ChunkingInv
  <2>2. chunking.sections[Len(chunking.sections)][2] = u[k]
    <3>1. u \in [0 .. k -> Nat] /\ chunking.sections = [i \in 1 .. k |-> <<u[i - 1], u[i]>>]
      BY <2>1 DEF IsCut
    <3>2. chunking.sections \in [1 .. k -> Nat \X Nat]
      <4>1. \A i \in 1 .. k : i - 1 \in 0 .. k /\ i \in 0 .. k
        BY <2>1
      <4> QED BY <3>1, <4>1
    <3>3. Len(chunking.sections) = k
      BY <2>1, <3>2, LenProperties
    <3>4. k \in 1 .. k
      BY <2>1
    <3> QED BY <3>1, <3>3, <3>4
  <2>3. /\ p \in Seq(Nat \X Nat) /\ p[1][1] = 0 /\ p[Len(p)][2] = u[k]
        /\ \A i \in 1 .. Len(p) : Size(p[i]) \in 1 .. ParentTarget
        /\ \A i \in 1 .. Len(p) - 1 : p[i + 1][1] = p[i][2] - 0
    BY <2>1 DEF Covers
  <2>4. DOMAIN p = 1 .. Len(p) /\ Len(p) \in Nat /\ \A i \in 1 .. Len(p) : p[i] \in Nat \X Nat
    BY <2>3, LenProperties, ElementOfSeq
  <2> HIDE DEF p, c
  <2>5. \A i \in 1 .. Len(p) - 1 : p[i][2] = p[i + 1][1]
    <3> SUFFICES ASSUME NEW i \in 1 .. Len(p) - 1 PROVE p[i][2] = p[i + 1][1]
      OBVIOUS
    <3>1. i \in 1 .. Len(p)
      BY <2>4
    <3>2. p[i][2] \in Nat /\ p[i + 1][1] = p[i][2] - 0
      BY <2>3, <2>4, <3>1
    <3> QED BY <3>2
  <2>6. ASSUME NEW i \in DOMAIN p
        PROVE  /\ Size(p[i]) \in 1 .. ParentTarget
               /\ c[i][1][1] = p[i][1] /\ c[i][Len(c[i])][2] = p[i][2]
               /\ \A n \in DOMAIN c[i] : Size(c[i][n]) \in 1 .. ChildTarget
               /\ \A n \in 1 .. Len(c[i]) - 1 : c[i][n + 1][1] = c[i][n][2] - ChildOverlap
    <3>1. i \in 1 .. Len(p) /\ Size(p[i]) \in 1 .. ParentTarget
      BY <2>3, <2>4
    <3>2. PICK a \in Nat, b \in Nat : p[i] = <<a, b>>
      BY <2>4, <3>1
    <3>3. a < b /\ p[i][1] = a /\ p[i][2] = b
      BY <3>1, <3>2 DEF Size
    <3>4. c[i] = Split(<<a, b>>, ChildTarget, ChildOverlap)
      BY <2>1, <3>2 DEF p, c
    <3>5. Covers(c[i], a, b, ChildTarget, ChildOverlap)
      BY <3>3, <3>4, OverlapIsSmaller, SplitCovers
    <3>6. DOMAIN c[i] = 1 .. Len(c[i])
      BY <3>5, LenProperties DEF Covers
    <3> QED BY <3>1, <3>3, <3>5, <3>6 DEF Covers
  <2> QED BY <2>2, <2>3, <2>5, <2>6 DEF NothingIsLost, p, c
<1> QED BY <1>1, ChunkingFirst, ChunkingStep, PTL DEF ChunkingSpec
=============================================================================
