-------------------------------- MODULE Chunking --------------------------------
(* KnowledgeIngestionPipeline (knowledge/ingestion.py): the sections of a    *)
(* text are packed into parent chunks and each parent is cut into child      *)
(* chunks that overlap.  A text is a run of tokens, numbered through the     *)
(* document; a section, a parent or a child is the interval <<a, b>> of the  *)
(* tokens a+1 .. b.                                                          *)
EXTENDS Naturals, Sequences

CONSTANTS ParentTarget,  \* parent_target_tokens
          ChildTarget,   \* child_target_tokens
          ChildOverlap,  \* child_overlap_tokens
          MaxSections,   \* bound: sections of a document
          MaxTokens      \* bound: tokens of a section

ASSUME OverlapIsSmaller == /\ ParentTarget \in Nat \ {0} /\ ChildTarget \in Nat \ {0}
                           /\ ChildOverlap \in 0 .. ChildTarget - 1

VARIABLE chunking  \* the document's sections, what is built of them, and how far

Size(iv) == iv[2] - iv[1]
Smaller(a, b) == IF a < b THEN a ELSE b
Larger(a, b)  == IF a > b THEN a ELSE b

\* A document has text, and a section is kept when it has some.
SectionsOf(sizes) ==
    LET upTo[i \in 0 .. Len(sizes)] == IF i = 0 THEN 0 ELSE upTo[i - 1] + sizes[i]
    IN  [i \in 1 .. Len(sizes) |-> <<upTo[i - 1], upTo[i]>>]

ChunkingInit ==
    \E k \in 1 .. MaxSections : \E sizes \in [1 .. k -> 1 .. MaxTokens] :
        chunking = [at |-> "parents", sections |-> SectionsOf(sizes),
                    parents |-> <<>>, children |-> <<>>]

\* Mutant: the overlap is left out twice.
NextStart_Gap(start, end, overlap) == Larger(end + overlap, start + 1)

NextStart(start, end, overlap) == Larger(end - overlap, start + 1)

\* _split_text_by_token_limit: windows of target tokens, each beginning
\* overlap tokens before the last one ended.
Split(iv, target, overlap) ==
    LET from[s \in iv[1] .. iv[2]] ==
            LET e == Smaller(s + target, iv[2])
            IN  IF e = iv[2] THEN << <<s, e>> >>
                ELSE << <<s, e>> >> \o from[Smaller(NextStart(s, e, overlap), iv[2])]
    IN  from[iv[1]]

\* flush: the sections collected so far become one parent.
Flush(acc) ==
    IF acc.collected = <<>> THEN acc
    ELSE [parents   |-> Append(acc.parents, <<acc.collected[1], acc.collected[2]>>),
          collected |-> <<>>]

Collect(acc, s) ==
    IF acc.collected = <<>> THEN [acc EXCEPT !.collected = s]
    ELSE [acc EXCEPT !.collected[2] = s[2]]

AddSection(acc, s) ==
    IF Size(s) > ParentTarget
    THEN [Flush(acc) EXCEPT !.parents = @ \o Split(s, ParentTarget, 0)]
    ELSE IF acc.collected # <<>> /\ Size(acc.collected) + Size(s) > ParentTarget
         THEN Collect(Flush(acc), s)
         ELSE Collect(acc, s)

\* _build_parent_chunks: section by section, and a last flush.
ParentsOf(sections) ==
    LET packed[i \in 0 .. Len(sections)] ==
            IF i = 0 THEN [parents |-> <<>>, collected |-> <<>>]
            ELSE AddSection(packed[i - 1], sections[i])
    IN  Flush(packed[Len(sections)]).parents

BuildParents ==
    /\ chunking.at = "parents"
    /\ chunking' = [chunking EXCEPT !.at = "children", !.parents = ParentsOf(chunking.sections)]

\* A child names its parent: the children of each parent, in order.
BuildChildren ==
    /\ chunking.at = "children"
    /\ chunking' = [chunking EXCEPT !.at = "done",
           !.children = [i \in DOMAIN chunking.parents |->
                            Split(chunking.parents[i], ChildTarget, ChildOverlap)]]

ChunkingNext == BuildParents \/ BuildChildren

ChunkingSpec == ChunkingInit /\ [][ChunkingNext]_chunking

\* Whatever the sections' sizes, every token of the document is in exactly one
\* parent and in a child of it, in order; consecutive children of a parent
\* share the overlap, and no chunk is empty or larger than its target.
NothingIsLost ==
    chunking.at = "done" =>
        LET p == chunking.parents
            ends == chunking.sections[Len(chunking.sections)][2]
        IN  /\ p[1][1] = 0 /\ p[Len(p)][2] = ends
            /\ \A i \in 1 .. Len(p) - 1 : p[i][2] = p[i + 1][1]
            /\ \A i \in DOMAIN p :
                   LET c == chunking.children[i]
                   IN  /\ Size(p[i]) \in 1 .. ParentTarget
                       /\ c[1][1] = p[i][1] /\ c[Len(c)][2] = p[i][2]
                       /\ \A k \in DOMAIN c : Size(c[k]) \in 1 .. ChildTarget
                       /\ \A k \in 1 .. Len(c) - 1 : c[k + 1][1] = c[k][2] - ChildOverlap
=============================================================================
