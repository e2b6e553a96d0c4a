------------------------------- MODULE RankFusion -------------------------------
(* Reciprocal rank fusion of the keyword and the vector candidates           *)
(* (retrieval/ranking.py) and the measures of an evaluation case             *)
(* (retrieval/eval_metrics.py).  A candidate list ranks some of the chunks;  *)
(* a score is a fraction, kept as numerator and denominator.                 *)
EXTENDS Naturals, Sequences, FiniteSets, Functions

CONSTANTS ChunkIds,      \* chunks, as numbers: equal scores go by them
          RankConstant,  \* rank_constant
          ResultLimit,   \* top_k
          MaxRanked      \* bound: candidates of one search

ASSUME ChunkIdsAreNumbers == ChunkIds \subseteq Nat /\ ResultLimit \in Nat \ {0}
ASSUME RankConstantIsNat  == RankConstant \in Nat

VARIABLE ranking  \* the two lists, the answer and the case's measures

Rankings == UNION {{f \in [1 .. n -> ChunkIds] : IsInjective(f)} : n \in 0 .. MaxRanked}

NoMeasures == [hits |-> 0, first |-> 0, returned |-> 0, expected |-> {}]

RankInit ==
    \E k, v \in Rankings :
        ranking = [at |-> "search", keyword |-> k, vector |-> v, fused |-> <<>>,
                   measures |-> NoMeasures]

RankIn(list, c) == CHOOSE i \in DOMAIN list : list[i] = c

Found(list) == {list[i] : i \in DOMAIN list}

\* Mutant: a score found by the first search is replaced, not added to.
Score_Replaced(k, v, c) ==
    IF c \in Found(v) THEN <<1, RankConstant + RankIn(v, c)>>
    ELSE <<1, RankConstant + RankIn(k, c)>>

Score(k, v, c) ==
    IF c \in Found(k) /\ c \in Found(v)
    THEN LET x == RankConstant + RankIn(k, c)
             y == RankConstant + RankIn(v, c)
         IN  <<x + y, x * y>>
    ELSE <<1, RankConstant + RankIn(IF c \in Found(k) THEN k ELSE v, c)>>

BestRank(k, v, c) ==
    LET ranks == {RankIn(l, c) : l \in {m \in {k, v} : c \in Found(m)}}
    IN  CHOOSE r \in ranks : \A s \in ranks : r <= s

\* By score, then by the better rank, then by the identifier.
Precedes(k, v, a, b) ==
    LET s == Score(k, v, a)
        t == Score(k, v, b)
    IN  \/ s[1] * t[2] > t[1] * s[2]
        \/ /\ s[1] * t[2] = t[1] * s[2]
           /\ \/ BestRank(k, v, a) < BestRank(k, v, b)
              \/ BestRank(k, v, a) = BestRank(k, v, b) /\ a < b

Scored(k, v) == Found(k) \cup Found(v)

Preceding(k, v, c) == {d \in Scored(k, v) : Precedes(k, v, d, c)}

\* Sorted: at place i stands the candidate that i - 1 others precede.
Fused(k, v) ==
    [i \in 1 .. Cardinality(Scored(k, v)) |->
        CHOOSE c \in Scored(k, v) : Cardinality(Preceding(k, v, c)) = i - 1]

\* A hybrid query fuses the lists, one of another mode takes its own list.
Fuse(mode) ==
    /\ ranking.at = "search"
    /\ ranking' = [ranking EXCEPT !.at = mode,
           !.fused = CASE mode = "hybrid"  -> Fused(ranking.keyword, ranking.vector)
                       [] mode = "keyword" -> ranking.keyword
                       [] mode = "vector"  -> ranking.vector]

\* compute_retrieval_metrics on the best results, as counts: recall and context
\* recall are hits over expected, precision is hits over returned, the
\* reciprocal rank is one over the first hit.
Measures(results, expected) ==
    LET top  == SubSeq(results, 1, IF Len(results) < ResultLimit THEN Len(results) ELSE ResultLimit)
        hits == {i \in DOMAIN top : top[i] \in expected}
    IN  IF expected = {} THEN NoMeasures
        ELSE [hits     |-> Cardinality(hits),
              first    |-> IF hits = {} THEN 0 ELSE CHOOSE i \in hits : \A j \in hits : i <= j,
              returned |-> Len(top),
              expected |-> expected]

Evaluate == \E expected \in SUBSET ChunkIds :
    /\ ranking.at \in {"hybrid", "keyword", "vector"}
    /\ ranking.measures = NoMeasures
    /\ expected # {}
    /\ ranking' = [ranking EXCEPT !.measures = Measures(ranking.fused, expected)]

RankNext == Evaluate \/ \E mode \in {"hybrid", "keyword", "vector"} : Fuse(mode)

RankSpec == RankInit /\ [][RankNext]_ranking

\* a is ahead of b for one search: it found a and, if it found b, later.
Ahead(list, a, b) == a \in Found(list) /\ (b \in Found(list) => RankIn(list, a) < RankIn(list, b))

Position(c) == RankIn(ranking.fused, c)

\* Fusing keeps every candidate once and never turns an agreement round: if one
\* search puts a ahead of b and the other has nothing against it, a comes first.
FusionIsMonotone ==
    ranking.at = "hybrid" =>
        /\ Found(ranking.fused) = Found(ranking.keyword) \cup Found(ranking.vector)
        /\ IsInjective(ranking.fused)
        /\ \A a, b \in Found(ranking.fused) :
              LET lists == {ranking.keyword, ranking.vector}
              IN  /\ \E l \in lists : Ahead(l, a, b)
                  /\ \A l \in lists : Ahead(l, a, b) \/ b \notin Found(l)
                  => Position(a) < Position(b)
=============================================================================
