-------------------------------- MODULE Ranking --------------------------------
(***************************************************************************)
(* Similarity metrics and ranking, as search uses them                     *)
(* (similarity-calculator.ts, ranking-algorithms.ts).                      *)
(*                                                                         *)
(* Vectors hold integers.  A cosine d / Sqrt(n) is represented by the      *)
(* fraction <<sign(d) * d * d, n>>, which orders like the cosine; lengths  *)
(* are represented by their squares.  Error stands for a SearchError.      *)
(***************************************************************************)
EXTENDS Integers, FiniteSets, Sequences, Lists

CONSTANT Error

Lesser(a, b)  == IF a < b THEN a ELSE b
Absolute(a)   == IF a < 0 THEN -a ELSE a

SumUp(s) == FoldLeft(LAMBDA x, y : x + y, 0, s)

Dot(a, b) == SumUp([i \in 1..Len(a) |-> a[i] * b[i]])

(* validateVectors *)
Compatible(a, b) == Len(a) = Len(b) /\ a # <<>>

Fraction(dot, normA, normB) ==
    IF normA * normB = 0 THEN <<0, 1>> ELSE <<dot * Absolute(dot), normA * normB>>

Below(p, q) == p[1] * q[2] < q[1] * p[2]

CosineSimilarity(a, b) ==
    IF Compatible(a, b) THEN Fraction(Dot(a, b), Dot(a, a), Dot(b, b)) ELSE Error

EuclideanDistance(a, b) ==
    IF Compatible(a, b)
    THEN SumUp([i \in 1..Len(a) |-> (a[i] - b[i]) * (a[i] - b[i])]) ELSE Error

ManhattanDistance(a, b) ==
    IF Compatible(a, b) THEN SumUp([i \in 1..Len(a) |-> Absolute(a[i] - b[i])]) ELSE Error

AddComponent(m, x, y) ==
    [dot |-> m.dot + x * y, normA |-> m.normA + x * x, normB |-> m.normB + y * y,
     euclidean |-> m.euclidean + (x - y) * (x - y),
     manhattan |-> m.manhattan + Absolute(x - y)]

(* calculateAllMetrics: every metric in one pass over the vectors. *)
AllMetrics(a, b) ==
    LET zero == [dot |-> 0, normA |-> 0, normB |-> 0, euclidean |-> 0, manhattan |-> 0]
        all  == FoldLeft(LAMBDA m, i : AddComponent(m, a[i], b[i]), zero,
                         [i \in 1..Len(a) |-> i])
    IN IF ~Compatible(a, b) THEN Error
       ELSE [cosine |-> Fraction(all.dot, all.normA, all.normB), euclidean |-> all.euclidean,
             dotProduct |-> all.dot, manhattan |-> all.manhattan]

(* Mutant: the norm of the vectors is left out. *)
BatchWithoutNorm(query, vectors) ==
    IF query = <<>> \/ vectors = <<>> THEN Error
    ELSE IF Dot(query, query) = 0 THEN [i \in 1..Len(vectors) |-> <<0, 1>>]
    ELSE IF \E i \in 1..Len(vectors) : Len(vectors[i]) # Len(query) THEN Error
    ELSE [i \in 1..Len(vectors) |-> Fraction(Dot(query, vectors[i]), Dot(query, query), 1)]

(* A query of length zero answers before the vectors are looked at. *)
BatchCosineSimilarity(query, vectors) ==
    IF query = <<>> \/ vectors = <<>> THEN Error
    ELSE IF Dot(query, query) = 0 THEN [i \in 1..Len(vectors) |-> <<0, 1>>]
    ELSE IF \E i \in 1..Len(vectors) : Len(vectors[i]) # Len(query) THEN Error
    ELSE [i \in 1..Len(vectors) |->
            Fraction(Dot(query, vectors[i]), Dot(query, query), Dot(vectors[i], vectors[i]))]

-----------------------------------------------------------------------------
(* findTopKSimilar *)
TopKSimilar(query, vectors, k) ==
    LET similarity == BatchCosineSimilarity(query, vectors)
        order == StableSort([i \in 1..Len(vectors) |-> i],
                            LAMBDA i, j : Below(similarity[j], similarity[i]))
    IN IF similarity = Error THEN Error ELSE SubSeq(order, 1, Lesser(k, Len(order)))

(* handleTieBreaking: by metadata the more recent goes first, by index the *)
(* order stays.                                                            *)
GoesBefore(a, b, tieBreaker) ==
    \/ a.score > b.score
    \/ a.score = b.score /\ tieBreaker = "metadata" /\ a.stamp > b.stamp

RankingOrder(results, tieBreaker) ==
    StableSort(results, LAMBDA a, b : GoesBefore(a, b, tieBreaker))

(* Mutant: the limit is applied before the sort. *)
LimitedFirst(results, tieBreaker, minScore, maxResults) ==
    LET filtered == Keep(results, {r \in ToSet(results) : r.score >= minScore})
    IN RankingOrder(IF maxResults > 0
                    THEN SubSeq(filtered, 1, Lesser(maxResults, Len(filtered)))
                    ELSE filtered, tieBreaker)

(* rankBySimilarity, the rank of a result being its place in the answer.   *)
RankBySimilarity(results, tieBreaker, minScore, maxResults) ==
    LET filtered == Keep(results, {r \in ToSet(results) : r.score >= minScore})
        sorted   == RankingOrder(filtered, tieBreaker)
    IN IF maxResults > 0 THEN SubSeq(sorted, 1, Lesser(maxResults, Len(sorted))) ELSE sorted

-----------------------------------------------------------------------------
(* The batch agrees with cosineSimilarity vector by vector, whatever the   *)
(* vectors, and a cosine is within -1 and 1 and symmetric; what differs is *)
(* that a query of length zero hides a vector of another dimension.        *)
BatchAgrees(query, vectors) ==
    LET batch == BatchCosineSimilarity(query, vectors)
    IN \/ batch = Error
       \/ \A i \in 1..Len(vectors) :
            LET one == CosineSimilarity(query, vectors[i])
            IN IF one = Error THEN Dot(query, query) = 0
               ELSE /\ batch[i] = one /\ one = CosineSimilarity(vectors[i], query)
                    /\ Absolute(one[1]) <= one[2]

(* The metrics computed in one pass are those computed one by one          *)
(* (calculateAllMetrics).                                                  *)
MetricsAgree(a, b) ==
    AllMetrics(a, b) =
        IF Compatible(a, b)
        THEN [cosine |-> CosineSimilarity(a, b), euclidean |-> EuclideanDistance(a, b),
              dotProduct |-> Dot(a, b), manhattan |-> ManhattanDistance(a, b)]
        ELSE Error

(* The k nearest vectors are told in descending order of similarity, none  *)
(* twice, and one that is left out is not nearer than one that is told     *)
(* (findTopKSimilar).                                                      *)
NearestFirst(query, vectors, k) ==
    LET top == TopKSimilar(query, vectors, k)
        cosine(i) == CosineSimilarity(query, vectors[i])
        exact == \A i \in 1..Len(vectors) : cosine(i) # Error
    IN top # Error /\ exact =>
       /\ IsInjective(top) /\ Len(top) = Lesser(k, Len(vectors))
       /\ \A i \in 1..Len(top), j \in 1..Len(vectors) :
            Below(cosine(top[i]), cosine(j)) => \E h \in 1..i : top[h] = j

(* A ranking keeps the results that reach the minimum, in descending order *)
(* of score, and leaves one out only for better or equal ones; equal       *)
(* scores and stamps keep their order (rankBySimilarity).                  *)
RankedAsPromised(results, tieBreaker, minScore, maxResults) ==
    LET ranked == RankBySimilarity(results, tieBreaker, minScore, maxResults)
        kept   == {i \in 1..Len(results) : results[i].score >= minScore}
    IN /\ \A i \in 1..Len(ranked) - 1 : ~GoesBefore(ranked[i + 1], ranked[i], tieBreaker)
       /\ \E place \in [1..Len(ranked) -> kept] :
            /\ IsInjective(place)
            /\ \A i \in 1..Len(ranked) : ranked[i] = results[place[i]]
            /\ \A j \in kept \ {place[i] : i \in 1..Len(ranked)} :
                  \A i \in 1..Len(ranked) : ~GoesBefore(results[j], ranked[i], tieBreaker)
            /\ \A i, k \in 1..Len(ranked) :
                  (/\ ~GoesBefore(ranked[i], ranked[k], tieBreaker)
                   /\ ~GoesBefore(ranked[k], ranked[i], tieBreaker)
                   /\ place[i] < place[k]) => i < k
       /\ Len(ranked) = IF maxResults = 0 THEN Cardinality(kept)
                        ELSE Lesser(maxResults, Cardinality(kept))
===============================================================================
