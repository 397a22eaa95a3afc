-------------------------------- MODULE MCSearch --------------------------------
(***************************************************************************)
(* Two callers of one SemanticSearch over two adapters, one of which is    *)
(* enough for a write.  A behaviour is about two contexts, whose order     *)
(* reranking turns round, or about one whose content is replaced by one of *)
(* another dimension, or it has an example in it and is about the metrics  *)
(* and the ranking alone.  Two of the options differ in the filter only.   *)
(***************************************************************************)
EXTENDS SemanticSearch

MCIds      == {1, 2}
MCIdOrder  == <<1, 2>>
MCContents == {"long", "short", "alien"}
MCMisfits  == {"alien"}
MCQueries  == {"q"}
MCScore    == [q \in MCQueries |-> [x \in MCContents |-> CASE x = "long" -> 60
                                                            [] x = "short" -> 50
                                                            [] x = "alien" -> 50]]
MCStamp        == [x \in MCContents |-> 1]
MCLengthFactor == [x \in MCContents |-> IF x = "long" THEN 90 ELSE 110]
MCAgeFactor    == [x \in MCContents |-> 100]
Opt(topK, filter, rerank) ==
    [topK |-> topK, maxResults |-> 0, threshold |-> 0, filter |-> filter, rerank |-> rerank]
MCOptions  == {Opt(1, "any", FALSE), Opt(2, "any", TRUE)}
MCFilterOptions == {Opt(1, "any", FALSE), Opt(1, "shorts", FALSE)}
MCInputs   == {<<1, "short">>, <<1, "alien">>, <<2, "long">>}
MCPasses   == [f \in {"any", "shorts"} |-> IF f = "any" THEN MCContents ELSE {"short"}]

Vectors  == {<<>>} \cup [1..1 -> -1..2] \cup [1..2 -> -1..2]
Results  == [score : {1, 2}, stamp : {0, 1}]
Examples ==
    [kind : {"vectors"}, query : Vectors, vectors : [1..2 -> Vectors]]
      \cup [kind : {"results"}, results : SeqOf(Results, 3),
            tieBreaker : {"index", "metadata"}, minScore : {0, 2}, maxResults : 0..2]
TwoContexts == [kind |-> "two contexts"]
OneContext  == [kind |-> "one context"]

VARIABLE example    \* what the behaviour is about; never changes

Excluded(i, content) == \/ example = TwoContexts /\ content \in Misfits
                        \/ example = OneContext /\ i # 1

MCInit == SearchInit /\ example \in Examples \cup {TwoContexts, OneContext}
MCNext ==
    /\ \/ /\ example \in {TwoContexts, OneContext}
          /\ SearchNext
          /\ \A c \in Changers : job'[c].kind = "add" => ~Excluded(job'[c].id, job'[c].content)
       \/ example \in Examples /\ UNCHANGED searchVars
    /\ UNCHANGED example
MCSpec == MCInit /\ [][MCNext]_<<searchVars, example>>

FilterInit == SearchInit /\ example = TwoContexts
FilterSpec == FilterInit /\ [][MCNext]_<<searchVars, example>>

OfVectors == example.kind = "vectors"

(* BatchAgrees for every query and every pair of vectors of the bounds. *)
BatchExact == OfVectors => BatchAgrees(example.query, example.vectors)

(* MetricsAgree for every pair of vectors of the bounds. *)
MetricsExact == OfVectors => MetricsAgree(example.query, example.vectors[1])

(* NearestFirst for every query and every pair of vectors of the bounds. *)
NearestTold == OfVectors => \A k \in 0..3 : NearestFirst(example.query, example.vectors, k)

(* RankedAsPromised for every list of up to three results. *)
RankingSound ==
    example.kind = "results" =>
        RankedAsPromised(example.results, example.tieBreaker, example.minScore,
                         example.maxResults)

(* The algorithms agree with their reference definitions on all examples   *)
(* (similarity-calculator.ts, ranking-algorithms.ts).                      *)
AlgorithmsAgree == BatchExact /\ MetricsExact /\ NearestTold /\ RankingSound
===============================================================================
