----------------------------- MODULE RemoteProofs -----------------------------
(***************************************************************************)
(* What is proved of the memory client, its providers and the storage API   *)
(* client: initialization, ingests, the administrative routes, the          *)
(* artifacts, the meta-fact filter and the memory calls. Each part has an   *)
(* inductive invariant of its own.                                          *)
(***************************************************************************)
EXTENDS MemoryClient, AdminRoutes, ArtifactStorage, MemoryCalls, ListsProofs

-----------------------------------------------------------------------------
(* Ingests.  The invariant gives the stored parts and the merged result of  *)
(* a call in each of its phases.                                           *)

StoredParts(n, i) == [j \in 1..n |-> <<j, i>>]
Ids(n)       == [j \in 1..n |-> j]

(* As Parts, for a kind of call. *)
PartsOf(kind) == IF kind = "ingest" THEN IngestParts ELSE 1

KeptAfter(o, n) == IF o.kind = "ingest" THEN StoredParts(n, o.instance) ELSE <<>>

Whole(o) == o = [phase |-> o.phase, kind |-> o.kind, instance |-> o.instance,
                 part |-> o.part, result |-> o.result]

(* A call before or at the provider has stored the parts before its own,   *)
(* one that comes back from it its own too.  Before it is preprocessed it  *)
(* is not known to have a part.                                            *)
Goes(o, k) ==
    /\ o.phase \in {"before", "provider", "after"}
    /\ Whole(o) /\ o.part \in Nat \ {0}
    /\ IF o.phase = "before" THEN o.part = 1 ELSE o.part <= PartsOf(o.kind)
    /\ o.phase # "after" => o.result = Ids(o.part - 1) /\ k = KeptAfter(o, o.part - 1)
    /\ o.phase = "after" => o.result = Ids(o.part) /\ k = KeptAfter(o, o.part)

IsOver(o, k) ==
    /\ o.phase = "ended"
    /\ o.kind # "ingest" => k = <<>>
    /\ o.kind = "ingest" => Len(k) \in Nat /\ k = StoredParts(Len(k), k[1][2])
    /\ o.kind = "ingest" /\ o.outcome = "ok" => o.result = Ids(Len(k)) /\ Len(k) = PartsOf("ingest")

IngestOK(o, k) ==
    \/ o = NoOp /\ k = <<>>
    \/ Goes(o, k)
    \/ IsOver(o, k)

PerClient ==
    /\ pipeline \in Pipelines
    /\ op = [c \in Clients |-> op[c]]
    /\ kept = [c \in Clients |-> kept[c]]

IngestInv == PerClient /\ \A c \in Clients : IngestOK(op[c], kept[c])

-----------------------------------------------------------------------------
(* The sequences *)

LEMMA StoredLen == ASSUME NEW n \in Nat, NEW i PROVE Len(StoredParts(n, i)) = n
  BY DEF StoredParts

LEMMA StoredGrows ==
  ASSUME NEW n \in Nat, NEW i
  PROVE  Append(StoredParts(n, i), <<n + 1, i>>) = StoredParts(n + 1, i)
  <1>1. StoredParts(n, i) \in Seq(Nat \X {i})
    BY DEF StoredParts
  <1>2. StoredParts(n + 1, i) \in Seq(Nat \X {i})
    BY DEF StoredParts
  <1>3. <<n + 1, i>> \in Nat \X {i}
    OBVIOUS
  <1>4. Append(StoredParts(n, i), <<n + 1, i>>) \in Seq(Nat \X {i})
    BY <1>1, <1>3
  <1>5. Len(Append(StoredParts(n, i), <<n + 1, i>>)) = n + 1 /\ Len(StoredParts(n + 1, i)) = n + 1
    BY <1>1, <1>3, StoredLen
  <1>6. \A j \in 1..(n + 1) : Append(StoredParts(n, i), <<n + 1, i>>)[j] = StoredParts(n + 1, i)[j]
    BY <1>1, <1>3, StoredLen DEF StoredParts
  <1>7. QED
    BY <1>2, <1>4, <1>5, <1>6, SeqEqual

LEMMA IdsGrow ==
  ASSUME NEW n \in Nat
  PROVE  Append(Ids(n), n + 1) = Ids(n + 1)
  <1>1. Ids(n) \in Seq(Nat) /\ Ids(n + 1) \in Seq(Nat)
    BY DEF Ids
  <1>2. Len(Ids(n)) = n /\ Len(Ids(n + 1)) = n + 1
    BY DEF Ids
  <1>3. Append(Ids(n), n + 1) \in Seq(Nat) /\ Len(Append(Ids(n), n + 1)) = n + 1
    BY <1>1, <1>2
  <1>4. \A j \in 1..(n + 1) : Append(Ids(n), n + 1)[j] = Ids(n + 1)[j]
    BY <1>1, <1>2 DEF Ids
  <1>5. QED
    BY <1>1, <1>2, <1>3, <1>4, SeqEqual

LEMMA Empty == Ids(0) = <<>> /\ \A i : StoredParts(0, i) = <<>>
  BY DEF Ids, StoredParts

-----------------------------------------------------------------------------
(* The steps of one call *)

LEMMA PipelineTyped ==
  ASSUME PerClient
  PROVE  /\ pipeline.parts \in Nat /\ pipeline.pre \in BOOLEAN
         /\ \A kind : PartsOf(kind) \in Nat
  BY ClientAssumption DEF PerClient, PartsOf, IngestParts

(* A step that changes one call and what it has kept is judged by them.    *)
LEMMA OneClientSteps ==
  ASSUME IngestInv, NEW c \in Clients, NEW o, NEW k,
         op' = [op EXCEPT ![c] = o], kept' = [kept EXCEPT ![c] = k],
         pipeline' = pipeline, IngestOK(o, k)
  PROVE  IngestInv'
  <1>1. PerClient'
    BY DEF IngestInv, PerClient
  <1>2. op'[c] = o /\ kept'[c] = k
    BY DEF IngestInv, PerClient
  <1>3. \A d \in Clients \ {c} : op'[d] = op[d] /\ kept'[d] = kept[d]
    BY DEF IngestInv, PerClient
  <1>4. IngestOK(o, k)'
    BY DEF IngestOK, Goes, IsOver, PartsOf, IngestParts, Whole, KeptAfter
  <1>5. ASSUME NEW d \in Clients PROVE IngestOK(op[d], kept[d])'
    <2>1. CASE d = c
      BY <1>2, <1>4, <2>1 DEF IngestOK, Goes, IsOver, PartsOf, IngestParts, Whole, KeptAfter
    <2>2. CASE d # c
      <3>1. IngestOK(op[d], kept[d])
        BY DEF IngestInv
      <3>2. op'[d] = op[d] /\ kept'[d] = kept[d]
        BY <1>3, <2>2
      <3>3. QED
        BY <3>1, <3>2 DEF IngestOK, Goes, IsOver, PartsOf, IngestParts, Whole, KeptAfter
    <2>3. QED
      BY <2>1, <2>2
  <1>6. QED
    BY <1>1, <1>5 DEF IngestInv

(* A call that is under way can end with what it has stored.               *)
LEMMA FailsOK ==
  ASSUME NEW o, NEW k, NEW n \in Nat, k = KeptAfter(o, n)
  PROVE  IsOver([phase |-> "ended", kind |-> o.kind, outcome |-> "failed", result |-> <<>>], k)
  <1>1. CASE o.kind # "ingest"
    BY <1>1 DEF KeptAfter, IsOver
  <1>2. CASE o.kind = "ingest"
    <2>1. k = StoredParts(n, o.instance) /\ Len(k) = n
      BY <1>2, StoredLen DEF KeptAfter
    <2>2. k = StoredParts(n, k[1][2])
      BY <2>1 DEF StoredParts
    <2>3. QED
      BY <1>2, <2>1, <2>2 DEF IsOver
  <1>3. QED
    BY <1>1, <1>2

(* Going on after a part keeps the account.                                *)
LEMMA AdvanceOK ==
  ASSUME IngestInv, NEW c \in Clients, NEW k, NEW result,
         Goes(op[c], kept[c]), op[c].phase # "before",
         kept' = [kept EXCEPT ![c] = k], pipeline' = pipeline,
         result = Ids(op[c].part), k = KeptAfter(op[c], op[c].part), Advance(c, result)
  PROVE  IngestInv'
  <1> DEFINE o == op[c]
  <1>0. o.part \in Nat \ {0} /\ o.part <= PartsOf(o.kind) /\ Whole(o) /\ PartsOf(o.kind) \in Nat
    BY PipelineTyped DEF Goes, IngestInv
  <1>1. CASE o.part < Parts(c)
    <2> DEFINE next == [phase |-> "provider", kind |-> o.kind, instance |-> o.instance,
                        part |-> o.part + 1, result |-> result]
    <2>1. op' = [op EXCEPT ![c] = next]
      BY <1>0, <1>1 DEF Advance, Whole, IngestInv, PerClient
    <2>2. Whole(next) /\ KeptAfter(next, next.part - 1) = k /\ next.part \in Nat \ {0}
      BY <1>0 DEF Whole, KeptAfter
    <2>3. next.part <= PartsOf(next.kind)
      BY <1>0, <1>1 DEF Parts, PartsOf
    <2>4. Goes(next, k)
      BY <1>0, <2>2, <2>3 DEF Goes
    <2>5. QED
      BY <2>1, <2>4, OneClientSteps DEF IngestOK
  <1>2. CASE ~(o.part < Parts(c))
    <2> DEFINE over == [phase |-> "ended", kind |-> o.kind, outcome |-> "ok", result |-> result]
    <2>1. op' = [op EXCEPT ![c] = over]
      BY <1>2 DEF Advance, Ends
    <2>2. o.part = PartsOf(o.kind)
      BY <1>0, <1>2 DEF Parts, PartsOf
    <2>3. IsOver(over, k)
      <3>1. CASE o.kind # "ingest"
        BY <3>1 DEF KeptAfter, IsOver
      <3>2. CASE o.kind = "ingest"
        <4>1. k = StoredParts(o.part, o.instance) /\ Len(k) = o.part
          BY <1>0, <3>2, StoredLen DEF KeptAfter
        <4>2. k = StoredParts(o.part, k[1][2])
          BY <4>1, <1>0 DEF StoredParts
        <4>3. QED
          BY <1>0, <2>2, <3>2, <4>1, <4>2 DEF IsOver
      <3>3. QED
        BY <3>1, <3>2
    <2>4. QED
      BY <2>1, <2>3, OneClientSteps DEF IngestOK
  <1>3. QED
    BY <1>1, <1>2

-----------------------------------------------------------------------------
(* The actions *)

LEMMA KeptAsIs ==
  ASSUME IngestInv, NEW c \in Clients
  PROVE  kept = [kept EXCEPT ![c] = kept[c]]
  BY DEF IngestInv, PerClient

(* Only the three kinds of states that Goes describes are under way.       *)
LEMMA UnderWay ==
  ASSUME IngestInv, NEW c \in Clients, op[c].phase \in {"before", "provider", "after"}
  PROVE  Goes(op[c], kept[c])
  BY DEF IngestInv, IngestOK, NoOp, IsOver

LEMMA CallPreserves ==
  ASSUME IngestInv, NEW c \in Clients, NEW kind, Call(c, kind)
  PROVE  IngestInv'
  <1> DEFINE failed == [phase |-> "ended", kind |-> kind, outcome |-> "failed", result |-> <<>>]
             new    == [phase |-> Starts(c, kind), kind |-> kind, instance |-> providers[Default],
                        part |-> 1, result |-> <<>>]
  <1>1. kept[c] = <<>>
    BY DEF Call, IngestInv, IngestOK, NoOp, Goes, IsOver
  <1>2. kept' = [kept EXCEPT ![c] = <<>>]
    BY <1>1, KeptAsIs DEF Call
  <1>3. pipeline' = pipeline
    BY DEF Call
  <1>4. CASE Starts(c, kind) = "ended"
    <2>1. op' = [op EXCEPT ![c] = failed]
      BY <1>4 DEF Call
    <2>2. <<>> = StoredParts(0, failed) /\ Len(<<>>) = 0
      BY Empty
    <2>3. <<>> = StoredParts(0, <<>>[1][2])
      BY Empty
    <2>4. IsOver(failed, <<>>)
      BY <2>2, <2>3 DEF IsOver
    <2>5. QED
      BY <1>2, <1>3, <2>1, <2>4, OneClientSteps DEF IngestOK
  <1>5. CASE Starts(c, kind) # "ended"
    <2>1. op' = [op EXCEPT ![c] = new]
      BY <1>5 DEF Call
    <2>2. Starts(c, kind) \in {"before", "provider"}
      BY <1>5 DEF Starts
    <2>3. Starts(c, kind) = "provider" => PartsOf(kind) = 1
      BY DEF Starts, PartsOf, IngestParts
    <2>4. /\ Whole(new) /\ new.part = 1
          /\ new.phase # "before" => new.part <= PartsOf(new.kind)
      BY <2>2, <2>3 DEF Whole
    <2>5. KeptAfter(new, 0) = <<>> /\ new.result = Ids(0)
      BY Empty DEF KeptAfter
    <2>6. Goes(new, <<>>)
      BY <2>2, <2>4, <2>5 DEF Goes
    <2>7. QED
      BY <1>2, <1>3, <2>1, <2>6, OneClientSteps DEF IngestOK
  <1>6. QED
    BY <1>4, <1>5

(* A call under way that fails, with what it has kept or one part more.    *)
LEMMA EndsFailed ==
  ASSUME IngestInv, NEW c \in Clients, Goes(op[c], kept[c]), Ends(c, "failed", <<>>),
         pipeline' = pipeline, NEW n \in Nat, NEW k, k = KeptAfter(op[c], n),
         kept' = [kept EXCEPT ![c] = k]
  PROVE  IngestInv'
  <1> DEFINE over == [phase |-> "ended", kind |-> op[c].kind, outcome |-> "failed", result |-> <<>>]
  <1>1. op' = [op EXCEPT ![c] = over]
    BY DEF Ends
  <1>2. IsOver(over, k)
    BY FailsOK
  <1>3. QED
    BY <1>1, <1>2, OneClientSteps DEF IngestOK

(* A phase is replaced in a record that is known as a whole.               *)
LEMMA Rephased ==
  ASSUME NEW o, Whole(o), NEW p
  PROVE  [o EXCEPT !.phase = p] = [phase |-> p, kind |-> o.kind, instance |-> o.instance,
                                   part |-> o.part, result |-> o.result]
  <1> DEFINE r == [phase |-> o.phase, kind |-> o.kind, instance |-> o.instance,
                   part |-> o.part, result |-> o.result]
  <1>1. o = r
    BY DEF Whole
  <1>2. [r EXCEPT !.phase = p] = [phase |-> p, kind |-> o.kind, instance |-> o.instance,
                                  part |-> o.part, result |-> o.result]
    OBVIOUS
  <1> HIDE DEF r
  <1>3. QED
    BY <1>1, <1>2

LEMMA PreprocessedPreserves ==
  ASSUME IngestInv, NEW c \in Clients, Preprocessed(c)
  PROVE  IngestInv'
  <1>1. Goes(op[c], kept[c]) /\ kept[c] = KeptAfter(op[c], op[c].part - 1) /\ op[c].part \in Nat \ {0}
    BY UnderWay DEF Preprocessed, Goes
  <1>2. kept' = [kept EXCEPT ![c] = kept[c]] /\ pipeline' = pipeline
    BY KeptAsIs DEF Preprocessed
  <1>3. CASE Ends(c, "failed", <<>>)
    <2>1. op[c].part - 1 \in Nat
      BY <1>1
    <2>2. QED
      BY <1>1, <1>2, <1>3, <2>1, EndsFailed
  <1>4. CASE Parts(c) = 0 /\ Ends(c, "ok", <<>>)
    <2> DEFINE o    == op[c]
               over == [phase |-> "ended", kind |-> o.kind, outcome |-> "ok", result |-> <<>>]
    <2>1. o.kind = "ingest" /\ PartsOf("ingest") = 0
      BY <1>4 DEF Parts, PartsOf
    <2>2. kept[c] = StoredParts(0, o.instance)
      BY <1>1, <2>1 DEF Preprocessed, Goes, KeptAfter
    <2>3. kept[c] = <<>> /\ <<>> = Ids(0) /\ \A i : <<>> = StoredParts(0, i)
      BY <2>2, Empty
    <2>4. IsOver(over, kept[c])
      BY <2>1, <2>3 DEF IsOver
    <2>5. QED
      BY <1>2, <1>4, <2>4, OneClientSteps DEF Ends, IngestOK
  <1>5. CASE Parts(c) > 0 /\ op' = [op EXCEPT ![c].phase = "provider"]
    <2> DEFINE o    == op[c]
               next == [phase |-> "provider", kind |-> o.kind, instance |-> o.instance,
                        part |-> o.part, result |-> o.result]
    <2>1. Whole(o)
      BY <1>1 DEF Goes
    <2>2. op' = [op EXCEPT ![c] = next]
      BY <1>5, <2>1, Rephased, Zenon
    <2>3. o.phase = "before"
      BY DEF Preprocessed
    <2>4. o.part = 1 /\ PartsOf(o.kind) \in Nat /\ o.part <= PartsOf(o.kind)
      BY <1>1, <1>5, <2>3, PipelineTyped DEF Goes, Parts, PartsOf, IngestInv
    <2>5. Goes(next, kept[c])
      BY <1>1, <2>3, <2>4 DEF Goes, Whole, KeptAfter
    <2>6. QED
      BY <1>2, <2>2, <2>5, OneClientSteps DEF IngestOK
  <1>6. QED
    BY <1>3, <1>4, <1>5 DEF Preprocessed

(* Both fields of a call that comes back from the provider. *)
LEMMA PutAside ==
  ASSUME IngestInv, NEW c \in Clients, Whole(op[c]), NEW r,
         op' = [op EXCEPT ![c].phase = "after", ![c].result = r]
  PROVE  op' = [op EXCEPT ![c] = [phase |-> "after", kind |-> op[c].kind,
                                  instance |-> op[c].instance, part |-> op[c].part, result |-> r]]
  <1> DEFINE mid  == [phase |-> "after", kind |-> op[c].kind, instance |-> op[c].instance,
                      part |-> op[c].part, result |-> op[c].result]
             next == [phase |-> "after", kind |-> op[c].kind, instance |-> op[c].instance,
                      part |-> op[c].part, result |-> r]
  <1>1. [op[c] EXCEPT !.phase = "after"] = mid
    BY Rephased, Zenon
  <1>2. [mid EXCEPT !.result = r] = next
    OBVIOUS
  <1> HIDE DEF mid, next
  <1>3. op' = [[op EXCEPT ![c] = mid] EXCEPT ![c].result = r]
    BY <1>1, Zenon
  <1>4. [op EXCEPT ![c] = mid][c] = mid /\ op = [d \in Clients |-> op[d]]
    BY DEF IngestInv, PerClient
  <1>5. op' = [[op EXCEPT ![c] = mid] EXCEPT ![c] = next]
    BY <1>2, <1>3, <1>4
  <1>6. op' = [op EXCEPT ![c] = next]
    BY <1>4, <1>5
  <1>7. QED
    BY <1>6 DEF next

LEMMA AnswersPreserves ==
  ASSUME IngestInv, NEW c \in Clients, ProviderAnswers(c)
  PROVE  IngestInv'
  <1> DEFINE o      == op[c]
             result == Append(o.result, o.part)
             k      == KeptAfter(o, o.part)
  <1>1. Goes(o, kept[c]) /\ o.phase = "provider" /\ o.part \in Nat \ {0} /\ Whole(o)
    BY UnderWay DEF ProviderAnswers, Goes
  <1>2. o.result = Ids(o.part - 1) /\ kept[c] = KeptAfter(o, o.part - 1) /\ o.part - 1 \in Nat
    BY <1>1 DEF Goes
  <1>3. result = Ids(o.part)
    <2>1. Append(Ids(o.part - 1), (o.part - 1) + 1) = Ids((o.part - 1) + 1)
      BY <1>2, IdsGrow
    <2>2. (o.part - 1) + 1 = o.part
      BY <1>1
    <2>3. QED
      BY <1>2, <2>1, <2>2
  <1>4. kept' = [kept EXCEPT ![c] = k]
    <2>1. CASE o.kind = "ingest"
      <3>1. Append(kept[c], <<o.part, o.instance>>) = k
        <4>1. Append(StoredParts(o.part - 1, o.instance), <<(o.part - 1) + 1, o.instance>>)
                  = StoredParts((o.part - 1) + 1, o.instance)
          BY <1>2, StoredGrows
        <4>2. (o.part - 1) + 1 = o.part
          BY <1>1
        <4>3. kept[c] = StoredParts(o.part - 1, o.instance) /\ k = StoredParts(o.part, o.instance)
          BY <1>2, <2>1 DEF KeptAfter
        <4>4. QED
          BY <4>1, <4>2, <4>3
      <3>2. kept' = [kept EXCEPT ![c] = Append(kept[c], <<o.part, o.instance>>)]
        BY <2>1 DEF ProviderAnswers
      <3>3. QED
        BY <3>1, <3>2
    <2>2. CASE o.kind # "ingest"
      <3>1. kept[c] = k
        BY <1>2, <2>2 DEF KeptAfter
      <3>2. kept' = kept
        BY <2>2 DEF ProviderAnswers
      <3>3. QED
        BY <3>1, <3>2, KeptAsIs
    <2>3. QED
      BY <2>1, <2>2
  <1>5. pipeline' = pipeline
    BY DEF ProviderAnswers
  <1>6. CASE AfterProvider(o.kind)
    <2> DEFINE next == [phase |-> "after", kind |-> o.kind, instance |-> o.instance,
                        part |-> o.part, result |-> result]
    <2>1. op' = [op EXCEPT ![c].phase = "after", ![c].result = result]
      BY <1>6 DEF ProviderAnswers
    <2>2. op' = [op EXCEPT ![c] = next]
      BY <1>1, <2>1, PutAside, Zenon
    <2>3. Goes(next, k)
      BY <1>1, <1>3 DEF Goes, Whole, KeptAfter
    <2>4. QED
      BY <1>4, <1>5, <2>2, <2>3, OneClientSteps DEF IngestOK
  <1>7. CASE ~AfterProvider(o.kind)
    <2>1. Advance(c, result)
      BY <1>7 DEF ProviderAnswers
    <2>2. QED
      BY <1>1, <1>3, <1>4, <1>5, <2>1, AdvanceOK
  <1>8. QED
    BY <1>6, <1>7

LEMMA RejectsPreserves ==
  ASSUME IngestInv, NEW c \in Clients, ProviderRejects(c)
  PROVE  IngestInv'
  <1> DEFINE o == op[c]
  <1>1. Goes(o, kept[c]) /\ o.phase = "provider" /\ o.part \in Nat \ {0}
    BY UnderWay DEF ProviderRejects, Goes
  <1>2. kept[c] = KeptAfter(o, o.part - 1) /\ o.part - 1 \in Nat
    BY <1>1 DEF Goes
  <1>3. pipeline' = pipeline /\ Ends(c, "failed", <<>>)
    BY DEF ProviderRejects
  <1>4. CASE kept' = kept
    <2>1. kept' = [kept EXCEPT ![c] = kept[c]]
      BY <1>4, KeptAsIs
    <2>2. QED
      BY <1>1, <1>2, <1>3, <2>1, EndsFailed
  <1>5. CASE /\ o.kind = "ingest"
             /\ kept' = [kept EXCEPT ![c] = Append(@, <<o.part, o.instance>>)]
    <2>1. Append(StoredParts(o.part - 1, o.instance), <<(o.part - 1) + 1, o.instance>>)
              = StoredParts((o.part - 1) + 1, o.instance)
      BY <1>2, StoredGrows
    <2>2. (o.part - 1) + 1 = o.part /\ o.part \in Nat
      BY <1>1
    <2>3. kept[c] = StoredParts(o.part - 1, o.instance)
      BY <1>2, <1>5 DEF KeptAfter
    <2>4. Append(kept[c], <<o.part, o.instance>>) = KeptAfter(o, o.part)
      BY <1>5, <2>1, <2>2, <2>3 DEF KeptAfter
    <2>5. kept' = [kept EXCEPT ![c] = KeptAfter(o, o.part)]
      BY <1>5, <2>4
    <2>6. QED
      BY <1>1, <1>3, <2>2, <2>5, EndsFailed
  <1>6. QED
    BY <1>4, <1>5 DEF ProviderRejects

LEMMA PostprocessedPreserves ==
  ASSUME IngestInv, NEW c \in Clients, Postprocessed(c)
  PROVE  IngestInv'
  <1>1. Goes(op[c], kept[c]) /\ op[c].phase = "after" /\ op[c].part \in Nat
    BY UnderWay DEF Postprocessed, Goes
  <1>2. op[c].result = Ids(op[c].part) /\ kept[c] = KeptAfter(op[c], op[c].part)
    BY <1>1 DEF Goes
  <1>3. kept' = [kept EXCEPT ![c] = kept[c]] /\ pipeline' = pipeline
    BY KeptAsIs DEF Postprocessed
  <1>4. CASE Advance(c, op[c].result)
    BY <1>1, <1>2, <1>3, <1>4, AdvanceOK
  <1>5. CASE Ends(c, "failed", <<>>)
    BY <1>1, <1>2, <1>3, <1>5, EndsFailed
  <1>6. QED
    BY <1>4, <1>5 DEF Postprocessed

(* Initialization replaces instances and touches no call.                  *)
LEMMA CallsUntouched == IngestInv /\ UNCHANGED <<pipeline, op, kept>> => IngestInv'
  BY DEF IngestInv, PerClient, IngestOK, Goes, IsOver, PartsOf, IngestParts, Whole, KeptAfter

LEMMA ClientNextPreserves == IngestInv /\ [ClientNext]_clientVars => IngestInv'
  <1> SUFFICES ASSUME IngestInv, [ClientNext]_clientVars PROVE IngestInv'
    OBVIOUS
  <1>1. CASE \E i \in Initializers : \/ Initialize(i) \/ InitializeAgain(i)
                                     \/ ProviderStarted(i) \/ ProviderFails(i)
                                     \/ ServiceInitialized(i)
    <2>1. UNCHANGED <<pipeline, op, kept>>
      BY <1>1 DEF Initialize, InitializeAgain, ProviderStarted, ProviderFails,
                  ServiceInitialized
    <2>2. QED
      BY <2>1, CallsUntouched
  <1>2. ASSUME NEW c \in Clients, NEW kind, Call(c, kind) PROVE IngestInv'
    BY <1>2, CallPreserves
  <1>3. ASSUME NEW c \in Clients, \/ Preprocessed(c) \/ ProviderAnswers(c)
                                  \/ ProviderRejects(c) \/ Postprocessed(c)
        PROVE  IngestInv'
    BY <1>3, PreprocessedPreserves, AnswersPreserves, RejectsPreserves, PostprocessedPreserves
  <1>4. CASE UNCHANGED clientVars
    BY <1>4, CallsUntouched DEF clientVars
  <1>5. QED
    BY <1>1, <1>2, <1>3, <1>4 DEF ClientNext

LEMMA ClientInitEstablishes == ClientInit => IngestInv
  BY DEF ClientInit, IngestInv, PerClient, IngestOK

LEMMA ClientInvariant == ClientSpec => []IngestInv
  BY ClientInitEstablishes, ClientNextPreserves, PTL DEF ClientSpec

-----------------------------------------------------------------------------
(* What a call has kept at any time. *)
LEMMA KeptIsStored ==
  ASSUME IngestInv, NEW c \in Clients
  PROVE  \E n \in Nat : \E i : kept[c] = StoredParts(n, i)
  <1>1. CASE kept[c] = <<>>
    BY <1>1, Empty
  <1>2. CASE Goes(op[c], kept[c])
    BY <1>2, Empty DEF Goes, KeptAfter
  <1>3. CASE IsOver(op[c], kept[c])
    BY <1>3, Empty DEF IsOver
  <1>4. QED
    BY <1>1, <1>2, <1>3 DEF IngestInv, IngestOK

LEMMA KeptPart ==
  ASSUME IngestInv, NEW c \in Clients, NEW j \in DOMAIN kept[c]
  PROVE  kept[c][j][1] = j /\ kept[c][j][2] = kept[c][1][2]
  <1>1. PICK n \in Nat : \E i : kept[c] = StoredParts(n, i)
    BY KeptIsStored
  <1>2. PICK i : kept[c] = StoredParts(n, i)
    BY <1>1
  <1>3. j \in 1..n /\ 1 \in 1..n
    BY <1>2 DEF StoredParts
  <1>4. kept[c][j] = <<j, i>> /\ kept[c][1] = <<1, i>>
    BY <1>2, <1>3 DEF StoredParts
  <1>5. QED
    BY <1>4

(* An ingest stores a prefix of the parts the pipeline made, in order,     *)
(* whatever rejects on the way and however many calls there are.           *)
THEOREM IngestsStorePrefixes == ClientSpec => []StoredIsPrefix
  <1>1. IngestInv => StoredIsPrefix
    BY KeptPart DEF StoredIsPrefix
  <1>2. QED
    BY <1>1, ClientInvariant, PTL

(* All parts of an ingest are stored at the provider instance it found at  *)
(* its start, however often initialize() replaces the instances.           *)
THEOREM IngestsKeepTheirInstance == ClientSpec => []OneInstancePerIngest
  <1>1. IngestInv => OneInstancePerIngest
    BY KeptPart DEF OneInstancePerIngest
  <1>2. QED
    BY <1>1, ClientInvariant, PTL

(* An ingest that resolves has stored every part and reports them all.     *)
THEOREM IngestsReportAllParts == ClientSpec => []ReportsAllParts
  <1>1. ASSUME IngestInv, NEW c \in Clients,
               op[c].phase = "ended", op[c].kind = "ingest", op[c].outcome = "ok"
        PROVE  /\ op[c].result = [k \in DOMAIN kept[c] |-> kept[c][k][1]]
               /\ Len(kept[c]) = IngestParts
    <2>1. IsOver(op[c], kept[c])
      BY <1>1 DEF IngestInv, IngestOK, NoOp, Goes
    <2>2. op[c].result = Ids(Len(kept[c])) /\ Len(kept[c]) = PartsOf("ingest")
      BY <1>1, <2>1 DEF IsOver
    <2>3. kept[c] = StoredParts(Len(kept[c]), kept[c][1][2])
      BY <1>1, <2>1 DEF IsOver
    <2>4. [k \in DOMAIN kept[c] |-> kept[c][k][1]] = Ids(Len(kept[c]))
      BY <2>3 DEF StoredParts, Ids
    <2>5. QED
      BY <2>2, <2>4 DEF PartsOf
  <1>2. IngestInv => ReportsAllParts
    BY <1>1 DEF ReportsAllParts
  <1>3. QED
    BY <1>2, ClientInvariant, PTL

(* The three together: what a split ingest promises, for any number of     *)
(* parts, clients and initializations.                                     *)
THEOREM IngestsWhole == ClientSpec => []IngestsAreWhole
  <1>1. StoredIsPrefix /\ OneInstancePerIngest /\ ReportsAllParts => IngestsAreWhole
    BY DEF IngestsAreWhole
  <1>2. QED
    BY <1>1, IngestsStorePrefixes, IngestsKeepTheirInstance, IngestsReportAllParts, PTL

-----------------------------------------------------------------------------
(* Initialization.  While initialize() calls do not overlap, the one that  *)
(* is under way has set the instances of the names it has passed, and has  *)
(* initialized all of them but the one it awaits.                          *)
Passed(i, m) ==
    /\ \A k \in 1..Len(Names) : k <= m /\ Names[k] \in Registered => providers[Names[k]] = <<i, Names[k]>>
    /\ \A k \in 1..Len(Names) : k < m /\ Names[k] \in Registered => <<i, Names[k]>> \in started

BootOK ==
    /\ DOMAIN providers = ToSet(Names) \cup {Default}
    /\ init \in [Initializers -> -1..Initialized]
    /\ \A i \in Initializers : Awaits(i) => Names[init[i]] \in Registered
    /\ ~overlap => ReadyMeansInitialized
    /\ ~overlap => \A i \in Initializers : Underway(i) => ~ready /\ Passed(i, init[i])
    /\ ~overlap => \A i, j \in Initializers : Underway(i) /\ Underway(j) => i = j

LEMMA NamesOK ==
  /\ Len(Names) \in Nat /\ DOMAIN Names = 1..Len(Names)
  /\ Finished = Len(Names) + 1 /\ Initialized = Len(Names) + 2
  /\ Registered \subseteq ToSet(Names) /\ Async \subseteq Registered
  BY ClientAssumption DEF Finished, Initialized

LEMMA NextAwaitOK ==
  ASSUME NEW from \in 1..(Finished + 1)
  PROVE  /\ NextAwait(from) \in 1..Finished
         /\ NextAwait(from) # Finished => from <= NextAwait(from) /\ Names[NextAwait(from)] \in Async
         /\ \A k \in from..Len(Names) : k < NextAwait(from) => Names[k] \notin Async
  <1> DEFINE waits == {j \in from..Len(Names) : Names[j] \in Async}
  <1>1. CASE waits = {}
    <2>1. NextAwait(from) = Finished
      BY <1>1 DEF NextAwait
    <2>2. QED
      BY <1>1, <2>1, NamesOK
  <1>2. CASE waits # {}
    <2>1. waits \in SUBSET Nat
      BY NamesOK
    <2>2. \E j \in waits : \A k \in waits : j <= k
      BY <1>2, <2>1, LeastNumber
    <2>3. NextAwait(from) = CHOOSE j \in waits : \A k \in waits : j <= k
      BY <1>2 DEF NextAwait
    <2>4. NextAwait(from) \in waits /\ \A k \in waits : NextAwait(from) <= k
      BY <2>2, <2>3
    <2>5. QED
      BY <2>4, NamesOK
  <1>3. QED
    BY <1>1, <1>2

(* A run of the loop, from the start or from an await that is over.        *)
Runs(i, from) ==
    /\ RunLoop(i, from) /\ from \in 1..(Finished + 1)
    /\ from > 1 => Passed(i, from - 1)

LEMMA RunPasses ==
  ASSUME BootOK, NEW i \in Initializers, NEW from, Runs(i, from)
  PROVE  Passed(i, NextAwait(from))'
  <1> DEFINE m == NextAwait(from)
             passed == {Names[j] : j \in {k \in from..Len(Names) : k <= m}}
  <1>1. /\ from \in 1..(Finished + 1) /\ (from > 1 => Passed(i, from - 1))
        /\ providers' = [n \in DOMAIN providers |->
                            IF n \in passed \cap Registered THEN <<i, n>> ELSE providers[n]]
        /\ started' = started \cup {<<i, n>> : n \in (passed \cap Registered) \ Async}
                              \cup (IF from > 1 THEN {<<i, Names[from - 1]>>} ELSE {})
    BY DEF Runs, RunLoop
  <1>2. /\ m \in 1..Finished
        /\ m # Finished => from <= m /\ Names[m] \in Async
        /\ \A k \in from..Len(Names) : k < m => Names[k] \notin Async
    BY <1>1, NextAwaitOK
  <1>3. \A k \in from..Len(Names) : k <= m => Names[k] \in passed
    OBVIOUS
  <1> HIDE DEF m, passed
  <1>4. \A k \in 1..Len(Names) : Names[k] \in DOMAIN providers
    BY NamesOK DEF BootOK, ToSet
  <1>5. ASSUME NEW k \in 1..Len(Names), k <= m, Names[k] \in Registered
        PROVE  providers'[Names[k]] = <<i, Names[k]>>
    <2>1. CASE k < from
      <3>1. from > 1 /\ k <= from - 1 /\ from \in Nat
        BY <1>1, <2>1, NamesOK
      <3>2. providers[Names[k]] = <<i, Names[k]>>
        BY <1>1, <1>5, <3>1 DEF Passed
      <3>3. QED
        BY <1>1, <1>4, <3>2
    <2>2. CASE ~(k < from)
      <3>1. Names[k] \in passed
        BY <1>1, <1>3, <1>5, <2>2, NamesOK
      <3>2. QED
        BY <1>1, <1>4, <1>5, <3>1
    <2>3. QED
      BY <2>1, <2>2
  <1>6. ASSUME NEW k \in 1..Len(Names), k < m, Names[k] \in Registered
        PROVE  <<i, Names[k]>> \in started'
    <2>1. CASE k < from - 1
      <3>1. from > 1 /\ from \in Nat
        BY <1>1, <2>1, NamesOK
      <3>2. <<i, Names[k]>> \in started
        BY <1>1, <1>6, <2>1, <3>1 DEF Passed
      <3>3. QED
        BY <1>1, <3>2
    <2>2. CASE k = from - 1
      <3>1. from > 1
        BY <1>1, <2>2, NamesOK
      <3>2. QED
        BY <1>1, <2>2, <3>1
    <2>3. CASE k >= from
      <3>1. k \in from..Len(Names) /\ k <= m
        BY <1>1, <1>2, <1>6, <2>3, NamesOK
      <3>2. Names[k] \in passed /\ Names[k] \notin Async
        BY <1>2, <1>3, <1>6, <3>1
      <3>3. QED
        BY <1>1, <1>6, <3>2
    <2>4. QED
      BY <1>1, <2>1, <2>2, <2>3, NamesOK
  <1>7. QED
    BY <1>5, <1>6 DEF Passed, m

LEMMA RunOK ==
  ASSUME BootOK, NEW i \in Initializers, NEW from, Runs(i, from), ready' = ready,
         ~overlap' => ~overlap,
         ~overlap' => ~ready /\ \A j \in Initializers : Underway(j) => j = i
  PROVE  BootOK'
  <1> DEFINE m == NextAwait(from)
  <1>1. /\ m \in 1..Finished
        /\ m # Finished => Names[m] \in Async
    BY NextAwaitOK DEF Runs
  <1>2. DOMAIN providers' = DOMAIN providers /\ init' = [init EXCEPT ![i] = m]
    BY DEF Runs, RunLoop
  <1>3. Passed(i, m)'
    BY RunPasses
  <1> HIDE DEF m
  <1>4. /\ init' \in [Initializers -> -1..Initialized] /\ init'[i] = m
        /\ \A j \in Initializers \ {i} : init'[j] = init[j]
    BY <1>1, <1>2, NamesOK DEF BootOK
  <1>5. \A j \in Initializers \ {i} : Underway(j)' <=> Underway(j)
    BY <1>4 DEF Underway
  <1>6. Awaits(i)' => m # Finished
    BY <1>4, NamesOK DEF Awaits
  <1>7. \A j \in Initializers : Awaits(j)' => Names[init'[j]] \in Registered
    BY <1>1, <1>4, <1>6, NamesOK DEF BootOK, Awaits
  <1>8. ~overlap' => \A j \in Initializers : Underway(j)' => ~ready' /\ Passed(j, init[j])'
    <2> SUFFICES ASSUME ~overlap', NEW j \in Initializers, Underway(j)'
                 PROVE  ~ready' /\ Passed(j, init[j])'
      OBVIOUS
    <2>1. j = i
      BY <1>5
    <2>2. Passed(i, init[i])'
      BY <1>3, <1>4 DEF Passed
    <2>3. QED
      BY <2>1, <2>2
  <1>9. ~overlap' => \A j, k \in Initializers : Underway(j)' /\ Underway(k)' => j = k
    BY <1>5
  <1>10. ~overlap' => ReadyMeansInitialized'
    BY DEF ReadyMeansInitialized
  <1>11. QED
    BY <1>2, <1>4, <1>7, <1>8, <1>9, <1>10 DEF BootOK

(* The loop that is over has passed every name. *)
LEMMA ReturnOK ==
  ASSUME BootOK, NEW i \in Initializers, ServiceInitialized(i)
  PROVE  BootOK'
  <1>1. /\ init[i] = Finished /\ init' = [init EXCEPT ![i] = Initialized] /\ ready' = TRUE
        /\ UNCHANGED <<providers, started, overlap>>
    BY DEF ServiceInitialized
  <1>2. /\ init' \in [Initializers -> -1..Initialized] /\ init'[i] = Initialized
        /\ \A j \in Initializers \ {i} : init'[j] = init[j]
    BY <1>1, NamesOK DEF BootOK
  <1>3. Underway(i) /\ ~Underway(i)' /\ ~Awaits(i)'
    BY <1>1, <1>2, NamesOK DEF Underway, Awaits
  <1>4. \A j \in Initializers \ {i} :
          (Underway(j)' <=> Underway(j)) /\ (Awaits(j)' <=> Awaits(j))
    BY <1>2 DEF Underway, Awaits
  <1>5. \A j \in Initializers : Awaits(j)' => Names[init'[j]] \in Registered
    BY <1>2, <1>3, <1>4 DEF BootOK
  <1>6. ~overlap' => ReadyMeansInitialized'
    <2> SUFFICES ASSUME ~overlap', NEW n \in Registered PROVE providers'[n] \in started'
      BY DEF ReadyMeansInitialized
    <2>1. Passed(i, Finished)
      BY <1>1, <1>3 DEF BootOK
    <2>2. PICK k \in 1..Len(Names) : Names[k] = n
      BY NamesOK DEF ToSet
    <2>3. k <= Finished /\ k < Finished
      BY <2>2, NamesOK
    <2>4. QED
      BY <1>1, <2>1, <2>2, <2>3 DEF Passed
  <1>7. ~overlap' => \A j \in Initializers : ~Underway(j)'
    BY <1>1, <1>3, <1>4 DEF BootOK
  <1>8. QED
    BY <1>1, <1>2, <1>5, <1>6, <1>7 DEF BootOK

LEMMA BootStep ==
  ASSUME BootOK, [ClientNext]_clientVars
  PROVE  BootOK'
  <1>1. ASSUME NEW i \in Initializers, Initialize(i) PROVE BootOK'
    <2>1. /\ RunLoop(i, 1) /\ ~ready /\ ready' = ready
          /\ overlap' = (overlap \/ \E j \in Initializers : Underway(j))
      BY <1>1 DEF Initialize
    <2>2. Runs(i, 1)
      BY <2>1, NamesOK DEF Runs
    <2>3. ~overlap' => ~overlap /\ \A j \in Initializers : ~Underway(j)
      BY <2>1
    <2>4. QED
      BY <2>1, <2>2, <2>3, RunOK
  <1>2. ASSUME NEW i \in Initializers, ProviderStarted(i) PROVE BootOK'
    <2>1. /\ RunLoop(i, init[i] + 1) /\ Awaits(i) /\ overlap' = overlap /\ ready' = ready
      BY <1>2 DEF ProviderStarted
    <2>2. /\ init[i] \in 1..Len(Names) /\ (init[i] + 1) - 1 = init[i]
          /\ init[i] + 1 \in 1..(Finished + 1) /\ Underway(i)
      BY <2>1, NamesOK DEF Awaits, Underway
    <2>3. CASE ~overlap
      <3>1. Passed(i, init[i]) /\ ~ready
        BY <2>2, <2>3 DEF BootOK
      <3>2. Runs(i, init[i] + 1)
        BY <2>1, <2>2, <3>1 DEF Runs
      <3>3. \A j \in Initializers : Underway(j) => j = i
        BY <2>2, <2>3 DEF BootOK
      <3>4. QED
        BY <2>1, <2>3, <3>1, <3>2, <3>3, RunOK
    <2>4. CASE overlap
      <3> DEFINE m == NextAwait(init[i] + 1)
      <3>1. m \in 1..Finished /\ (m # Finished => Names[m] \in Async)
        BY <2>2, NextAwaitOK
      <3>2. DOMAIN providers' = DOMAIN providers /\ init' = [init EXCEPT ![i] = m]
        BY <2>1 DEF RunLoop
      <3> HIDE DEF m
      <3>3. /\ init' \in [Initializers -> -1..Initialized] /\ init'[i] = m
            /\ \A j \in Initializers \ {i} : init'[j] = init[j]
        BY <3>1, <3>2, NamesOK DEF BootOK
      <3>4. \A j \in Initializers : Awaits(j)' => Names[init'[j]] \in Registered
        BY <3>1, <3>3, NamesOK DEF BootOK, Awaits
      <3>5. QED
        BY <2>1, <2>4, <3>2, <3>3, <3>4 DEF BootOK
    <2>5. QED
      BY <2>3, <2>4
  <1>3. ASSUME NEW i \in Initializers, InitializeAgain(i) \/ ProviderFails(i) PROVE BootOK'
    <2>1. /\ UNCHANGED <<ready, providers, started, overlap>>
          /\ \E m \in {-1, Initialized} : init' = [init EXCEPT ![i] = m]
      BY <1>3 DEF InitializeAgain, ProviderFails
    <2>2. PICK m \in {-1, Initialized} : init' = [init EXCEPT ![i] = m]
      BY <2>1
    <2>3. /\ init' \in [Initializers -> -1..Initialized] /\ init'[i] = m
          /\ \A j \in Initializers \ {i} : init'[j] = init[j]
      BY <2>2, NamesOK DEF BootOK
    <2>4. /\ ~Underway(i)' /\ ~Awaits(i)'
          /\ \A j \in Initializers \ {i} :
                (Underway(j)' <=> Underway(j)) /\ (Awaits(j)' <=> Awaits(j))
      BY <2>3, NamesOK DEF Underway, Awaits
    <2>5. QED
      BY <2>1, <2>3, <2>4 DEF BootOK, ReadyMeansInitialized, Passed
  <1>4. CASE UNCHANGED <<ready, providers, started, init, overlap>>
    BY <1>4 DEF BootOK, ReadyMeansInitialized, Passed, Underway, Awaits
  <1>5. ASSUME NEW c \in Clients, NEW kind,
               \/ Call(c, kind) \/ Preprocessed(c) \/ ProviderAnswers(c)
               \/ ProviderRejects(c) \/ Postprocessed(c)
        PROVE  UNCHANGED <<ready, providers, started, init, overlap>>
    BY <1>5 DEF Call, Preprocessed, ProviderAnswers, ProviderRejects, Postprocessed
  <1>6. UNCHANGED clientVars => UNCHANGED <<ready, providers, started, init, overlap>>
    BY DEF clientVars
  <1>7. QED
    BY <1>1, <1>2, <1>3, <1>4, <1>5, <1>6, ReturnOK DEF ClientNext

LEMMA BootHolds == ClientSpec => []BootOK
  <1>1. ClientInit => BootOK
    <2> SUFFICES ASSUME ClientInit PROVE BootOK
      OBVIOUS
    <2>1. \A i \in Initializers : ~Underway(i) /\ ~Awaits(i)
      BY NamesOK DEF ClientInit, Underway, Awaits
    <2>2. QED
      BY <2>1, NamesOK DEF ClientInit, BootOK, ReadyMeansInitialized
  <1>2. QED
    BY <1>1, BootStep, PTL DEF ClientSpec

(* When initialize() calls have not overlapped, a client that is ready has *)
(* an initialized instance of every provider the registry knows.           *)
THEOREM ReadyClientsAreInitialized == ClientSpec => []ReadyMeansInitialized
  <1>1. BootOK => ReadyMeansInitialized
    BY DEF BootOK, ReadyMeansInitialized
  <1>2. QED
    BY <1>1, BootHolds, PTL

(* Instances are those the registry's factories made, and no ingest stores *)
(* more than its parts.                                                    *)
InstancesOK ==
    /\ ready \in BOOLEAN /\ overlap \in BOOLEAN
    /\ started \subseteq Instances
    /\ \A n \in DOMAIN providers : providers[n] \in Instances \cup {Absent}

KeptBounded == \A c \in Clients : Len(kept[c]) <= IngestParts

LEMMA LoopMakesInstances ==
  ASSUME InstancesOK, NEW i \in Initializers, NEW from, RunLoop(i, from),
         from > 1 => Names[from - 1] \in Registered, ready' = ready, overlap' \in BOOLEAN
  PROVE  InstancesOK'
  <1> DEFINE passed == {Names[j] : j \in {k \in from..Len(Names) : k <= NextAwait(from)}}
  <1>1. /\ providers' = [n \in DOMAIN providers |->
                            IF n \in passed \cap Registered THEN <<i, n>> ELSE providers[n]]
        /\ started' = started \cup {<<i, n>> : n \in (passed \cap Registered) \ Async}
                              \cup (IF from > 1 THEN {<<i, Names[from - 1]>>} ELSE {})
    BY DEF RunLoop
  <1> HIDE DEF passed
  <1>2. \A n \in Registered : <<i, n>> \in Instances
    BY DEF Instances
  <1>3. started' \subseteq Instances
    BY <1>1, <1>2 DEF InstancesOK
  <1>4. \A n \in DOMAIN providers' : providers'[n] \in Instances \cup {Absent}
    BY <1>1, <1>2 DEF InstancesOK
  <1>5. ready' \in BOOLEAN
    BY DEF InstancesOK
  <1>6. Instances' = Instances
    BY DEF Instances
  <1>7. QED
    BY <1>3, <1>4, <1>5, <1>6 DEF InstancesOK

LEMMA InstancesStep ==
  ASSUME BootOK, InstancesOK, [ClientNext]_clientVars
  PROVE  InstancesOK'
  <1>1. ASSUME NEW i \in Initializers, Initialize(i) PROVE InstancesOK'
    <2>1. /\ RunLoop(i, 1) /\ ready' = ready
          /\ overlap' = (overlap \/ \E j \in Initializers : Underway(j))
      BY <1>1 DEF Initialize
    <2>2. overlap' \in BOOLEAN
      BY <2>1
    <2>3. QED
      BY <2>1, <2>2, LoopMakesInstances
  <1>2. ASSUME NEW i \in Initializers, ProviderStarted(i) PROVE InstancesOK'
    <2>1. Awaits(i) /\ RunLoop(i, init[i] + 1) /\ UNCHANGED <<ready, overlap>>
      BY <1>2 DEF ProviderStarted
    <2>2. Names[init[i]] \in Registered /\ init[i] \in 1..Len(Names)
      BY <2>1 DEF BootOK, Awaits
    <2>3. (init[i] + 1) - 1 = init[i]
      BY <2>2, NamesOK
    <2>4. QED
      BY <2>1, <2>2, <2>3, LoopMakesInstances DEF InstancesOK
  <1>3. ASSUME UNCHANGED <<ready, providers, started, overlap>> PROVE InstancesOK'
    BY <1>3 DEF InstancesOK, Instances
  <1>4. ASSUME NEW i \in Initializers, InitializeAgain(i) \/ ProviderFails(i) PROVE InstancesOK'
    BY <1>3, <1>4 DEF InitializeAgain, ProviderFails
  <1>5. ASSUME NEW i \in Initializers, ServiceInitialized(i) PROVE InstancesOK'
    BY <1>5 DEF ServiceInitialized, InstancesOK, Instances
  <1>6. ASSUME NEW c \in Clients, NEW kind,
               \/ Call(c, kind) \/ Preprocessed(c) \/ ProviderAnswers(c)
               \/ ProviderRejects(c) \/ Postprocessed(c)
        PROVE  InstancesOK'
    BY <1>3, <1>6 DEF Call, Preprocessed, ProviderAnswers, ProviderRejects, Postprocessed
  <1>7. UNCHANGED clientVars => InstancesOK'
    BY <1>3 DEF clientVars
  <1>8. QED
    BY <1>1, <1>2, <1>4, <1>5, <1>6, <1>7 DEF ClientNext

(* A part that is stored is one the pipeline made. *)
LEMMA StoresOneMore ==
  ASSUME IngestInv, NEW c \in Clients, op[c].phase = "provider", op[c].kind = "ingest", NEW x
  PROVE  Len(Append(kept[c], x)) <= IngestParts
  <1>1. PICK o, k : o = op[c] /\ k = kept[c]
    OBVIOUS
  <1>2. IngestOK(o, k) /\ o.phase = "provider"
    BY <1>1 DEF IngestInv
  <1>3. Goes(o, k)
    BY <1>2 DEF IngestOK, NoOp, IsOver
  <1>4. o.part \in Nat \ {0} /\ o.part <= PartsOf("ingest") /\ k = StoredParts(o.part - 1, o.instance)
    BY <1>1, <1>2, <1>3 DEF Goes, KeptAfter
  <1>5. PartsOf("ingest") = IngestParts
    BY DEF PartsOf
  <1>6. o.part - 1 \in Nat
    BY <1>4
  <1>7. Len(k) = o.part - 1 /\ k \in Seq(Nat \X {o.instance})
    <2>1. k = [j \in 1..(o.part - 1) |-> <<j, o.instance>>]
      BY <1>4 DEF StoredParts
    <2>2. \A j \in 1..(o.part - 1) : <<j, o.instance>> \in Nat \X {o.instance}
      OBVIOUS
    <2>3. k \in [1..(o.part - 1) -> Nat \X {o.instance}]
      BY <2>1, <2>2
    <2>4. QED
      BY <1>6, <2>3, SeqDef
  <1>8. Len(Append(k, x)) = Len(k) + 1
    <2>1. k \in Seq((Nat \X {o.instance}) \cup {x})
      BY <1>7
    <2>2. QED
      BY <2>1
  <1>9. PartsOf("ingest") \in Nat
    BY PipelineTyped DEF IngestInv
  <1>10. QED
    BY <1>1, <1>4, <1>5, <1>7, <1>8, <1>9

LEMMA KeptBoundedStep ==
  ASSUME IngestInv, KeptBounded, [ClientNext]_clientVars
  PROVE  KeptBounded'
  <1>1. ASSUME UNCHANGED <<pipeline, kept>> PROVE KeptBounded'
    BY <1>1 DEF KeptBounded, IngestParts
  <1>2. ASSUME NEW c \in Clients, op[c].phase = "provider", op[c].kind = "ingest", NEW x,
               kept' = [kept EXCEPT ![c] = Append(@, x)], pipeline' = pipeline
        PROVE  KeptBounded'
    <2>1. DOMAIN kept = Clients
      BY DEF IngestInv, PerClient
    <2>2. kept'[c] = Append(kept[c], x) /\ \A d \in Clients \ {c} : kept'[d] = kept[d]
      BY <1>2, <2>1
    <2>3. QED
      BY <1>2, <2>2, StoresOneMore DEF KeptBounded, IngestParts
  <1>3. ASSUME NEW c \in Clients, ProviderAnswers(c) \/ ProviderRejects(c) PROVE KeptBounded'
    BY <1>1, <1>2, <1>3 DEF ProviderAnswers, ProviderRejects
  <1>4. ASSUME NEW c \in Clients, NEW kind, Call(c, kind) \/ Preprocessed(c) \/ Postprocessed(c)
        PROVE  KeptBounded'
    BY <1>1, <1>4 DEF Call, Preprocessed, Postprocessed
  <1>5. ASSUME NEW i \in Initializers,
               \/ Initialize(i) \/ InitializeAgain(i) \/ ProviderStarted(i) \/ ProviderFails(i)
               \/ ServiceInitialized(i)
        PROVE  KeptBounded'
    BY <1>1, <1>5 DEF Initialize, InitializeAgain, ProviderStarted, ProviderFails,
                     ServiceInitialized
  <1>6. UNCHANGED clientVars => KeptBounded'
    BY <1>1 DEF clientVars
  <1>7. QED
    BY <1>3, <1>4, <1>5, <1>6 DEF ClientNext

(* Every instance is one a factory of the registry made for a call of      *)
(* initialize(), and no ingest stores more parts than the pipeline made,   *)
(* also one that rejects although its part was stored                      *)
(* (memory-service.ts, initialize and ingest).                             *)
THEOREM ClientTypes == ClientSpec => []ClientTypeOK
  <1>1. ClientInit => InstancesOK
    BY DEF ClientInit, InstancesOK
  <1>2. ClientInit => KeptBounded
    BY ClientAssumption DEF ClientInit, KeptBounded, IngestParts
  <1>3. IngestInv /\ BootOK /\ InstancesOK /\ KeptBounded => ClientTypeOK
    <2> SUFFICES ASSUME IngestInv, BootOK, InstancesOK, KeptBounded PROVE ClientTypeOK
      OBVIOUS
    <2>1. ASSUME NEW c \in Clients
          PROVE  op[c].phase \in {"none", "before", "provider", "after", "ended"}
      BY DEF IngestInv, IngestOK, Goes, IsOver, NoOp
    <2>2. \A i \in Initializers : init[i] \in -1..Initialized
      BY DEF BootOK
    <2>3. QED
      BY <2>1, <2>2 DEF ClientTypeOK, InstancesOK, KeptBounded
  <1>4. QED
    BY <1>1, <1>2, <1>3, ClientInvariant, BootHolds, InstancesStep, KeptBoundedStep, PTL
       DEF ClientSpec

-----------------------------------------------------------------------------
(* The administrative routes, for every core and every set of callers and *)
(* calls: nothing goes without being asked for, what a call changes is its *)
(* user's, a lesson is deleted once, and the reports are true.            *)

(* Calls are kept per caller. *)
PerCaller ==
    /\ admin = [c \in Admins |-> admin[c]]
    /\ did = [c \in Admins |-> did[c]]

(* What is sent is the body of a call a caller makes, and has done nothing *)
(* yet.                                                                    *)
SentIsAsked ==
    \A c \in Admins :
        /\ admin[c].phase \in {"none", "sent", "ended"}
        /\ admin[c].phase = "none" => did[c] = NoChange
        /\ admin[c].phase = "sent" =>
              /\ admin[c].ask \in AdminAsks[c]
              /\ admin[c].body = AdminBody(admin[c].ask)
              /\ did[c] = NoChange

RoutesInv == PerCaller /\ SentIsAsked /\ DryByDefault /\ OwnUserOnly /\ OneDeletionResolves

-----------------------------------------------------------------------------
(* What a request can do, by its body. *)

(* A body takes the user from the call. *)
LEMMA BodyOfUser ==
  ASSUME NEW ask, ask.op \in Methods,
         ask.op \notin {"reconcileAll", "resolveConflict", "updateConfig", "health"}
  PROVE  AdminBody(ask).user = ask.user
  BY DEF Methods, AdminBody, LifecycleBody, AuditBody, LessonsBody, SettingsBody, AgentsBody, Lifecycle,
         Audit, Lessons, Settings, Agents, Consolidate, Decay, ResetSource, Reconcile, Recent,
         OneItem, SetTrust, UserOnly, Blank

(* What a call does is about the user it names. *)
LEMMA EffectsOfUser ==
  ASSUME NEW ask, ask.op \in Methods \ {"reconcileAll", "resolveConflict"}, ask.user # None,
         NEW made \in Makes(ask.op, AdminBody(ask)),
         NEW i \in Gone(ask.op, AdminBody(ask)) \cup Settled(ask.op, AdminBody(ask)) \cup made
  PROVE  Owner[i] = ask.user
  <1>1. ask.op \notin {"updateConfig", "health"}
    BY DEF Gone, Settled, Makes
  <1>2. AdminBody(ask).user = ask.user
    BY <1>1, BodyOfUser
  <1>3. CASE i \in Gone(ask.op, AdminBody(ask))
    BY <1>2, <1>3 DEF Gone, Of
  <1>4. CASE i \in Settled(ask.op, AdminBody(ask))
    BY <1>2, <1>4 DEF Settled
  <1>5. CASE i \in made
    BY <1>2, <1>5 DEF Makes
  <1>6. QED
    BY <1>3, <1>4, <1>5

(* Consolidation and decay take memories away by their flags only. *)
LEMMA FlagsAreExplicit ==
  ASSUME NEW ask, Gone(ask.op, AdminBody(ask)) # {}
  PROVE  /\ ask.op = "consolidate" => ask.flag = TRUE
         /\ ask.op = "decay" => ask.flag = FALSE
  <1>1. CASE ask.op = "consolidate"
    <2>1. AdminBody(ask) = Consolidate(ask)
      BY <1>1 DEF AdminBody, LifecycleBody, Lifecycle, Audit, Lessons, Settings, Agents
    <2>2. AdminBody(ask).execute = TRUE
      BY <1>1 DEF Gone
    <2>3. AdminBody(ask).execute = IF ask.flag = TRUE THEN TRUE ELSE None
      BY <2>1 DEF Consolidate, UserOnly, Blank
    <2>4. QED
      BY <1>1, <2>2, <2>3, NoneAssumption
  <1>2. CASE ask.op = "decay"
    <2>1. AdminBody(ask) = Decay(ask)
      BY <1>2 DEF AdminBody, LifecycleBody, Lifecycle, Audit, Lessons, Settings, Agents
    <2>2. AdminBody(ask).dryRun = FALSE
      BY <1>2 DEF Gone
    <2>3. AdminBody(ask).dryRun = IF ask.flag = FALSE THEN FALSE ELSE None
      BY <2>1 DEF Decay, UserOnly, Blank
    <2>4. QED
      BY <1>2, <2>2, <2>3, NoneAssumption
  <1>3. QED
    BY <1>1, <1>2

-----------------------------------------------------------------------------
(* The steps.  What is said of one caller, to change them one at a time.   *)

RouteSent(a, d, c) ==
    /\ a.phase \in {"none", "sent", "ended"}
    /\ a.phase = "none" => d = NoChange
    /\ a.phase = "sent" => a.ask \in AdminAsks[c] /\ a.body = AdminBody(a.ask) /\ d = NoChange

OneDry(a, d) ==
    a.phase # "none" /\ d.gone # {} =>
        /\ a.ask.op = "consolidate" => a.ask.flag = TRUE
        /\ a.ask.op = "decay"       => a.ask.flag = FALSE

OneOwn(a, d) ==
    a.phase # "none" /\ a.ask.op \notin {"reconcileAll", "resolveConflict"} =>
        \A i \in d.gone \cup d.settled \cup d.made : Owner[i] = a.ask.user

OneDeleted(a, d) ==
    a.phase = "ended" /\ a.error = None /\ a.ask.op = "deleteLesson" => d.gone = {a.ask.item}

RouteOK(a, d, c) == RouteSent(a, d, c) /\ OneDry(a, d) /\ OneOwn(a, d) /\ OneDeleted(a, d)

LEMMA InvIsOfEach == RoutesInv <=> PerCaller /\ \A c \in Admins : RouteOK(admin[c], did[c], c)
  BY DEF RoutesInv, SentIsAsked, DryByDefault, OwnUserOnly, OneDeletionResolves, RouteOK, RouteSent,
         OneDry, OneOwn, OneDeleted, Touched, AdminResolved, AdminEnded

(* A step of one caller leaves the others as they are. *)
LEMMA OneCallerSteps ==
  ASSUME RoutesInv, NEW c \in Admins, NEW a, NEW d,
         admin' = [admin EXCEPT ![c] = a], did' = [did EXCEPT ![c] = d], RouteOK(a, d, c)
  PROVE  RoutesInv'
  <1>1. PerCaller /\ \A x \in Admins : RouteOK(admin[x], did[x], x)
    BY InvIsOfEach
  <1>2. PerCaller'
    BY <1>1 DEF PerCaller
  <1>3. \A x \in Admins : RouteOK(admin'[x], did'[x], x)
    BY <1>1 DEF PerCaller
  <1>4. QED
    BY <1>2, <1>3 DEF RoutesInv, SentIsAsked, DryByDefault, OwnUserOnly, OneDeletionResolves, RouteOK,
       RouteSent, OneDry, OneOwn, OneDeleted, Touched, AdminResolved, AdminEnded

(* A call that has changed nothing and was not deleting. *)
LEMMA IdleOK ==
  ASSUME NEW a, NEW c \in Admins, RouteSent(a, NoChange, c),
         a.phase = "ended" /\ a.error = None => a.ask.op # "deleteLesson"
  PROVE  RouteOK(a, NoChange, c)
  BY DEF RouteOK, OneDry, OneOwn, OneDeleted, NoChange

LEMMA RouteBeginPreserves ==
  ASSUME RoutesInv, NEW c \in Admins, NEW ask \in AdminAsks[c], AdminBegin(c, ask)
  PROVE  RoutesInv'
  <1> DEFINE a == [phase |-> "sent", ask |-> ask, body |-> AdminBody(ask)]
  <1>1. admin' = [admin EXCEPT ![c] = a] /\ did' = [did EXCEPT ![c] = NoChange]
    BY DEF AdminBegin
  <1>2. RouteSent(a, NoChange, c) /\ a.phase = "sent"
    BY DEF RouteSent
  <1>3. RouteOK(a, NoChange, c)
    BY <1>2, IdleOK
  <1>4. QED
    BY <1>1, <1>3, OneCallerSteps

(* A deletion that finds its lesson takes away that lesson alone. *)
LEMMA DeletesTheItem ==
  ASSUME NEW ask, ask.op = "deleteLesson", ~Missing(ask.op, AdminBody(ask))
  PROVE  Gone(ask.op, AdminBody(ask)) = {ask.item}
  <1>1. AdminBody(ask) = OneItem(ask)
    BY DEF AdminBody, LessonsBody, Lifecycle, Audit, Lessons, Settings, Agents
  <1>2. AdminBody(ask).item = ask.item
    BY <1>1 DEF OneItem, UserOnly, Blank
  <1>3. ask.item \in Gone(ask.op, AdminBody(ask))
    BY <1>2 DEF Missing
  <1>4. Gone(ask.op, AdminBody(ask)) \subseteq {ask.item}
    BY <1>2 DEF Gone
  <1>5. QED
    BY <1>3, <1>4

LEMMA RouteServePreserves ==
  ASSUME RoutesInv, NEW c \in Admins, AdminServe(c)
  PROVE  RoutesInv'
  <1> DEFINE ask == admin[c].ask
             b   == AdminBody(ask)
  <1>1. admin[c].phase = "sent" /\ RouteSent(admin[c], did[c], c)
    BY InvIsOfEach DEF AdminServe, RouteOK
  <1>2. ask \in AdminAsks[c] /\ admin[c].body = b
    BY <1>1 DEF RouteSent
  <1>3. ask.op \in Methods /\ ask.user # None
    BY <1>2, AdminAssumption
  <1>4. ~Missing(ask.op, b)
    BY <1>2 DEF AdminServe
  <1>5. PICK made, body :
           /\ made \in Makes(ask.op, b) /\ body \in {RawAnswer(ask.op, b, made), Garbled}
           /\ did' = [did EXCEPT ![c] = [gone |-> Gone(ask.op, b), settled |-> Settled(ask.op, b),
                                         made |-> made]]
           /\ AdminEnds(c, AdminRead(ask.op, [status |-> 200, body |-> body]))
    BY <1>2 DEF AdminServe
  <1> DEFINE outcome == AdminRead(ask.op, [status |-> 200, body |-> body])
             a == [phase |-> "ended", ask |-> ask, error |-> outcome.error, result |-> outcome.value]
             d == [gone |-> Gone(ask.op, b), settled |-> Settled(ask.op, b), made |-> made]
  <1>6. admin' = [admin EXCEPT ![c] = a]
    BY <1>5 DEF AdminEnds
  <1>7. a.phase = "ended" /\ a.ask = ask
    OBVIOUS
  <1>8. d.gone = Gone(ask.op, b) /\ d.settled = Settled(ask.op, b) /\ d.made = made
    OBVIOUS
  <1> HIDE DEF a, d, outcome
  <1>9. RouteSent(a, d, c)
    BY <1>7 DEF RouteSent
  <1>10. OneDry(a, d)
    BY <1>7, <1>8, FlagsAreExplicit DEF OneDry
  <1>11. OneOwn(a, d)
    BY <1>3, <1>5, <1>7, <1>8, EffectsOfUser DEF OneOwn
  <1>12. OneDeleted(a, d)
    BY <1>4, <1>7, <1>8, DeletesTheItem DEF OneDeleted
  <1>13. QED
    BY <1>5, <1>6, <1>9, <1>10, <1>11, <1>12, OneCallerSteps DEF d, RouteOK

(* A call that ends with an error, or without an answer, has done nothing. *)
LEMMA EndsIdle ==
  ASSUME RoutesInv, NEW c \in Admins, NEW outcome, admin[c].phase = "sent",
         AdminEnds(c, outcome), UNCHANGED did,
         outcome.error = None => admin[c].ask.op # "deleteLesson"
  PROVE  RoutesInv'
  <1> DEFINE a == [phase |-> "ended", ask |-> admin[c].ask, error |-> outcome.error,
                   result |-> outcome.value]
  <1>1. did[c] = NoChange /\ PerCaller
    BY InvIsOfEach DEF RouteOK, RouteSent
  <1>2. did' = [did EXCEPT ![c] = NoChange]
    BY <1>1 DEF PerCaller
  <1>3. admin' = [admin EXCEPT ![c] = a]
    BY DEF AdminEnds
  <1>4. /\ a.phase = "ended" /\ a.ask = admin[c].ask /\ a.error = outcome.error
    OBVIOUS
  <1> HIDE DEF a
  <1>5. RouteSent(a, NoChange, c)
    BY <1>4 DEF RouteSent
  <1>6. RouteOK(a, NoChange, c)
    BY <1>4, <1>5, IdleOK
  <1>7. QED
    BY <1>2, <1>3, <1>6, OneCallerSteps

LEMMA RejectPreserves ==
  ASSUME RoutesInv, NEW c \in Admins, AdminReject(c)
  PROVE  RoutesInv'
  <1>1. PICK status \in {404, 429, 500} :
           AdminEnds(c, AdminRead(admin[c].ask.op, [status |-> status, body |-> None]))
    BY DEF AdminReject
  <1> DEFINE outcome == AdminRead(admin[c].ask.op, [status |-> status, body |-> None])
  <1>2. outcome.error # None
    BY NoneAssumption DEF AdminRead, AdminFetch, FetchVoid, FetchJson, ThrowForStatus, Threw
  <1>3. QED
    BY <1>1, <1>2, EndsIdle DEF AdminReject

LEMMA TimesOutPreserves ==
  ASSUME RoutesInv, NEW c \in Admins, AdminTimesOut(c)
  PROVE  RoutesInv'
  <1> DEFINE outcome == AdminRead(admin[c].ask.op, NoAnswer)
  <1>1. outcome.error # None
    BY NoneAssumption
       DEF AdminRead, AdminFetch, FetchVoid, FetchJson, ThrowForStatus, Threw, NoAnswer
  <1>2. QED
    BY <1>1, EndsIdle DEF AdminTimesOut

LEMMA AdminUnchanged == RoutesInv /\ UNCHANGED <<admin, did>> => RoutesInv'
  BY DEF RoutesInv, PerCaller, SentIsAsked, DryByDefault, OwnUserOnly, OneDeletionResolves, Touched,
     AdminResolved, AdminEnded

LEMMA AdminNextPreserves == RoutesInv /\ [AdminNext]_adminVars => RoutesInv'
  <1> SUFFICES ASSUME RoutesInv, [AdminNext]_adminVars PROVE RoutesInv'
    OBVIOUS
  <1>1. CASE \E c \in Admins : AdminActs(c)
    BY <1>1, RouteBeginPreserves, RouteServePreserves, RejectPreserves, TimesOutPreserves DEF AdminActs
  <1>2. CASE AdriftServed
    BY <1>2, AdminUnchanged DEF AdriftServed
  <1>3. CASE UNCHANGED adminVars
    BY <1>3, AdminUnchanged DEF adminVars
  <1>4. QED
    BY <1>1, <1>2, <1>3 DEF AdminNext

LEMMA AdminInitEstablishes == AdminInit => RoutesInv
  <1> SUFFICES ASSUME AdminInit PROVE RoutesInv
    OBVIOUS
  <1>1. PerCaller
    BY DEF AdminInit, PerCaller
  <1>2. \A c \in Admins : RouteOK(admin[c], did[c], c)
    BY DEF AdminInit, RouteOK, RouteSent, OneDry, OneOwn, OneDeleted, NoAdmin, NoChange
  <1>3. QED
    BY <1>1, <1>2, InvIsOfEach

LEMMA AdminInvariant == AdminSpec => []RoutesInv
  BY AdminInitEstablishes, AdminNextPreserves, PTL DEF AdminSpec

(* Consolidation and decay take memories away only from callers that asked *)
(* for it with their flag, whatever core, callers and timeouts there are.  *)
THEOREM NothingGoesUnasked == AdminSpec => []DryByDefault
  <1>1. RoutesInv => DryByDefault
    BY DEF RoutesInv
  <1>2. QED
    BY <1>1, AdminInvariant, PTL

(* A call that names a user changes nothing of anybody else.               *)
THEOREM ChangesAreOfTheUser == AdminSpec => []OwnUserOnly
  <1>1. RoutesInv => OwnUserOnly
    BY DEF RoutesInv
  <1>2. QED
    BY <1>1, AdminInvariant, PTL

(* A deletion of a lesson that resolves has taken that lesson away itself. *)
THEOREM DeletionsAreReal == AdminSpec => []OneDeletionResolves
  <1>1. RoutesInv => OneDeletionResolves
    BY DEF RoutesInv
  <1>2. QED
    BY <1>1, AdminInvariant, PTL

(* The three together: nothing changes that nobody asked to change.        *)
THEOREM OnlyWhatIsAsked == AdminSpec => []ChangesAreAsked
  <1>1. DryByDefault /\ OwnUserOnly /\ OneDeletionResolves => ChangesAreAsked
    BY DEF ChangesAreAsked
  <1>2. QED
    BY <1>1, NothingGoesUnasked, ChangesAreOfTheUser, DeletionsAreReal, PTL

-----------------------------------------------------------------------------
(* The reports.  The answer of each method, as the core gives it.          *)
IsRaw(raw, o, b, made) ==
    /\ o = "consolidate" /\ b.execute = TRUE =>
          raw = [shape |-> "execution", consolidated |-> Gone(o, b)]
    /\ o = "consolidate" /\ b.execute # TRUE =>
          raw = [shape |-> "scan", clusters |-> Of("memory", b.user) \cap Clustered]
    /\ o = "decay" => raw = [candidates |-> Of("memory", b.user) \cap Faded,
                              archived |-> Cardinality(Gone(o, b))]
    /\ o = "resetSource" => raw = [deleted |-> Cardinality(Gone(o, b))]
    /\ o \in {"reconcile", "reconcileAll"} =>
          raw = [processed |-> Cardinality(Settled(o, b)), resolved |-> Cardinality(Settled(o, b))]
    /\ o = "report" => raw = [lesson_id |-> made]
    /\ o = "updateConfig" =>
          raw = [applied |-> {f \in Fields : b.updates[f] # None},
                 config |-> [f \in Fields |-> IF b.updates[f] # None THEN b.updates[f]
                                                                    ELSE config[f]]]

LEMMA RawAnswers ==
  ASSUME NEW o, NEW b, NEW made
  PROVE  IsRaw(RawAnswer(o, b, made), o, b, made)
  BY DEF RawAnswer, IsRaw

IsResult(r, o, raw) ==
    /\ o = "consolidate" => r = ToConsolidationResult(raw)
    /\ o = "decay" => r = ToDecayResult(raw)
    /\ o = "resetSource" => r = ToResetSourceResult(raw)
    /\ o \in {"reconcile", "reconcileAll"} => r = ToReconciliationResult(raw)
    /\ o = "report" => r = [lessonId |-> raw.lesson_id]
    /\ o = "updateConfig" => r = ToConfig(raw)

LEMMA Results ==
  ASSUME NEW o, NEW raw
  PROVE  IsResult(ToResult(o, raw), o, raw)
  BY DEF ToResult, IsResult

(* The bodies that carry a flag or the settings.                           *)
LEMMA SentBodies ==
  ASSUME NEW ask
  PROVE  LET b == AdminBody(ask)
         IN  /\ ask.op = "consolidate" => (b.execute = TRUE <=> ask.flag = TRUE)
             /\ ask.op = "updateConfig" => b.updates = ask.updates
  <1>1. ASSUME ask.op = "consolidate"
        PROVE  AdminBody(ask).execute = TRUE <=> ask.flag = TRUE
    <2>1. AdminBody(ask) = Consolidate(ask)
      BY <1>1 DEF AdminBody, LifecycleBody, Lifecycle, Audit, Lessons, Settings, Agents
    <2>2. AdminBody(ask).execute = IF ask.flag = TRUE THEN TRUE ELSE None
      BY <2>1 DEF Consolidate, UserOnly, Blank
    <2>3. QED
      BY <2>2, NoneAssumption
  <1>2. ASSUME ask.op = "updateConfig"
        PROVE  AdminBody(ask).updates = ask.updates
    <2>1. AdminBody(ask) = UpdateConfig(ask)
      BY <1>2 DEF AdminBody, SettingsBody, Lifecycle, Audit, Lessons, Settings, Agents
    <2>2. QED
      BY <2>1 DEF UpdateConfig, Blank
  <1>3. QED
    BY <1>1, <1>2

(* What a call is told when the core has done what its body says.          *)
LEMMA TellsTheTruth ==
  ASSUME NEW ask, NEW made, NEW d,
         d.gone = Gone(ask.op, AdminBody(ask)), d.settled = Settled(ask.op, AdminBody(ask)),
         d.made = made
  PROVE  LET r == ToResult(ask.op, RawAnswer(ask.op, AdminBody(ask), made))
         IN  TellsWhatItDid(ask, r, d) /\ TellsSettings(ask, r)
  <1> DEFINE b == AdminBody(ask)
             raw == RawAnswer(ask.op, b, made)
             r == ToResult(ask.op, raw)
  <1>1. /\ ask.op = "consolidate" => (b.execute = TRUE <=> ask.flag = TRUE)
        /\ ask.op = "updateConfig" => b.updates = ask.updates
        /\ d.gone = Gone(ask.op, b) /\ d.settled = Settled(ask.op, b)
    BY SentBodies
  <1> DEFINE o == ask.op
  <1>0. IsRaw(raw, o, b, made) /\ IsResult(r, o, raw)
    BY RawAnswers, Results
  <1> HIDE DEF b, raw, r
  <1>2. ASSUME ask.op = "consolidate", ask.flag = TRUE
        PROVE  r = [consolidatedMemoryIds |-> d.gone]
    <2>1. raw = [shape |-> "execution", consolidated |-> d.gone]
      BY <1>1, <1>2, <1>0 DEF IsRaw
    <2>2. r = ToConsolidationResult(raw)
      BY <1>2, <1>0 DEF IsResult
    <2>3. QED
      BY <2>1, <2>2 DEF ToConsolidationResult
  <1>3. ASSUME ask.op = "consolidate", ask.flag # TRUE
        PROVE  DOMAIN r = {"clusters"}
    <2>1. raw = [shape |-> "scan", clusters |-> Of("memory", b.user) \cap Clustered]
      BY <1>1, <1>3, <1>0 DEF IsRaw
    <2>2. r = ToConsolidationResult(raw)
      BY <1>3, <1>0 DEF IsResult
    <2>3. QED
      BY <2>1, <2>2 DEF ToConsolidationResult
  <1>4. ASSUME ask.op = "decay" PROVE r.archived = Cardinality(d.gone)
    <2>1. raw.archived = Cardinality(d.gone)
      BY <1>1, <1>4, <1>0 DEF IsRaw
    <2>2. r = ToDecayResult(raw)
      BY <1>4, <1>0 DEF IsResult
    <2>3. QED
      BY <2>1, <2>2 DEF ToDecayResult
  <1>5. ASSUME ask.op = "resetSource" PROVE r.deletedMemories = Cardinality(d.gone)
    <2>1. raw.deleted = Cardinality(d.gone)
      BY <1>1, <1>5, <1>0 DEF IsRaw
    <2>2. r = ToResetSourceResult(raw)
      BY <1>5, <1>0 DEF IsResult
    <2>3. QED
      BY <2>1, <2>2 DEF ToResetSourceResult
  <1>6. ASSUME ask.op \in {"reconcile", "reconcileAll"} PROVE r.resolved = Cardinality(d.settled)
    <2>1. raw.resolved = Cardinality(d.settled)
      BY <1>1, <1>6, <1>0 DEF IsRaw
    <2>2. r = ToReconciliationResult(raw)
      BY <1>6, <1>0 DEF IsResult
    <2>3. QED
      BY <2>1, <2>2 DEF ToReconciliationResult
  <1>7. ASSUME ask.op = "report" PROVE r.lessonId = d.made
    <2>1. raw = [lesson_id |-> made]
      BY <1>7, <1>0 DEF IsRaw
    <2>2. r = [lessonId |-> raw.lesson_id]
      BY <1>7, <1>0 DEF IsResult
    <2>3. QED
      BY <2>1, <2>2
  <1>8. ASSUME ask.op = "updateConfig"
        PROVE  /\ r.applied = {f \in Fields : ask.updates[f] # None}
               /\ \A f \in r.applied \cap Shown : r.config[f] = ask.updates[f]
    <2>1. raw = [applied |-> {f \in Fields : ask.updates[f] # None},
                 config |-> [f \in Fields |-> IF ask.updates[f] # None THEN ask.updates[f]
                                                                     ELSE config[f]]]
      BY <1>1, <1>8, <1>0 DEF IsRaw
    <2>2. r = ToConfig(raw)
      BY <1>8, <1>0 DEF IsResult
    <2>3. /\ raw.applied = {f \in Fields : ask.updates[f] # None}
          /\ \A f \in raw.applied : raw.config[f] = ask.updates[f]
      BY <2>1
    <2>4. r.applied = raw.applied /\ r.config = [f \in Shown |-> raw.config[f]]
      BY <2>2 DEF ToConfig, ToHealthConfig
    <2>5. QED
      BY <2>3, <2>4
  <1>9. TellsWhatItDid(ask, r, d) /\ TellsSettings(ask, r)
    BY <1>2, <1>3, <1>4, <1>5, <1>6, <1>7, <1>8 DEF TellsWhatItDid, TellsSettings
  <1>10. QED
    BY <1>9 DEF r, raw, b

(* What a call that resolves returns is what the core answered.            *)
LEMMA ReadsTheAnswer ==
  ASSUME NEW o, NEW raw, o # "deleteLesson",
         AdminRead(o, [status |-> 200, body |-> raw]).error = None
  PROVE  AdminRead(o, [status |-> 200, body |-> raw]).value = ToResult(o, raw)
  <1> DEFINE answer == [status |-> 200, body |-> raw]
             fetched == FetchJson(answer)
  <1>1. AdminRead(o, answer) = IF fetched.error # None THEN fetched
                               ELSE Returned(ToResult(o, fetched.value))
    BY DEF AdminRead, AdminFetch
  <1>2. answer.status = 200 /\ answer.body = raw
    OBVIOUS
  <1> HIDE DEF answer
  <1>3. \/ fetched = Threw(ThrowForStatus(answer)) /\ ThrowForStatus(answer) # None
        \/ fetched = Threw("Error")
        \/ fetched = Returned(raw)
    BY <1>2 DEF FetchJson
  <1>4. "Error" # None
    BY NoneAssumption
  <1> HIDE DEF fetched
  <1>5. fetched.error = None => fetched.value = raw
    BY <1>3, <1>4 DEF Threw, Returned
  <1>6. AdminRead(o, answer).error = None /\ fetched.error = None
        => AdminRead(o, answer).value = ToResult(o, raw)
    BY <1>1, <1>5 DEF Returned
  <1>7. AdminRead(o, answer).error = None
    BY DEF answer
  <1>8. fetched.error = None
    BY <1>1, <1>7
  <1>9. QED
    BY <1>6, <1>7, <1>8 DEF answer

OneTrue(a, d) ==
    a.phase = "ended" /\ a.error = None => TellsWhatItDid(a.ask, a.result, d)
                                           /\ TellsSettings(a.ask, a.result)

(* What calls that resolve report, without the rejections. *)
Reported == ReportsWhatHappened /\ ConfigAsAsked

LEMMA OneReportSteps ==
  ASSUME RoutesInv, Reported, NEW c \in Admins, NEW a, NEW d,
         admin' = [admin EXCEPT ![c] = a], did' = [did EXCEPT ![c] = d], OneTrue(a, d)
  PROVE  Reported'
  <1>1. \A x \in Admins : OneTrue(admin[x], did[x])
    BY DEF Reported, ReportsWhatHappened, ConfigAsAsked, AdminResolved, AdminEnded, OneTrue
  <1>2. \A x \in Admins : OneTrue(admin'[x], did'[x])
    BY <1>1 DEF RoutesInv, PerCaller
  <1>3. QED
    BY <1>2 DEF Reported, ReportsWhatHappened, ConfigAsAsked, AdminResolved, AdminEnded,
                OneTrue, TellsWhatItDid, TellsSettings

LEMMA ReportsStep ==
  ASSUME RoutesInv, Reported, [AdminNext]_adminVars
  PROVE  Reported'
  <1>1. PerCaller
    BY DEF RoutesInv
  <1>2. ASSUME NEW c \in Admins, NEW ask \in AdminAsks[c], AdminBegin(c, ask) PROVE Reported'
    <2> DEFINE a == [phase |-> "sent", ask |-> ask, body |-> AdminBody(ask)]
    <2>1. admin' = [admin EXCEPT ![c] = a] /\ did' = [did EXCEPT ![c] = NoChange]
      BY <1>2 DEF AdminBegin
    <2>2. OneTrue(a, NoChange)
      BY DEF OneTrue
    <2>3. QED
      BY <2>1, <2>2, OneReportSteps
  <1>3. ASSUME NEW c \in Admins, AdminServe(c) PROVE Reported'
    <2> DEFINE ask == admin[c].ask
               b   == AdminBody(ask)
    <2>1. admin[c].body = b
      BY <1>3, InvIsOfEach DEF AdminServe, RouteOK, RouteSent
    <2>2. PICK made, body :
             /\ made \in Makes(ask.op, b) /\ body \in {RawAnswer(ask.op, b, made), Garbled}
             /\ did' = [did EXCEPT ![c] = [gone |-> Gone(ask.op, b), settled |-> Settled(ask.op, b),
                                           made |-> made]]
             /\ AdminEnds(c, AdminRead(ask.op, [status |-> 200, body |-> body]))
      BY <1>3, <2>1 DEF AdminServe
    <2> DEFINE raw == RawAnswer(ask.op, b, made)
               outcome == AdminRead(ask.op, [status |-> 200, body |-> body])
               a == [phase |-> "ended", ask |-> ask, error |-> outcome.error,
                     result |-> outcome.value]
               d == [gone |-> Gone(ask.op, b), settled |-> Settled(ask.op, b), made |-> made]
    <2>3. admin' = [admin EXCEPT ![c] = a]
      BY <2>2 DEF AdminEnds
    <2>4. /\ a.ask = ask /\ a.error = outcome.error /\ a.result = outcome.value
          /\ d.gone = Gone(ask.op, b) /\ d.settled = Settled(ask.op, b) /\ d.made = made
      OBVIOUS
    <2>5. TellsWhatItDid(ask, ToResult(ask.op, raw), d) /\ TellsSettings(ask, ToResult(ask.op, raw))
      BY <2>4, TellsTheTruth
    <2>6. outcome.error = None /\ ask.op # "deleteLesson" => outcome.value = ToResult(ask.op, raw)
      <3>1. CASE body = raw
        BY <3>1, ReadsTheAnswer
      <3>2. CASE body = Garbled
        <4>1. ask.op # "deleteLesson" => outcome = Threw("Error")
          BY <3>2, NoneAssumption
             DEF AdminRead, AdminFetch, FetchJson, ThrowForStatus, Threw, Returned
        <4>2. QED
          BY <4>1, NoneAssumption DEF Threw
      <3>3. QED
        BY <2>2, <3>1, <3>2
    <2> HIDE DEF a, d, outcome, raw
    <2>7. OneTrue(a, d)
      <3>1. CASE ask.op # "deleteLesson"
        BY <2>4, <2>5, <2>6, <3>1 DEF OneTrue
      <3>2. CASE ask.op = "deleteLesson"
        BY <2>4, <3>2 DEF OneTrue, TellsWhatItDid, TellsSettings
      <3>3. QED
        BY <3>1, <3>2
    <2>8. did' = [did EXCEPT ![c] = d]
      BY <2>2 DEF d
    <2>9. QED
      BY <2>3, <2>7, <2>8, OneReportSteps
  <1>4. ASSUME NEW c \in Admins, NEW outcome, AdminEnds(c, outcome), UNCHANGED did,
               outcome.error # None
        PROVE  Reported'
    <2> DEFINE a == [phase |-> "ended", ask |-> admin[c].ask, error |-> outcome.error,
                     result |-> outcome.value]
    <2>1. admin' = [admin EXCEPT ![c] = a] /\ did' = [did EXCEPT ![c] = did[c]]
      BY <1>1, <1>4 DEF AdminEnds, PerCaller
    <2>2. OneTrue(a, did[c])
      BY <1>4 DEF OneTrue
    <2>3. QED
      BY <2>1, <2>2, OneReportSteps
  <1>5. ASSUME NEW c \in Admins, AdminReject(c) PROVE Reported'
    <2>1. PICK status \in {404, 429, 500} :
             AdminEnds(c, AdminRead(admin[c].ask.op, [status |-> status, body |-> None]))
      BY <1>5 DEF AdminReject
    <2>2. AdminRead(admin[c].ask.op, [status |-> status, body |-> None]).error # None
      BY NoneAssumption DEF AdminRead, AdminFetch, FetchVoid, FetchJson, ThrowForStatus, Threw
    <2>3. QED
      BY <1>4, <1>5, <2>1, <2>2 DEF AdminReject
  <1>6. ASSUME NEW c \in Admins, AdminTimesOut(c) PROVE Reported'
    <2>1. AdminRead(admin[c].ask.op, NoAnswer).error # None
      BY NoneAssumption
         DEF AdminRead, AdminFetch, FetchVoid, FetchJson, ThrowForStatus, Threw, NoAnswer
    <2>2. QED
      BY <1>4, <1>6, <2>1 DEF AdminTimesOut
  <1>7. CASE UNCHANGED <<admin, did>>
    BY <1>7 DEF Reported, ReportsWhatHappened, ConfigAsAsked, AdminResolved, AdminEnded,
                TellsWhatItDid, TellsSettings
  <1>8. QED
    BY <1>2, <1>3, <1>5, <1>6, <1>7 DEF AdminNext, AdminActs, AdriftServed, adminVars

-----------------------------------------------------------------------------
(* The types.  A request that sets something sets it to a number, also one *)
(* whose caller has gone; what a call ends with depends on its answer.     *)
SetsNumbers(o, b) ==
    /\ o = "updateConfig" => \A f \in Fields : b.updates[f] \in Nat \cup {None}
    /\ o = "setTrust" => b.level \in Nat

CoreTyped ==
    /\ present \subseteq Items /\ undecided \subseteq Deferred
    /\ config \in [Fields -> Nat] /\ trust \in [Users -> Nat]

EndsTyped(a, d) ==
    a.phase = "ended" =>
        /\ a.error \in ProviderErrors \cup {None, "Error"}
        /\ a.error # None => a.result = None
        /\ a.error \in ProviderErrors => d = NoChange

AdminTyped ==
    /\ CoreTyped
    /\ \A request \in adrift : SetsNumbers(request.op, request.body)
    /\ \A c \in Admins : EndsTyped(admin[c], did[c])

LEMMA AsksSetNumbers ==
  ASSUME NEW c \in Admins, NEW ask \in AdminAsks[c]
  PROVE  SetsNumbers(ask.op, AdminBody(ask))
  <1>1. ask.level \in Nat /\ \A f \in Fields : ask.updates[f] \in Nat \cup {None}
    BY AdminAssumption
  <1>2. ask.op = "updateConfig" => AdminBody(ask).updates = ask.updates
    BY SentBodies
  <1>3. ASSUME ask.op = "setTrust" PROVE AdminBody(ask).level = ask.level
    <2>1. AdminBody(ask) = SetTrust(ask)
      BY <1>3 DEF AdminBody, AgentsBody, Lifecycle, Audit, Lessons, Settings, Agents
    <2>2. QED
      BY <2>1 DEF SetTrust, UserOnly, Blank
  <1>4. QED
    BY <1>1, <1>2, <1>3 DEF SetsNumbers

LEMMA OutcomeTyped ==
  ASSUME NEW o, NEW answer
  PROVE  /\ AdminRead(o, answer).error \in ProviderErrors \cup {None, "Error"}
         /\ AdminRead(o, answer).error # None => AdminRead(o, answer).value = None
         /\ answer.status = 200 => AdminRead(o, answer).error \in {None, "Error"}
  <1> DEFINE fetched == AdminFetch(o, answer)
  <1>1. ThrowForStatus(answer) \in ProviderErrors \cup {None, "Error"}
        /\ (answer.status = 200 => ThrowForStatus(answer) = None)
    BY DEF ThrowForStatus, ProviderErrors
  <1>2. /\ fetched.error \in ProviderErrors \cup {None, "Error"}
        /\ fetched.error # None => fetched.value = None
        /\ answer.status = 200 => fetched.error \in {None, "Error"}
    BY <1>1 DEF AdminFetch, FetchVoid, FetchJson, Threw, Returned
  <1>3. AdminRead(o, answer) = fetched
        \/ AdminRead(o, answer) = Returned(ToResult(o, fetched.value))
    BY DEF AdminRead
  <1> HIDE DEF fetched
  <1>4. QED
    BY <1>2, <1>3 DEF Returned

LEMMA CarriedTyped ==
  ASSUME CoreTyped, NEW o, NEW b, SetsNumbers(o, b), NEW made \in Makes(o, b), Carry(o, b, made)
  PROVE  CoreTyped'
  <1>1. made \subseteq Items
    BY AdminAssumption DEF Makes
  <1>2. present' \subseteq Items /\ undecided' \subseteq Deferred
    BY <1>1 DEF Carry, CoreTyped
  <1>3. config' \in [Fields -> Nat]
    <2>1. config' = [f \in Fields |-> IF o = "updateConfig" /\ b.updates[f] # None
                                      THEN b.updates[f] ELSE config[f]]
      BY DEF Carry
    <2>2. \A f \in Fields : o = "updateConfig" /\ b.updates[f] # None => b.updates[f] \in Nat
      BY DEF SetsNumbers
    <2>3. QED
      BY <2>1, <2>2 DEF CoreTyped
  <1>4. trust' \in [Users -> Nat]
    <2>1. trust' = [u \in Users |-> IF o = "setTrust" /\ u = b.user THEN b.level ELSE trust[u]]
      BY DEF Carry
    <2>2. o = "setTrust" => b.level \in Nat
      BY DEF SetsNumbers
    <2>3. QED
      BY <2>1, <2>2 DEF CoreTyped
  <1>5. Users' = Users
    BY DEF Users
  <1>6. QED
    BY <1>2, <1>3, <1>4, <1>5 DEF CoreTyped

(* A step of one caller, judged by its call. *)
LEMMA OneTypedStep ==
  ASSUME RoutesInv, AdminTyped, CoreTyped', \A request \in adrift' : SetsNumbers(request.op, request.body),
         NEW c \in Admins, NEW a, NEW d,
         admin' = [admin EXCEPT ![c] = a], did' = [did EXCEPT ![c] = d], EndsTyped(a, d)
  PROVE  AdminTyped'
  <1>1. \A x \in Admins : EndsTyped(admin'[x], did'[x])
    BY DEF RoutesInv, PerCaller, AdminTyped
  <1>2. \A request \in adrift' : SetsNumbers(request.op, request.body)'
    BY DEF SetsNumbers
  <1>3. QED
    BY <1>1, <1>2 DEF AdminTyped, EndsTyped

LEMMA EndedTyped ==
  ASSUME RoutesInv, NEW c \in Admins, admin[c].phase = "sent", NEW answer, NEW d,
         answer.status = 200 \/ d = NoChange,
         AdminEnds(c, AdminRead(admin[c].ask.op, answer))
  PROVE  \E a : admin' = [admin EXCEPT ![c] = a] /\ EndsTyped(a, d)
  <1> DEFINE outcome == AdminRead(admin[c].ask.op, answer)
             a == [phase |-> "ended", ask |-> admin[c].ask, error |-> outcome.error,
                   result |-> outcome.value]
  <1>1. admin' = [admin EXCEPT ![c] = a]
    BY DEF AdminEnds
  <1>2. a.error = outcome.error /\ a.result = outcome.value
    OBVIOUS
  <1> HIDE DEF a
  <1>3. /\ outcome.error \in ProviderErrors \cup {None, "Error"}
        /\ outcome.error # None => outcome.value = None
        /\ answer.status = 200 => outcome.error \in {None, "Error"}
    BY OutcomeTyped
  <1> HIDE DEF outcome
  <1>4. None \notin ProviderErrors /\ "Error" \notin ProviderErrors
    BY NoneAssumption DEF ProviderErrors
  <1>5. EndsTyped(a, d)
    BY <1>2, <1>3, <1>4 DEF EndsTyped
  <1>6. QED
    BY <1>1, <1>5

LEMMA AdminTypedStep ==
  ASSUME RoutesInv, AdminTyped, [AdminNext]_adminVars
  PROVE  AdminTyped'
  <1>0. \A request \in adrift : SetsNumbers(request.op, request.body)
    BY DEF AdminTyped
  <1>00. UNCHANGED coreVars => CoreTyped'
    BY DEF coreVars, CoreTyped, AdminTyped, Users
  <1>1. ASSUME NEW c \in Admins, NEW ask \in AdminAsks[c], AdminBegin(c, ask) PROVE AdminTyped'
    <2> DEFINE a == [phase |-> "sent", ask |-> ask, body |-> AdminBody(ask)]
    <2>1. /\ admin' = [admin EXCEPT ![c] = a] /\ did' = [did EXCEPT ![c] = NoChange]
          /\ adrift' = adrift /\ UNCHANGED coreVars
      BY <1>1 DEF AdminBegin
    <2>2. EndsTyped(a, NoChange)
      BY DEF EndsTyped
    <2> HIDE DEF a
    <2>3. QED
      BY <1>0, <1>00, <2>1, <2>2, OneTypedStep
  <1>2. ASSUME NEW c \in Admins, admin[c].phase = "sent"
        PROVE  /\ SetsNumbers(admin[c].ask.op, admin[c].body)
               /\ did' = did => did' = [did EXCEPT ![c] = NoChange]
    <2>1. RouteSent(admin[c], did[c], c)
      BY InvIsOfEach DEF RouteOK
    <2>2. admin[c].ask \in AdminAsks[c] /\ admin[c].body = AdminBody(admin[c].ask) /\ did[c] = NoChange
      BY <1>2, <2>1 DEF RouteSent
    <2>3. SetsNumbers(admin[c].ask.op, admin[c].body)
      BY <2>2, AsksSetNumbers
    <2>4. did' = did => did' = [did EXCEPT ![c] = NoChange]
      BY <2>2 DEF RoutesInv, PerCaller
    <2>5. QED
      BY <2>3, <2>4
  <1>3. ASSUME NEW c \in Admins, AdminServe(c) PROVE AdminTyped'
    <2>1. PICK o, b : o = admin[c].ask.op /\ b = admin[c].body
      OBVIOUS
    <2>2. PICK made, body, d :
             /\ made \in Makes(o, b) /\ Carry(o, b, made)
             /\ did' = [did EXCEPT ![c] = d]
             /\ AdminEnds(c, AdminRead(o, [status |-> 200, body |-> body]))
      BY <1>3, <2>1 DEF AdminServe
    <2>3. admin[c].phase = "sent" /\ adrift' = adrift
      BY <1>3 DEF AdminServe
    <2>4. CoreTyped'
      BY <1>2, <2>1, <2>2, <2>3, CarriedTyped DEF AdminTyped
    <2> DEFINE answer == [status |-> 200, body |-> body]
    <2>5. answer.status = 200 /\ AdminEnds(c, AdminRead(admin[c].ask.op, answer))
      BY <2>1, <2>2
    <2> HIDE DEF answer
    <2>6. PICK a : admin' = [admin EXCEPT ![c] = a] /\ EndsTyped(a, d)
      BY <2>3, <2>5, EndedTyped
    <2>7. QED
      BY <1>0, <2>2, <2>3, <2>4, <2>6, OneTypedStep
  <1>4. ASSUME NEW c \in Admins, admin[c].phase = "sent", NEW answer,
               AdminEnds(c, AdminRead(admin[c].ask.op, answer)), UNCHANGED <<coreVars, did>>,
               \A request \in adrift' :
                  request \in adrift \/ request = [op |-> admin[c].ask.op, body |-> admin[c].body]
        PROVE  AdminTyped'
    <2>1. PICK a : admin' = [admin EXCEPT ![c] = a] /\ EndsTyped(a, NoChange)
      BY <1>4, EndedTyped
    <2>2. did' = [did EXCEPT ![c] = NoChange]
      BY <1>2, <1>4
    <2>3. \A request \in adrift' : SetsNumbers(request.op, request.body)
      BY <1>0, <1>2, <1>4
    <2>4. CoreTyped'
      BY <1>00, <1>4
    <2>5. QED
      BY <2>1, <2>2, <2>3, <2>4, OneTypedStep
  <1>5. ASSUME NEW c \in Admins, AdminReject(c) PROVE AdminTyped'
    <2>1. PICK status : AdminEnds(c, AdminRead(admin[c].ask.op, [status |-> status, body |-> None]))
      BY <1>5 DEF AdminReject
    <2>2. QED
      BY <1>4, <1>5, <2>1 DEF AdminReject
  <1>6. ASSUME NEW c \in Admins, AdminTimesOut(c) PROVE AdminTyped'
    BY <1>4, <1>6 DEF AdminTimesOut
  <1>7. ASSUME CoreTyped', admin' = admin, did' = did, adrift' \subseteq adrift PROVE AdminTyped'
    BY <1>0, <1>7 DEF AdminTyped, EndsTyped, SetsNumbers
  <1>8. CASE AdriftServed
    <2>1. PICK request \in adrift :
             /\ IF Missing(request.op, request.body) THEN UNCHANGED coreVars
                ELSE \E made \in Makes(request.op, request.body) :
                        Carry(request.op, request.body, made)
             /\ adrift' = adrift \ {request}
      BY <1>8 DEF AdriftServed
    <2>2. CoreTyped'
      <3>1. CASE Missing(request.op, request.body)
        BY <1>00, <2>1, <3>1
      <3>2. CASE ~Missing(request.op, request.body)
        <4>1. PICK o, b : o = request.op /\ b = request.body
          OBVIOUS
        <4>2. PICK made \in Makes(o, b) : Carry(o, b, made)
          BY <2>1, <3>2, <4>1
        <4>3. QED
          BY <1>0, <4>1, <4>2, CarriedTyped DEF AdminTyped
      <3>3. QED
        BY <3>1, <3>2
    <2>3. QED
      BY <1>7, <1>8, <2>1, <2>2 DEF AdriftServed
  <1>9. CASE UNCHANGED adminVars
    BY <1>00, <1>7, <1>9 DEF adminVars
  <1>10. QED
    BY <1>1, <1>3, <1>5, <1>6, <1>8, <1>9 DEF AdminNext, AdminActs

LEMMA AdminTypedInit ==
  AdminInit => AdminTyped
  BY DEF AdminInit, AdminTyped, CoreTyped, EndsTyped, NoAdmin

(* Settings and trust stay numbers, whatever an update leaves out and also *)
(* when it is carried out late (handle-impl.ts, updateConfig).             *)
THEOREM AdminTypes == AdminSpec => []AdminTypeOK
  <1>1. AdminInit => AdminTyped
    BY AdminTypedInit
  <1>2. RoutesInv /\ AdminTyped => AdminTypeOK
    <2> SUFFICES ASSUME RoutesInv, AdminTyped PROVE AdminTypeOK
      OBVIOUS
    <2>1. \A c \in Admins : admin[c].phase \in {"none", "sent", "ended"}
      BY DEF RoutesInv, SentIsAsked
    <2>2. QED
      BY <2>1 DEF AdminTypeOK, AdminTyped, CoreTyped, EndsTyped, AdminEnded
  <1>3. QED
    BY <1>1, <1>2, AdminTypedStep, AdminInvariant, PTL DEF AdminSpec

(* Counts, ids and settings of an answer are those of what the core did,   *)
(* and an error of the core tells that it did nothing.                     *)
THEOREM AnswersTellTheTruth == AdminSpec => []ReportsAreTrue
  <1>1. AdminInit => Reported /\ AdminTyped
    BY AdminTypedInit DEF AdminInit, Reported, ReportsWhatHappened, ConfigAsAsked, AdminResolved,
           AdminEnded, NoAdmin
  <1>2. Reported /\ AdminTyped => ReportsAreTrue
    BY DEF Reported, AdminTyped, EndsTyped, ReportsAreTrue, RejectionsChangeNothing, AdminEnded
  <1>3. QED
    BY <1>1, <1>2, ReportsStep, AdminTypedStep, AdminInvariant, PTL DEF AdminSpec

-----------------------------------------------------------------------------
(* The artifacts: what the answers and the errors tell is true of the      *)
(* server, and documents go only with their policy.                        *)

(* One call and what the server did for it. *)
ArtifactSent(u, f) ==
    /\ u.phase \in {"none", "sent", "ended"}
    /\ u.phase = "sent" =>
          /\ u.policy = u.ask.policy /\ f = NoFact
          /\ u.ask.op \in {"put", "capabilities"} \/ AddressesOne(u.ask)

OneError(u, f) == u.phase = "ended" =>
    /\ u.error = "ArtifactNotFoundError"  => ~f.there
    /\ u.error = "ArtifactInUseError"     => f.referenced
    /\ u.error = "PointerContentNotManagedError" => f.mode = "pointer"
    /\ u.error \notin {Unset, "network_error", "SyntaxError", "invalid_storage_response"}
          => ~f.changed

OneKnown(u) == u.phase = "ended" /\ u.error = Unset =>
    /\ u.ask.op \in {"put", "get", "head"} => u.value.mode \in Modes /\ u.value.status \in Statuses
    /\ u.ask.op = "delete" => u.value.status \in Statuses

OnePolicy(u, f) == u.phase = "ended" =>
    /\ f.cascaded # {} => u.ask.op = "delete" /\ u.ask.policy = "with_documents"
    /\ u.error = Unset /\ u.ask.op = "delete" => u.value.cascaded = f.cascaded

ArtifactOK(u, f) == ArtifactSent(u, f) /\ OneError(u, f) /\ OneKnown(u) /\ OnePolicy(u, f)

PerUploader ==
    /\ use = [c \in Uploaders |-> use[c]]
    /\ fact = [c \in Uploaders |-> fact[c]]

ArtifactsInv == PerUploader /\ \A c \in Uploaders : ArtifactOK(use[c], fact[c])

LEMMA OneUploaderSteps ==
  ASSUME ArtifactsInv, NEW c \in Uploaders, NEW u, NEW f,
         use' = [use EXCEPT ![c] = u], fact' = [fact EXCEPT ![c] = f], ArtifactOK(u, f)
  PROVE  ArtifactsInv'
  <1>1. PerUploader'
    BY DEF ArtifactsInv, PerUploader
  <1>2. use'[c] = u /\ fact'[c] = f
    BY DEF ArtifactsInv, PerUploader
  <1>3. \A d \in Uploaders \ {c} : use'[d] = use[d] /\ fact'[d] = fact[d]
    BY DEF ArtifactsInv, PerUploader
  <1>4. \A d \in Uploaders : ArtifactOK(use'[d], fact'[d])
    BY <1>2, <1>3 DEF ArtifactsInv
  <1>5. QED
    BY <1>1, <1>4 DEF ArtifactsInv

-----------------------------------------------------------------------------
(* What a request can be answered, and what its answer is read as. *)

LEMMA ArtifactBeginPreserves ==
  ASSUME ArtifactsInv, NEW c \in Uploaders, NEW ask \in Uses[c], UseBegin(c, ask)
  PROVE  ArtifactsInv'
  <1> DEFINE sent    == [phase |-> "sent", ask |-> ask, policy |-> Policy(ask)]
             refused == [phase |-> "ended", ask |-> ask, error |-> RequireArtifactId(ask),
                         value |-> Unset]
  <1>1. fact' = [fact EXCEPT ![c] = NoFact]
    BY DEF UseBegin
  <1>2. CASE RequireArtifactId(ask) = Unset
    <2>1. use' = [use EXCEPT ![c] = sent]
      BY <1>2 DEF UseBegin
    <2>2. ask.op \in {"put", "capabilities"} \/ AddressesOne(ask)
      BY UsesAssumption DEF AddressesOne
    <2>3. ArtifactOK(sent, NoFact)
      BY <2>2 DEF ArtifactOK, ArtifactSent, OneError, OneKnown, OnePolicy, Policy
    <2>4. QED
      BY <1>1, <2>1, <2>3, OneUploaderSteps
  <1>3. CASE RequireArtifactId(ask) # Unset
    <2>1. use' = [use EXCEPT ![c] = refused]
      BY <1>3 DEF UseBegin
    <2>2. RequireArtifactId(ask) \notin StorageErrors
      BY <1>3 DEF RequireArtifactId, CoerceManagedBody, StorageErrors
    <2>3. ArtifactOK(refused, NoFact)
      BY <1>3, <2>2 DEF ArtifactOK, ArtifactSent, OneError, OneKnown, OnePolicy, NoFact, StorageErrors
    <2>4. QED
      BY <1>1, <2>1, <2>3, OneUploaderSteps
  <1>4. QED
    BY <1>2, <1>3

(* A call that was sent ends. *)
LEMMA EndsOK ==
  ASSUME ArtifactsInv, NEW c \in Uploaders, use[c].phase = "sent", NEW error, NEW value,
         UseEnds(c, error, value), NEW f, fact' = [fact EXCEPT ![c] = f],
         OneError([phase |-> "ended", ask |-> use[c].ask, error |-> error, value |-> value], f),
         OneKnown([phase |-> "ended", ask |-> use[c].ask, error |-> error, value |-> value]),
         OnePolicy([phase |-> "ended", ask |-> use[c].ask, error |-> error, value |-> value], f)
  PROVE  ArtifactsInv'
  <1> DEFINE u == [phase |-> "ended", ask |-> use[c].ask, error |-> error, value |-> value]
  <1>1. use' = [use EXCEPT ![c] = u]
    BY DEF UseEnds
  <1>2. ArtifactSent(u, f)
    BY DEF ArtifactSent
  <1>3. ArtifactOK(u, f)
    BY <1>2 DEF ArtifactOK
  <1>4. QED
    BY <1>1, <1>3, OneUploaderSteps

LEMMA ErrorsAreErrors ==
  ASSUME NEW answer
  PROVE  ThrowForResponse(answer) \in StorageErrors /\ ThrowForResponse(answer) # Unset
  BY UnsetAssumption DEF ThrowForResponse, StorageErrors

LEMMA FailsPreserves ==
  ASSUME ArtifactsInv, NEW c \in Uploaders, UseFails(c)
  PROVE  ArtifactsInv'
  <1>1. use[c].phase = "sent" /\ fact[c] = NoFact
    BY DEF UseFails, ArtifactsInv, ArtifactOK, ArtifactSent
  <1>2. fact' = [fact EXCEPT ![c] = NoFact]
    BY <1>1 DEF UseFails, ArtifactsInv, PerUploader
  <1>3. PICK error : UseEnds(c, error, Unset) /\ error # Unset
                     /\ error \notin {"ArtifactInUseError", "PointerContentNotManagedError"}
    BY UnsetAssumption
       DEF OwnCodes, StorageErrors, UseFails, Interferes, Refusing, ReadArtifact, ThrowForResponse
  <1> DEFINE u == [phase |-> "ended", ask |-> use[c].ask, error |-> error, value |-> Unset]
  <1>4. OneError(u, NoFact) /\ OneKnown(u) /\ OnePolicy(u, NoFact)
    BY <1>3 DEF OneError, OneKnown, OnePolicy, NoFact
  <1>5. QED
    BY <1>1, <1>2, <1>3, <1>4, EndsOK

-----------------------------------------------------------------------------
(* A request that is served *)

(* The ways a request is answered: refused with everything as it was, or   *)
(* granted.                                                                *)
IsRefused(ask, served, status, code) ==
    /\ served = Served(artifact, documents, Refusing(status, code))
    /\ status # 200
    /\ code \in {"artifact_in_use", "pointer_content_not_managed", "artifact_not_found", Unset,
                 "filecoin_direct_storage_not_yet_supported"}
    /\ status = 404 \/ code = "artifact_not_found" => AddressesOne(ask) /\ ~There(ask.id)
    /\ code = "artifact_in_use" => AddressesOne(ask) /\ Referring(ask.id) # {}
    /\ code = "pointer_content_not_managed" =>
          AddressesOne(ask) /\ artifact[ask.id].mode = "pointer"

Granted(ask, policy, served) ==
    /\ served.answer.status = 200
    /\ documents \ served.documents # {} => ask.op = "delete" /\ policy = "with_documents"
    /\ ask.op = "delete" => served.answer.body.cascaded = documents \ served.documents
    /\ ask.op \notin {"put", "delete"} => served.artifact = artifact

LEMMA PutIs ==
  ASSUME NEW ask, ask.op = "put", NEW policy, NEW served \in Put(ask)
  PROVE  \/ \E status, code : IsRefused(ask, served, status, code)
         \/ Granted(ask, policy, served)
  <1>1. CASE ask.mode = "managed" /\ backend.filecoin
    <2>1. IsRefused(ask, served, 501, "filecoin_direct_storage_not_yet_supported")
      BY <1>1, UnsetAssumption DEF Put, Unserved, IsRefused
    <2>2. QED
      BY <2>1
  <1>2. CASE ~(ask.mode = "managed" /\ backend.filecoin)
    <2>1. PICK i, told : served = PutAs(ask, i, told)
      BY <1>2 DEF Put
    <2>2. served.answer.status = 200 /\ documents \ served.documents = {}
      BY <2>1 DEF PutAs, Served, Granting
    <2>3. QED
      BY <2>2 DEF Granted
  <1>3. QED
    BY <1>1, <1>2

LEMMA DeleteIs ==
  ASSUME NEW ask, ask.op = "delete", NEW policy, NEW served \in Delete(ask, policy)
  PROVE  \/ \E status, code : IsRefused(ask, served, status, code)
         \/ Granted(ask, policy, served)
  <1>1. CASE Referring(ask.id) # {} /\ policy # "with_documents"
    <2>1. IsRefused(ask, served, 409, "artifact_in_use")
      BY <1>1 DEF Delete, Unserved, IsRefused, AddressesOne
    <2>2. QED
      BY <2>1
  <1>2. CASE ~(Referring(ask.id) # {} /\ policy # "with_documents")
    <2>1. PICK a, told : served = Served(a, documents \ Referring(ask.id),
               Granting(WireBody(ask.id, artifact[ask.id].mode, told, Referring(ask.id))))
      BY <1>2 DEF Delete
    <2>2. documents \ served.documents = Referring(ask.id)
      BY <2>1 DEF Served, Referring
    <2>3. served.answer.status = 200 /\ served.answer.body.cascaded = Referring(ask.id)
      BY <2>1 DEF Served, Granting, WireBody
    <2>4. QED
      BY <1>2, <2>2, <2>3 DEF Granted
  <1>3. QED
    BY <1>1, <1>2

LEMMA LookIs ==
  ASSUME NEW ask, AddressesOne(ask), ask.op # "delete", NEW policy, NEW served \in Look(ask)
  PROVE  \/ \E status, code : IsRefused(ask, served, status, code)
         \/ Granted(ask, policy, served)
  <1>1. CASE ask.op = "getContent" /\ artifact[ask.id].mode = "pointer"
    <2>1. IsRefused(ask, served, 409, "pointer_content_not_managed")
      BY <1>1 DEF Look, Unserved, IsRefused, AddressesOne
    <2>2. QED
      BY <2>1
  <1>2. CASE ~(ask.op = "getContent" /\ artifact[ask.id].mode = "pointer")
    <2>1. PICK w : served = Served(artifact, documents, Granting(w))
      BY <1>2 DEF Look
    <2>2. served.answer.status = 200 /\ served.documents = documents /\ served.artifact = artifact
      BY <2>1 DEF Served, Granting
    <2>3. QED
      BY <2>2 DEF Granted
  <1>3. QED
    BY <1>1, <1>2

(* A call is one of those of the client. *)
LEMMA ServingIs ==
  ASSUME NEW ask, NEW policy, NEW served \in Serving(ask, policy),
         ask.op \in {"put", "capabilities"} \/ AddressesOne(ask)
  PROVE  \/ \E status, code : IsRefused(ask, served, status, code)
         \/ Granted(ask, policy, served)
  <1>1. CASE ask.op = "put"
    <2>1. served \in Put(ask)
      BY <1>1 DEF Serving, AddressesOne
    <2>2. QED
      BY <1>1, <2>1, PutIs
  <1>2. CASE ask.op = "capabilities"
    <2>1. served = Served(artifact, documents, Granting(Unset))
      BY <1>2 DEF Serving, AddressesOne
    <2>2. QED
      BY <1>2, <2>1 DEF Granted, Served, Granting
  <1>3. CASE AddressesOne(ask) /\ ~There(ask.id)
    <2>1. served \in Unserved(404, IF ask.op = "head" THEN Unset ELSE "artifact_not_found")
      BY <1>3 DEF Serving, AddressesOne
    <2>2. IsRefused(ask, served, 404, IF ask.op = "head" THEN Unset ELSE "artifact_not_found")
      BY <1>3, <2>1, UnsetAssumption DEF Unserved, IsRefused
    <2>3. QED
      BY <2>2
  <1>4. CASE AddressesOne(ask) /\ There(ask.id) /\ ask.op = "delete"
    BY <1>4, DeleteIs DEF Serving, AddressesOne
  <1>5. CASE AddressesOne(ask) /\ There(ask.id) /\ ask.op # "delete"
    <2>1. served \in Look(ask)
      BY <1>5 DEF Serving, AddressesOne
    <2>2. QED
      BY <1>5, <2>1, LookIs
  <1>6. QED
    BY <1>1, <1>2, <1>3, <1>4, <1>5

(* The account of a call whose answer is read.                             *)
LEMMA RefusedIsTrue ==
  ASSUME NEW ask, NEW served, NEW status, NEW code, IsRefused(ask, served, status, code), NEW u,
         u = [phase |-> "ended", ask |-> ask, error |-> ReadArtifact(ask, served.answer).error,
              value |-> ReadArtifact(ask, served.answer).value]
  PROVE  OneError(u, Finds(ask, served)) /\ OneKnown(u) /\ OnePolicy(u, Finds(ask, served))
  <1> DEFINE f == Finds(ask, served)
  <1>1. /\ served.artifact = artifact /\ served.documents = documents
        /\ served.answer = Refusing(status, code)
    BY DEF IsRefused, Served
  <1>2. u.error = ThrowForResponse(Refusing(status, code)) /\ u.ask = ask
    BY <1>1 DEF ReadArtifact, Refusing, IsRefused
  <1>3. ~f.changed /\ f.cascaded = {}
    BY <1>1 DEF Finds
  <1>4. u.error # Unset
    BY <1>2, ErrorsAreErrors
  <1>5. u.error = "ArtifactNotFoundError" => ~f.there
    <2>1. u.error = "ArtifactNotFoundError" => status = 404 \/ code = "artifact_not_found"
      BY <1>2 DEF ThrowForResponse, Refusing
    <2>2. QED
      BY <2>1 DEF IsRefused, Finds
  <1>6. u.error = "ArtifactInUseError" => f.referenced
    <2>1. u.error = "ArtifactInUseError" => code = "artifact_in_use"
      BY <1>2 DEF ThrowForResponse, Refusing
    <2>2. QED
      BY <2>1 DEF IsRefused, Finds
  <1>7. u.error = "PointerContentNotManagedError" => f.mode = "pointer"
    <2>1. u.error = "PointerContentNotManagedError" => code = "pointer_content_not_managed"
      BY <1>2 DEF ThrowForResponse, Refusing
    <2>2. QED
      BY <2>1 DEF IsRefused, Finds
  <1>8. QED
    BY <1>3, <1>4, <1>5, <1>6, <1>7 DEF OneError, OneKnown, OnePolicy

LEMMA GrantedIsTrue ==
  ASSUME NEW ask, NEW served, Granted(ask, ask.policy, served), NEW u,
         u = [phase |-> "ended", ask |-> ask, error |-> ReadArtifact(ask, served.answer).error,
              value |-> ReadArtifact(ask, served.answer).value]
  PROVE  OneError(u, Finds(ask, served)) /\ OneKnown(u) /\ OnePolicy(u, Finds(ask, served))
  <1> DEFINE f == Finds(ask, served)
             body == served.answer.body
  <1>1. served.answer.status = 200 /\ f.cascaded = documents \ served.documents
    BY DEF Granted, Finds
  <1>2. CASE ask.op \in {"put", "get"}
    <2>1. ReadArtifact(ask, served.answer) = MapStoredArtifact(body)
      BY <1>1, <1>2 DEF ReadArtifact
    <2>2. /\ u.error \in {Unset, "invalid_storage_response"}
          /\ u.error = Unset => u.value.mode \in Modes /\ u.value.status \in Statuses
      BY <2>1, UnsetAssumption DEF MapStoredArtifact, RequireWireEnum, OwnCodes
    <2>3. QED
      BY <1>1, <1>2, <2>2, UnsetAssumption
         DEF Granted, OneError, OneKnown, OnePolicy, StorageErrors
  <1>3. CASE ask.op = "head"
    <2>1. ReadArtifact(ask, served.answer) = MapHeadHeaders(body)
      BY <1>1, <1>3 DEF ReadArtifact
    <2>2. /\ u.error \in {Unset, "invalid_head_response"}
          /\ u.error = Unset => u.value.mode \in Modes /\ u.value.status \in Statuses
      BY <2>1, UnsetAssumption DEF MapHeadHeaders, OwnCodes
    <2>3. ~f.changed
      BY <1>3 DEF Granted, Finds
    <2>4. QED
      BY <1>1, <1>3, <2>2, <2>3, UnsetAssumption
         DEF Granted, OneError, OneKnown, OnePolicy, StorageErrors
  <1>4. CASE ask.op = "delete"
    <2>1. ReadArtifact(ask, served.answer) = MapDeleteResult(body)
      BY <1>1, <1>4 DEF ReadArtifact
    <2>2. /\ u.error \in {Unset, "invalid_storage_response"}
          /\ u.error = Unset => u.value.status \in Statuses /\ u.value.cascaded = body.cascaded
      BY <2>1, UnsetAssumption DEF MapDeleteResult, RequireWireEnum, OwnCodes
    <2>3. QED
      BY <1>1, <1>4, <2>2, UnsetAssumption
         DEF Granted, OneError, OneKnown, OnePolicy, StorageErrors
  <1>5. CASE ask.op \notin {"put", "get", "head", "delete"}
    <2>1. u.error = Unset
      BY <1>1, <1>5 DEF ReadArtifact
    <2>2. QED
      BY <1>1, <1>5, <2>1, UnsetAssumption
         DEF Granted, OneError, OneKnown, OnePolicy, StorageErrors
  <1>6. QED
    BY <1>2, <1>3, <1>4, <1>5

LEMMA ArtifactServePreserves ==
  ASSUME ArtifactsInv, NEW c \in Uploaders, UseServe(c)
  PROVE  ArtifactsInv'
  <1> DEFINE ask == use[c].ask
  <1>1. /\ use[c].phase = "sent" /\ use[c].policy = ask.policy
        /\ ask.op \in {"put", "capabilities"} \/ AddressesOne(ask)
    BY DEF UseServe, ArtifactsInv, ArtifactOK, ArtifactSent
  <1>2. PICK served \in Serving(ask, ask.policy) :
           /\ fact' = [fact EXCEPT ![c] = Finds(ask, served)]
           /\ \/ UseEnds(c, ReadArtifact(ask, served.answer).error,
                            ReadArtifact(ask, served.answer).value)
              \/ UseEnds(c, "network_error", Unset)
              \/ UseEnds(c, "SyntaxError", Unset)
    BY <1>1 DEF UseServe
  <1> DEFINE f == Finds(ask, served)
             read == [phase |-> "ended", ask |-> ask,
                      error |-> ReadArtifact(ask, served.answer).error,
                      value |-> ReadArtifact(ask, served.answer).value]
             lost(e) == [phase |-> "ended", ask |-> ask, error |-> e, value |-> Unset]
  <1>3. \/ \E status, code : IsRefused(ask, served, status, code)
        \/ Granted(ask, ask.policy, served)
    BY <1>1, <1>2, ServingIs
  <1>4. OneError(read, f) /\ OneKnown(read) /\ OnePolicy(read, f)
    BY <1>3, RefusedIsTrue, GrantedIsTrue
  <1>5. f.cascaded # {} => ask.op = "delete" /\ ask.policy = "with_documents"
    BY <1>4 DEF OnePolicy
  <1>6. \A e \in {"network_error", "SyntaxError"} :
           OneError(lost(e), f) /\ OneKnown(lost(e)) /\ OnePolicy(lost(e), f)
    BY <1>5, UnsetAssumption DEF OneError, OneKnown, OnePolicy, OwnCodes
  <1>7. CASE UseEnds(c, ReadArtifact(ask, served.answer).error,
                        ReadArtifact(ask, served.answer).value)
    BY <1>1, <1>2, <1>4, <1>7, EndsOK
  <1>8. CASE UseEnds(c, "network_error", Unset)
    BY <1>1, <1>2, <1>6, <1>8, EndsOK
  <1>9. CASE UseEnds(c, "SyntaxError", Unset)
    BY <1>1, <1>2, <1>6, <1>9, EndsOK
  <1>10. QED
    BY <1>2, <1>7, <1>8, <1>9

-----------------------------------------------------------------------------
(* The specification *)

LEMMA ServerMovesOn == ArtifactsInv /\ UNCHANGED <<use, fact>> => ArtifactsInv'
  BY DEF ArtifactsInv, PerUploader

LEMMA ArtifactNextPreserves == ArtifactsInv /\ [ArtifactNext]_artifactVars => ArtifactsInv'
  <1> SUFFICES ASSUME ArtifactsInv, [ArtifactNext]_artifactVars PROVE ArtifactsInv'
    OBVIOUS
  <1>1. ASSUME NEW c \in Uploaders, NEW ask \in Uses[c], UseBegin(c, ask) PROVE ArtifactsInv'
    BY <1>1, ArtifactBeginPreserves
  <1>2. ASSUME NEW c \in Uploaders, UseServe(c) \/ UseFails(c) PROVE ArtifactsInv'
    BY <1>2, ArtifactServePreserves, FailsPreserves
  <1>3. ASSUME NEW i \in Artifacts, Reconciles(i) PROVE ArtifactsInv'
    BY <1>3, ServerMovesOn DEF Reconciles
  <1>4. CASE UNCHANGED artifactVars
    BY <1>4, ServerMovesOn DEF artifactVars
  <1>5. QED
    BY <1>1, <1>2, <1>3, <1>4 DEF ArtifactNext

LEMMA ArtifactInitEstablishes == ArtifactInit => ArtifactsInv
  BY DEF ArtifactInit, ArtifactsInv, PerUploader, ArtifactOK, ArtifactSent, OneError, OneKnown, OnePolicy

LEMMA ArtifactInvariant == ArtifactSpec => []ArtifactsInv
  BY ArtifactInitEstablishes, ArtifactNextPreserves, PTL DEF ArtifactSpec

(* Typed errors tell what the server found, and an error that is not one   *)
(* of a lost or unreadable answer has changed nothing there.               *)
THEOREM ErrorsAreTrue == ArtifactSpec => []ErrorsTellTheTruth
  <1>1. ArtifactsInv => ErrorsTellTheTruth
    BY DEF ArtifactsInv, ArtifactOK, OneError, ErrorsTellTheTruth, UseEnded
  <1>2. QED
    BY <1>1, ArtifactInvariant, PTL

(* No mode or status outside the closed types reaches the application.     *)
THEOREM AnswersAreKnown == ArtifactSpec => []KnownValuesOnly
  <1>1. ArtifactsInv => KnownValuesOnly
    BY DEF ArtifactsInv, ArtifactOK, OneKnown, KnownValuesOnly, UseResolved, UseEnded
  <1>2. QED
    BY <1>1, ArtifactInvariant, PTL

(* Documents go only by a deletion with their policy, which names them.    *)
THEOREM CascadesAreAskedFor == ArtifactSpec => []DocumentsNeedThePolicy
  <1>1. ArtifactsInv => DocumentsNeedThePolicy
    BY DEF ArtifactsInv, ArtifactOK, OnePolicy, DocumentsNeedThePolicy, UseResolved, UseEnded
  <1>2. QED
    BY <1>1, ArtifactInvariant, PTL

(* The three together: the outcome of a call is as the server has it.      *)
THEOREM OutcomesAreTrue == ArtifactSpec => []AnswersAreTrue
  <1>1. ErrorsTellTheTruth /\ KnownValuesOnly /\ DocumentsNeedThePolicy => AnswersAreTrue
    BY DEF AnswersAreTrue
  <1>2. QED
    BY <1>1, ErrorsAreTrue, AnswersAreKnown, CascadesAreAskedFor, PTL

-----------------------------------------------------------------------------
(* The types.  The server keeps a record of each artifact, and what is     *)
(* sent names an artifact, or has a body of known length.                  *)
RecordsOK(a) ==
    /\ DOMAIN a = Artifacts
    /\ \A i \in Artifacts : /\ a[i] = [status |-> a[i].status, mode |-> a[i].mode]
                            /\ a[i].status \in Statuses \cup {"absent"}

Sendable(ask) ==
    /\ AddressesOne(ask) => ask.id \in Artifacts
    /\ ask.op = "put" /\ ask.mode = "managed" => ask.body \in KnownLength

UseTyped(u, f) ==
    /\ u.phase = "sent" => Sendable(u.ask)
    /\ u.phase = "ended" =>
          /\ u.error \in StorageErrors \cup OwnCodes \cup {Unset, "SyntaxError"}
          /\ u.error # Unset => u.value = Unset
          /\ f.sent => Sendable(u.ask)

ArtifactsTyped ==
    /\ RecordsOK(artifact) /\ documents \subseteq DOMAIN Docs
    /\ \A c \in Uploaders : UseTyped(use[c], fact[c])

LEMMA ChangesTheRecord ==
  ASSUME NEW a, RecordsOK(a), NEW i \in Artifacts, NEW status \in Statuses
  PROVE  /\ RecordsOK([a EXCEPT ![i].status = status])
         /\ \A mode : RecordsOK([a EXCEPT ![i] = [mode |-> mode, status |-> status]])
  <1>1. ASSUME NEW mode PROVE RecordsOK([a EXCEPT ![i] = [mode |-> mode, status |-> status]])
    <2> DEFINE b == [a EXCEPT ![i] = [mode |-> mode, status |-> status]]
    <2>1. DOMAIN b = Artifacts /\ b[i] = [mode |-> mode, status |-> status]
          /\ \A j \in Artifacts \ {i} : b[j] = a[j]
      BY DEF RecordsOK
    <2>2. b[i].status = status /\ b[i].mode = mode
          /\ b[i] = [status |-> b[i].status, mode |-> b[i].mode]
      BY <2>1
    <2> HIDE DEF b
    <2>3. \A j \in Artifacts : b[j] = [status |-> b[j].status, mode |-> b[j].mode]
                               /\ b[j].status \in Statuses \cup {"absent"}
      BY <2>1, <2>2 DEF RecordsOK
    <2>4. RecordsOK(b)
      BY <2>1, <2>3 DEF RecordsOK
    <2>5. QED
      BY <2>4 DEF b
  <1>2. [a EXCEPT ![i].status = status] = [a EXCEPT ![i] = [mode |-> a[i].mode, status |-> status]]
    <2>1. a[i] = [status |-> a[i].status, mode |-> a[i].mode]
      BY DEF RecordsOK
    <2>2. [a[i] EXCEPT !.status = status] = [mode |-> a[i].mode, status |-> status]
      BY <2>1
    <2>3. [a EXCEPT ![i].status = status] = [a EXCEPT ![i] = [a[i] EXCEPT !.status = status]]
      OBVIOUS
    <2>4. QED
      BY <2>2, <2>3
  <1>3. QED
    BY <1>1, <1>2

LEMMA OwnStatuses ==
  /\ \A ask : PutStatus(ask) \in Statuses
  /\ {"deleting", "deleted", "delete_failed", "available", "failed"} \subseteq Statuses
  BY DEF PutStatus, Statuses

LEMMA ServedTyped ==
  ASSUME RecordsOK(artifact), documents \subseteq DOMAIN Docs,
         NEW ask, Sendable(ask), ask.op \in {"put", "capabilities"} \/ AddressesOne(ask),
         NEW policy, NEW served \in Serving(ask, policy)
  PROVE  RecordsOK(served.artifact) /\ served.documents \subseteq DOMAIN Docs
  <1> DEFINE Typed == RecordsOK(served.artifact) /\ served.documents \subseteq DOMAIN Docs
  <1>1. ASSUME NEW answer, served = Served(artifact, documents, answer) PROVE Typed
    BY <1>1 DEF Served
  <1>2. CASE ask.op = "put"
    <2>1. served \in Put(ask)
      BY <1>2 DEF Serving, AddressesOne
    <2>2. CASE ask.mode = "managed" /\ backend.filecoin
      BY <1>1, <2>1, <2>2 DEF Put, Unserved
    <2>3. CASE ~(ask.mode = "managed" /\ backend.filecoin)
      <3>1. PICK i, told : i \in Artifacts /\ served = PutAs(ask, i, told)
        BY <2>1, <2>3 DEF Put
      <3>2. /\ served.artifact = [artifact EXCEPT ![i] = [mode |-> ask.mode, status |-> PutStatus(ask)]]
            /\ served.documents = documents \cup {d \in DOMAIN Docs : Docs[d] = i}
        BY <3>1 DEF PutAs, Served
      <3>3. RecordsOK(served.artifact)
        <4>1. PICK status \in Statuses : status = PutStatus(ask)
          BY OwnStatuses
        <4>2. \A mode : RecordsOK([artifact EXCEPT ![i] = [mode |-> mode, status |-> status]])
          BY <3>1, ChangesTheRecord
        <4>3. QED
          BY <3>2, <4>1, <4>2
      <3>4. QED
        BY <3>2, <3>3
    <2>4. QED
      BY <2>2, <2>3
  <1>3. CASE ask.op = "capabilities"
    BY <1>1, <1>3 DEF Serving, AddressesOne
  <1>4. CASE AddressesOne(ask) /\ ~There(ask.id)
    <2>1. served \in Unserved(404, IF ask.op = "head" THEN Unset ELSE "artifact_not_found")
      BY <1>4 DEF Serving, AddressesOne
    <2>2. QED
      BY <1>1, <2>1 DEF Unserved
  <1>5. CASE AddressesOne(ask) /\ There(ask.id) /\ ask.op = "delete"
    <2>1. served \in Delete(ask, policy)
      BY <1>5 DEF Serving, AddressesOne
    <2>2. CASE Referring(ask.id) # {} /\ policy # "with_documents"
      BY <1>1, <2>1, <2>2 DEF Delete, Unserved
    <2>3. CASE ~(Referring(ask.id) # {} /\ policy # "with_documents")
      <3>1. /\ served.artifact = [artifact EXCEPT ![ask.id].status = "deleting"]
            /\ served.documents = documents \ Referring(ask.id)
        BY <2>1, <2>3 DEF Delete, Served
      <3>2. ask.id \in Artifacts
        BY <1>5 DEF Sendable
      <3>3. RecordsOK(served.artifact)
        BY <3>1, <3>2, ChangesTheRecord, OwnStatuses
      <3>4. QED
        BY <3>1, <3>3
    <2>4. QED
      BY <2>2, <2>3
  <1>6. CASE AddressesOne(ask) /\ There(ask.id) /\ ask.op # "delete"
    <2>1. served \in Look(ask)
      BY <1>6 DEF Serving, AddressesOne
    <2>2. QED
      BY <1>1, <2>1 DEF Look, Unserved
  <1>7. QED
    BY <1>2, <1>3, <1>4, <1>5, <1>6

LEMMA ReadTyped ==
  ASSUME NEW ask, NEW answer
  PROVE  /\ ReadArtifact(ask, answer).error \in StorageErrors \cup OwnCodes \cup {Unset}
         /\ ReadArtifact(ask, answer).error # Unset => ReadArtifact(ask, answer).value = Unset
  <1>1. CASE answer.status # 200
    BY <1>1, ErrorsAreErrors DEF ReadArtifact
  <1>2. CASE answer.status = 200 /\ ask.op \in {"put", "get"}
    BY <1>2 DEF ReadArtifact, MapStoredArtifact, OwnCodes
  <1>3. CASE answer.status = 200 /\ ask.op = "head"
    BY <1>3 DEF ReadArtifact, MapHeadHeaders, OwnCodes
  <1>4. CASE answer.status = 200 /\ ask.op = "delete"
    BY <1>4 DEF ReadArtifact, MapDeleteResult, OwnCodes
  <1>5. CASE answer.status = 200 /\ ask.op \notin {"put", "get", "head", "delete"}
    BY <1>5 DEF ReadArtifact
  <1>6. QED
    BY <1>1, <1>2, <1>3, <1>4, <1>5

LEMMA OneTypedUse ==
  ASSUME ArtifactsInv, ArtifactsTyped, RecordsOK(artifact'), documents' \subseteq DOMAIN Docs,
         NEW c \in Uploaders, NEW u, NEW f,
         use' = [use EXCEPT ![c] = u], fact' = [fact EXCEPT ![c] = f], UseTyped(u, f)
  PROVE  ArtifactsTyped'
  <1>1. use'[c] = u /\ fact'[c] = f
    BY DEF ArtifactsInv, PerUploader
  <1>2. \A d \in Uploaders \ {c} : use'[d] = use[d] /\ fact'[d] = fact[d]
    BY DEF ArtifactsInv, PerUploader
  <1>3. \A d \in Uploaders : UseTyped(use'[d], fact'[d])
    BY <1>1, <1>2 DEF ArtifactsTyped
  <1>4. QED
    BY <1>3 DEF ArtifactsTyped, RecordsOK

LEMMA EndsTypedUse ==
  ASSUME ArtifactsInv, ArtifactsTyped, RecordsOK(artifact'), documents' \subseteq DOMAIN Docs,
         NEW c \in Uploaders, use[c].phase = "sent", NEW error, NEW value, UseEnds(c, error, value),
         error \in StorageErrors \cup OwnCodes \cup {Unset, "SyntaxError"},
         error # Unset => value = Unset, NEW f, fact' = [fact EXCEPT ![c] = f]
  PROVE  ArtifactsTyped'
  <1> DEFINE u == [phase |-> "ended", ask |-> use[c].ask, error |-> error, value |-> value]
  <1>1. use' = [use EXCEPT ![c] = u]
    BY DEF UseEnds
  <1>2. Sendable(use[c].ask)
    BY DEF ArtifactsTyped, UseTyped
  <1>3. UseTyped(u, f)
    BY <1>2 DEF UseTyped
  <1>4. QED
    BY <1>1, <1>3, OneTypedUse

LEMMA BeginTyped ==
  ASSUME ArtifactsInv, ArtifactsTyped, NEW c \in Uploaders, NEW ask \in Uses[c], UseBegin(c, ask)
  PROVE  ArtifactsTyped'
  <1> DEFINE sent    == [phase |-> "sent", ask |-> ask, policy |-> Policy(ask)]
             refused == [phase |-> "ended", ask |-> ask, error |-> RequireArtifactId(ask),
                         value |-> Unset]
  <1>1. /\ fact' = [fact EXCEPT ![c] = NoFact]
        /\ RecordsOK(artifact') /\ documents' \subseteq DOMAIN Docs
    BY DEF UseBegin, ArtifactsTyped
  <1>2. CASE RequireArtifactId(ask) = Unset
    <2>1. use' = [use EXCEPT ![c] = sent]
      BY <1>2 DEF UseBegin
    <2>2. ~(AddressesOne(ask) /\ ask.id = Unset) /\ CoerceManagedBody(ask) = Unset
      BY <1>2, UnsetAssumption DEF RequireArtifactId, OwnCodes
    <2>3. AddressesOne(ask) => ask.id \in Artifacts
      BY <2>2, UsesAssumption
    <2>4. ask.op = "put" /\ ask.mode = "managed" => ask.body \in KnownLength
      BY <2>2, UnsetAssumption DEF CoerceManagedBody, OwnCodes
    <2>5. UseTyped(sent, NoFact)
      BY <2>3, <2>4 DEF UseTyped, Sendable
    <2>6. QED
      BY <1>1, <2>1, <2>5, OneTypedUse
  <1>3. CASE RequireArtifactId(ask) # Unset
    <2>1. use' = [use EXCEPT ![c] = refused]
      BY <1>3 DEF UseBegin
    <2>2. RequireArtifactId(ask) \in OwnCodes
      BY <1>3 DEF RequireArtifactId, CoerceManagedBody, OwnCodes
    <2>3. UseTyped(refused, NoFact)
      BY <2>2 DEF UseTyped, NoFact
    <2>4. QED
      BY <1>1, <2>1, <2>3, OneTypedUse
  <1>4. QED
    BY <1>2, <1>3

LEMMA ServeTyped ==
  ASSUME ArtifactsInv, ArtifactsTyped, NEW c \in Uploaders, UseServe(c)
  PROVE  ArtifactsTyped'
  <1> DEFINE ask == use[c].ask
  <1>1. /\ use[c].phase = "sent" /\ Sendable(ask)
        /\ ask.op \in {"put", "capabilities"} \/ AddressesOne(ask)
    BY DEF UseServe, ArtifactsInv, ArtifactOK, ArtifactSent, ArtifactsTyped, UseTyped
  <1>2. PICK served \in Serving(ask, use[c].policy) :
           /\ artifact' = served.artifact /\ documents' = served.documents
           /\ fact' = [fact EXCEPT ![c] = Finds(ask, served)]
           /\ \/ UseEnds(c, ReadArtifact(ask, served.answer).error,
                            ReadArtifact(ask, served.answer).value)
              \/ UseEnds(c, "network_error", Unset)
              \/ UseEnds(c, "SyntaxError", Unset)
    BY DEF UseServe
  <1>3. RecordsOK(artifact') /\ documents' \subseteq DOMAIN Docs
    BY <1>1, <1>2, ServedTyped DEF ArtifactsTyped
  <1>4. "network_error" \in OwnCodes
    BY DEF OwnCodes
  <1>5. QED
    BY <1>1, <1>2, <1>3, <1>4, ReadTyped, EndsTypedUse

LEMMA FailTyped ==
  ASSUME ArtifactsInv, ArtifactsTyped, NEW c \in Uploaders, UseFails(c)
  PROVE  ArtifactsTyped'
  <1>1. /\ use[c].phase = "sent" /\ fact' = [fact EXCEPT ![c] = fact[c]]
        /\ RecordsOK(artifact') /\ documents' \subseteq DOMAIN Docs
    BY DEF UseFails, ArtifactsInv, PerUploader, ArtifactsTyped
  <1>2. PICK error : UseEnds(c, error, Unset)
                     /\ error \in StorageErrors \cup OwnCodes \cup {Unset}
    BY ReadTyped DEF UseFails, OwnCodes
  <1>3. QED
    BY <1>1, <1>2, EndsTypedUse

LEMMA ArtifactsTypedStep ==
  ASSUME ArtifactsInv, ArtifactsTyped, [ArtifactNext]_artifactVars
  PROVE  ArtifactsTyped'
  <1>1. ASSUME NEW i \in Artifacts, Reconciles(i) PROVE ArtifactsTyped'
    <2>1. PICK after \in {"available", "failed", "deleted", "delete_failed"} :
              artifact' = [artifact EXCEPT ![i].status = after]
      BY <1>1 DEF Reconciles
    <2>2. RecordsOK(artifact')
      BY <2>1, ChangesTheRecord, OwnStatuses DEF ArtifactsTyped
    <2>3. QED
      BY <1>1, <2>2 DEF Reconciles, ArtifactsTyped, RecordsOK
  <1>2. CASE UNCHANGED artifactVars
    BY <1>2 DEF artifactVars, ArtifactsTyped, RecordsOK
  <1>3. QED
    BY <1>1, <1>2, BeginTyped, ServeTyped, FailTyped DEF ArtifactNext

(* Every call ends with a value or an error of the client, and nothing     *)
(* without an id or with a body of unknown length has reached the server   *)
(* (client.ts, requireArtifactId and coerceManagedBody).                   *)
THEOREM ArtifactTypes == ArtifactSpec => []ArtifactTypeOK
  <1>1. ArtifactInit => ArtifactsTyped
    BY DEF ArtifactInit, ArtifactsTyped, RecordsOK, Absent0, UseTyped
  <1>2. ArtifactsTyped => ArtifactTypeOK
    BY DEF ArtifactsTyped, RecordsOK, UseTyped, Sendable, ArtifactTypeOK, UseEnded
  <1>3. QED
    BY <1>1, <1>2, ArtifactsTypedStep, ArtifactInvariant, PTL DEF ArtifactSpec

-----------------------------------------------------------------------------
(* The meta-fact filter, one item after the other: h[n] is what is kept of  *)
(* the first n of them, and the lasts they leave.                       *)
FilterHistory(h, items, contents, patterns, lasts, result) ==
    /\ h[0] = [kept |-> <<>>, last |-> lasts] /\ h[Len(items)] = result
    /\ \A n \in 1..Len(items) :
          /\ h[n] = FilterStep(patterns, h[n - 1], items[n], contents[n])
          /\ h[n - 1].kept \in Seq(ToSet(items))

LEMMA FilterSteps ==
  ASSUME NEW X, NEW items \in Seq(X), NEW contents, NEW options, options.enabled, NEW lasts
  PROVE  \E h : FilterHistory(h, items, contents, ResolvePatterns(options), lasts,
                              FilterMetaFacts(items, contents, options, lasts))
  <1> DEFINE P == ResolvePatterns(options)
             Y == ToSet(items)
             R == {0, 1} \cup {lasts[i] : i \in DOMAIN P}
             A == [last : {lasts} \cup [DOMAIN P -> R], kept : Seq(Y)]
             s == [i \in DOMAIN items |-> i]
             D == DOMAIN s
             base == [kept |-> <<>>, last |-> lasts]
             Greatest(d) == CHOOSE x \in d : \A y \in d : x >= y
             Took(a, x) == FilterStep(P, a, items[x], contents[x])
             Grown(g, d) == IF d = {} THEN base ELSE Took(g[d \ {Greatest(d)}], s[Greatest(d)])
             F == [p \in D \X A |-> Took(p[2], s[p[1]])]
             C == [d \in SUBSET D |-> Greatest(d)]
  <1>1. IsFiniteSet(D) /\ D = 1..Len(items) /\ Len(items) \in Nat
    BY FS_Interval
  <1>2. \A d \in SUBSET D : d # {} => Greatest(d) \in d
    BY <1>1, LastExists
  <1>3. \A x \in D, a \in A : Took(a, s[x]) \in A
    <2> SUFFICES ASSUME NEW x \in D, NEW a \in A PROVE Took(a, x) \in A
      OBVIOUS
    <2>1. items[x] \in Y
      BY DEF ToSet
    <2>2. \A i \in DOMAIN P : a.last[i] \in R
      OBVIOUS
    <2>3. LastIndexAfter(P, a.last, contents[x]) \in [DOMAIN P -> R]
      <3> HIDE DEF P
      <3>1. \A i \in DOMAIN P : (IF P[i].global THEN 1 ELSE 0) \in R /\ 0 \in R
        OBVIOUS
      <3> HIDE DEF R
      <3>2. QED
        BY <2>2, <3>1 DEF LastIndexAfter
    <2> HIDE DEF P, Y, R
    <2>4. Append(a.kept, items[x]) \in Seq(Y) /\ a.kept \in Seq(Y)
      BY <2>1
    <2>5. QED
      BY <2>3, <2>4 DEF FilterStep
  <1>4. base \in A
    OBVIOUS
  <1> HIDE DEF P, A, Took, base
  <1>5. \A x \in D, a \in A : F[<<x, a>>] \in A /\ F[<<x, a>>] = Took(a, s[x])
    BY <1>3
  <1>6. \A d \in SUBSET D : d # {} => C[d] \in d /\ C[d] = Greatest(d)
    BY <1>2
  <1> HIDE DEF F, C, D
  <1>7. PICK g : IsFold(g, D, A, base, F, C)
    <2>1. Foldable(D, A, base, F, C)
      BY <1>1, <1>4, <1>5, <1>6 DEF Foldable
    <2>2. QED
      BY <2>1, FoldExists
  <1>8. g \in [SUBSET D -> A] /\ \A d \in SUBSET D : g[d] = Grown(g, d)
    <2> USE <1>7 DEF IsFold
    <2> SUFFICES ASSUME NEW d \in SUBSET D, d # {}
                 PROVE  F[<<C[d], g[d \ {C[d]}]>>] = Took(g[d \ {Greatest(d)}], s[Greatest(d)])
      OBVIOUS
    <2>1. C[d] = Greatest(d) /\ C[d] \in D /\ d \ {C[d]} \in SUBSET D
      BY <1>6
    <2> HIDE DEF Greatest, s
    <2>2. QED
      BY <1>5, <2>1
  <1> DEFINE K == CHOOSE k : k = [d \in SUBSET D |-> Grown(k, d)]
  <1>9. g = [d \in SUBSET D |-> Grown(g, d)]
    <2> HIDE DEF Grown
    <2>1. QED
      BY <1>8
  <1>10. K = [d \in SUBSET D |-> Grown(K, d)]
    <2> HIDE DEF Grown
    <2>1. QED
      BY <1>9
  <1>11. FilterMetaFacts(items, contents, options, lasts) = K[D]
    BY DEF FilterMetaFacts, FoldLeftDomain, FoldLeft, MapThenFoldSet, Max, D, Took, P, base
  <1>12. \A d \in SUBSET D : K[d] = g[d]
    <2> DEFINE T == {d \in SUBSET D : K[d] = g[d]}
    <2>1. \A d \in SUBSET D : K[d] = Grown(K, d)
      <3> HIDE DEF Grown, K
      <3>1. QED
        BY <1>10
    <2> HIDE DEF K
    <2>2. {} \in T
      BY <2>1, <1>8
    <2>3. ASSUME NEW d \in SUBSET D, d # {}
          PROVE  C[d] \in d /\ (d \ {C[d]} \in T => d \in T)
      <3>1. C[d] \in d /\ C[d] = Greatest(d)
        BY <2>3, <1>6
      <3> HIDE DEF Greatest
      <3>2. /\ K[d] = Took(K[d \ {Greatest(d)}], s[Greatest(d)])
            /\ g[d] = Took(g[d \ {Greatest(d)}], s[Greatest(d)])
        BY <2>1, <2>3, <1>8
      <3>3. QED
        BY <3>1, <3>2
    <2> HIDE DEF T
    <2>4. Inductive(T, D, C)
      BY <1>1, <2>2, <2>3 DEF Inductive
    <2>5. SUBSET D \subseteq T
      BY <2>4, AllParts
    <2>6. QED
      BY <2>5 DEF T
  <1> DEFINE h == [n \in 0..Len(items) |-> g[1..n]]
  <1>13. \A n \in 0..Len(items) : 1..n \in SUBSET D
    BY <1>1
  <1>14. h \in [0..Len(items) -> A]
    BY <1>8, <1>13
  <1>15. h[0] = base
    <2>1. 1..0 = {} /\ 0 \in 0..Len(items)
      BY <1>1
    <2>2. QED
      BY <2>1, <1>8, <1>13
  <1>16. h[Len(items)] = FilterMetaFacts(items, contents, options, lasts)
    <2> HIDE DEF K
    <2>1. D \in SUBSET D /\ Len(items) \in 0..Len(items) /\ 1..Len(items) = D
      BY <1>1
    <2>2. h[Len(items)] = g[D]
      BY <2>1
    <2>3. QED
      BY <1>11, <1>12, <2>1, <2>2
  <1>17. ASSUME NEW n \in 1..Len(items)
         PROVE  h[n] = Took(h[n - 1], n) /\ h[n - 1].kept \in Seq(Y)
    <2>1. Greatest(1..n) = n
      <3>1. n \in 1..n /\ \A y \in 1..n : n >= y
        BY <1>1
      <3>2. \A x \in 1..n : (\A y \in 1..n : x >= y) => x = n
        BY <1>1, <3>1
      <3>3. QED
        BY <3>1, <3>2
    <2>2. (1..n) \ {n} = 1..(n - 1)
      BY <1>1
    <2>3. n \in 0..Len(items) /\ n - 1 \in 0..Len(items) /\ 1..n # {} /\ s[n] = n
      <3>1. n \in Nat /\ n \in 0..Len(items) /\ n - 1 \in 0..Len(items)
        BY <1>1
      <3>2. n \in 1..n
        BY <3>1
      <3>3. s[n] = n
        BY <1>1 DEF D
      <3>4. QED
        BY <3>1, <3>2, <3>3
    <2>4. h[n] = g[1..n] /\ h[n - 1] = g[1..(n - 1)]
      BY <2>3
    <2>5. h[n - 1] \in A
      BY <1>14, <2>3
    <2> HIDE DEF Greatest, h, s
    <2>6. g[1..n] = Took(g[1..(n - 1)], s[n])
      BY <1>8, <1>13, <2>1, <2>2, <2>3
    <2>7. QED
      BY <2>3, <2>4, <2>5, <2>6 DEF A
  <1> HIDE DEF h
  <1>18. QED
    BY <1>15, <1>16, <1>17 DEF FilterHistory, Took, base, P

(* The content has passed the patterns, none of which has the flag g.       *)
Unmatched(patterns, content) ==
    (\A i \in DOMAIN patterns : ~patterns[i].global) =>
        \A i \in DOMAIN patterns : patterns[i].family \notin Families[content]

KeptOf(filtered, items, contents, patterns) ==
    \A i \in DOMAIN filtered : \E j \in DOMAIN items :
        filtered[i] = items[j] /\ Unmatched(patterns, contents[j])

LEMMA PatternsAreListed ==
  ASSUME NEW options, options.patterns \in Seq(ToSet(options.patterns))
  PROVE  DOMAIN ResolvePatterns(options) \subseteq Nat \ {0}
  <1>1. PICK X : options.patterns \in Seq(X) /\ DefaultPatterns \in Seq(X)
    <2> DEFINE named == {[family |-> f, global |-> FALSE] :
                            f \in {"user said", "term", "name", "involves", "started"}}
               X == ToSet(options.patterns) \cup named
    <2>1. options.patterns \in Seq(X)
      <3>1. ToSet(options.patterns) \subseteq X
        OBVIOUS
      <3> HIDE DEF X
      <3>2. \A q \in Seq(ToSet(options.patterns)) : q \in Seq(X)
        BY <3>1
      <3>3. QED
        BY <3>2
    <2>2. DefaultPatterns \in Seq(X)
      <3>1. /\ [family |-> "user said", global |-> FALSE] \in X
            /\ [family |-> "term", global |-> FALSE] \in X
            /\ [family |-> "name", global |-> FALSE] \in X
            /\ [family |-> "involves", global |-> FALSE] \in X
            /\ [family |-> "started", global |-> FALSE] \in X
        OBVIOUS
      <3> HIDE DEF X, named
      <3>2. \A a, b, c, d, e \in X : <<a, b, c, d, e>> \in Seq(X)
        OBVIOUS
      <3>3. QED
        BY <3>1, <3>2, Zenon DEF DefaultPatterns
    <2>3. QED
      BY <2>1, <2>2
  <1>2. options.patterns \o DefaultPatterns \in Seq(X)
    BY <1>1
  <1>3. \A q \in Seq(X) : DOMAIN q \subseteq Nat \ {0}
    OBVIOUS
  <1>4. QED
    BY <1>1, <1>2, <1>3 DEF ResolvePatterns

LEMMA UnmatchedPasses ==
  ASSUME NEW patterns, DOMAIN patterns \subseteq Nat \ {0}, NEW last, NEW content,
         MatchedIndex(patterns, last, content) = 0
  PROVE  Unmatched(patterns, content)
  <1> DEFINE hits == {i \in DOMAIN patterns : Tests(patterns[i], last[i], content)}
  <1>1. hits # {} => Min(hits) \in hits
    <2>1. hits \in SUBSET Nat
      OBVIOUS
    <2> HIDE DEF hits
    <2>2. QED
      BY <2>1, LeastNumber DEF Min
  <1>2. hits = {}
    <2>1. hits # {} => Min(hits) # 0
      BY <1>1
    <2>2. QED
      BY <2>1 DEF MatchedIndex
  <1>3. QED
    BY <1>2 DEF Tests, Unmatched

LEMMA FilterResult ==
  ASSUME NEW X, NEW items \in Seq(X), NEW contents, NEW options, NEW lasts,
         options.patterns \in Seq(ToSet(options.patterns)), options.enabled
  PROVE  KeptOf(FilterMetaFacts(items, contents, options, lasts).kept, items, contents,
                ResolvePatterns(options))
  <1> DEFINE P == ResolvePatterns(options)
  <1>1. PICK h : FilterHistory(h, items, contents, P, lasts,
                              FilterMetaFacts(items, contents, options, lasts))
    BY FilterSteps
  <1>2. KeptOf(h[0].kept, items, contents, P)
    BY <1>1 DEF FilterHistory, KeptOf
  <1>3. ASSUME NEW n \in Nat, n + 1 <= Len(items), KeptOf(h[n].kept, items, contents, P)
        PROVE  KeptOf(h[n + 1].kept, items, contents, P)
    <2> DEFINE m == n + 1
    <2>1. m \in 1..Len(items) /\ m - 1 = n /\ m \in DOMAIN items
      BY <1>3
    <2>2. h[m] = FilterStep(P, h[n], items[m], contents[m]) /\ h[n].kept \in Seq(ToSet(items))
      BY <1>1, <2>1 DEF FilterHistory
    <2> HIDE DEF m, P
    <2>3. CASE MatchedIndex(P, h[n].last, contents[m]) = 0
      <3>1. h[m].kept = Append(h[n].kept, items[m])
        BY <2>2, <2>3 DEF FilterStep
      <3>2. items[m] \in ToSet(items)
        BY <2>1 DEF ToSet
      <3>3. \A i \in DOMAIN h[m].kept :
               (i \in DOMAIN h[n].kept /\ h[m].kept[i] = h[n].kept[i]) \/ h[m].kept[i] = items[m]
        BY <2>2, <3>1, <3>2
      <3>4. Unmatched(P, contents[m])
        BY <2>3, UnmatchedPasses, PatternsAreListed DEF P
      <3>5. QED
        BY <1>3, <2>1, <3>3, <3>4 DEF KeptOf, m
    <2>4. CASE MatchedIndex(P, h[n].last, contents[m]) # 0
      <3>1. h[m].kept = h[n].kept
        BY <2>2, <2>4 DEF FilterStep
      <3>2. QED
        BY <1>3, <3>1 DEF m
    <2>5. QED
      BY <2>3, <2>4
  <1> DEFINE U == {n \in Nat : n <= Len(items) => KeptOf(h[n].kept, items, contents, P)}
  <1> HIDE DEF P
  <1>4. 0 \in U /\ \A n \in Nat : n \in U => n + 1 \in U
    BY <1>2, <1>3
  <1> HIDE DEF U
  <1>5. Nat \subseteq U
    BY <1>4, AllNumbers
  <1>6. KeptOf(h[Len(items)].kept, items, contents, P)
    BY <1>5 DEF U
  <1>7. QED
    BY <1>1, <1>6 DEF FilterHistory, P

LEMMA FilterLast ==
  ASSUME NEW X, NEW items \in Seq(X), NEW contents, NEW options, NEW lasts, options.enabled,
         DOMAIN lasts = DOMAIN ResolvePatterns(options)
  PROVE  DOMAIN FilterMetaFacts(items, contents, options, lasts).last
             = DOMAIN ResolvePatterns(options)
  <1> DEFINE P == ResolvePatterns(options)
  <1>1. PICK h : FilterHistory(h, items, contents, P, lasts,
                              FilterMetaFacts(items, contents, options, lasts))
    BY FilterSteps
  <1>2. Len(items) \in Nat
    OBVIOUS
  <1>3. CASE Len(items) = 0
    BY <1>1, <1>3 DEF FilterHistory
  <1>4. CASE Len(items) \in 1..Len(items)
    <2>1. PICK done, item, content : h[Len(items)] = FilterStep(P, done, item, content)
      BY <1>1, <1>4 DEF FilterHistory
    <2>2. h[Len(items)].last = LastIndexAfter(P, done.last, content)
      BY <2>1 DEF FilterStep
    <2> HIDE DEF P
    <2>3. DOMAIN LastIndexAfter(P, done.last, content) = DOMAIN P
      BY DEF LastIndexAfter
    <2>4. QED
      BY <1>1, <2>2, <2>3 DEF FilterHistory, P
  <1>5. QED
    BY <1>2, <1>3, <1>4

(* The filter keeps no more than it was given, and what the patterns       *)
(* remember stays 0 or 1.                                                  *)
FilterBounded(filtered, n, patterns) ==
    Len(filtered.kept) \in 0..n /\ filtered.last \in [DOMAIN patterns -> {0, 1}]

LEMMA RemembersBits ==
  ASSUME NEW patterns, NEW lasts \in [DOMAIN patterns -> {0, 1}], NEW content
  PROVE  LastIndexAfter(patterns, lasts, content) \in [DOMAIN patterns -> {0, 1}]
  <1>1. \A i \in DOMAIN patterns : lasts[i] \in {0, 1} /\ (IF patterns[i].global THEN 1 ELSE 0) \in {0, 1}
    OBVIOUS
  <1>2. QED
    BY <1>1 DEF LastIndexAfter

LEMMA FilterKeepsBounds ==
  ASSUME NEW X, NEW items \in Seq(X), NEW contents, NEW options, options.enabled,
         NEW lasts \in [DOMAIN ResolvePatterns(options) -> {0, 1}]
  PROVE  FilterBounded(FilterMetaFacts(items, contents, options, lasts), Len(items),
                       ResolvePatterns(options))
  <1> DEFINE P == ResolvePatterns(options)
  <1>1. PICK h : FilterHistory(h, items, contents, P, lasts,
                              FilterMetaFacts(items, contents, options, lasts))
    BY FilterSteps
  <1> HIDE DEF P
  <1>2. FilterBounded(h[0], 0, P)
    <2>1. h[0].kept = <<>> /\ h[0].last = lasts
      BY <1>1 DEF FilterHistory
    <2>2. QED
      BY <2>1 DEF FilterBounded, P
  <1>3. ASSUME NEW n \in Nat, n + 1 <= Len(items), FilterBounded(h[n], n, P)
        PROVE  FilterBounded(h[n + 1], n + 1, P)
    <2> DEFINE m == n + 1
    <2>1. m \in 1..Len(items) /\ m - 1 = n /\ m \in DOMAIN items /\ m \in Nat
      BY <1>3
    <2>2. h[m] = FilterStep(P, h[n], items[m], contents[m]) /\ h[n].kept \in Seq(ToSet(items))
      BY <1>1, <2>1 DEF FilterHistory
    <2>3. items[m] \in ToSet(items)
      BY <2>1 DEF ToSet
    <2>4. Len(h[n].kept) \in Nat /\ Len(Append(h[n].kept, items[m])) = Len(h[n].kept) + 1
      BY <2>2, <2>3
    <2>5. h[m].kept \in {h[n].kept, Append(h[n].kept, items[m])}
      BY <2>2 DEF FilterStep
    <2>6. Len(h[n].kept) \in 0..n
      BY <1>3 DEF FilterBounded
    <2>7. h[m].last \in [DOMAIN P -> {0, 1}]
      BY <1>3, <2>2, RemembersBits DEF FilterStep, FilterBounded
    <2>8. Len(h[m].kept) \in 0..m
      BY <2>4, <2>5, <2>6
    <2>9. QED
      BY <2>7, <2>8 DEF FilterBounded
  <1> DEFINE U == {n \in Nat : n <= Len(items) => FilterBounded(h[n], n, P)}
  <1>4. 0 \in U /\ \A n \in Nat : n \in U => n + 1 \in U
    BY <1>2, <1>3
  <1> HIDE DEF U
  <1>5. Nat \subseteq U
    BY <1>4, AllNumbers
  <1>6. FilterBounded(h[Len(items)], Len(items), P)
    BY <1>5 DEF U
  <1>7. QED
    BY <1>1, <1>6 DEF FilterHistory, P

-----------------------------------------------------------------------------
(* The memory calls.  A memory that is stored stays as it is, and one that *)
(* has gone does not come back.                                            *)
IsList(s) == s \in Seq(ToSet(s))

Keeps ==
    \A i \in DOMAIN rows :
        i \in DOMAIN rows' /\ rows'[i] = rows[i] /\ (i \in alive' => i \in alive)

RowsOK ==
    /\ IsList(rows)
    /\ alive \subseteq DOMAIN rows
    /\ \A i \in DOMAIN rows : rows[i].by \in 1..sentIngests

(* Requests to ingest have numbers of their own; one for n that extracts,  *)
(* or does not, is under way or was carried out, and that once.            *)
Begun(c) == call[c].phase # "none" /\ call[c].n # 0

NumbersOK ==
    /\ setup \in Setups /\ DOMAIN call = Callers
    /\ sentIngests \in 0..MaxIngests
    /\ \A c \in Callers : call[c].phase # "none" =>
          /\ IsAsk(provider, call[c].ask)
          /\ call[c].n \in 0..sentIngests
          /\ call[c].n # 0 => call[c].ask.op = "ingest" /\ Refusal(call[c].ask) = None
    /\ \A c, d \in Callers : Begun(c) /\ Begun(d) /\ c # d => call[c].n # call[d].n

Ingests(request, n, e) == request.op = "ingest" /\ request.n = n /\ request.mode = e

(* Nothing of the kind e will be done for n by a request left alone. *)
NoneLate(n, e) == \A request \in late : ~Ingests(request, n, e)

RanShape == ran = [n \in 1..MaxIngests |-> [e \in IngestModes |-> ran[n][e]]]

RunsOK ==
    /\ RanShape
    /\ \A n \in 1..MaxIngests, e \in IngestModes :
          /\ ran[n][e] \in {0, 1}
          /\ n > sentIngests => ran[n][e] = 0

LateOK ==
    \A request \in late :
        /\ request.op \in {"ingest", "delete"}
        /\ request.op = "ingest" =>
              /\ request.n \in 1..sentIngests /\ request.mode \in IngestModes
              /\ ran[request.n][request.mode] = 0
              /\ \A other \in late :
                    Ingests(other, request.n, request.mode) => other = request
              /\ provider = "mem0" /\ setup.defer /\ ~setup.queues /\ request.mode = "facts" =>
                    ran[request.n]["input"] = 1

(* The answer says that an ingest was carried out. *)
TellsDone(answer) ==
    ThrowForStatus(answer) = None /\ answer.body # Garbled /\ answer # Failure

CallOK(c) ==
    LET ask == call[c].ask
        n   == call[c].n
    IN  /\ call[c].phase \in {"none", "sent", "served", "done"}
        /\ call[c].phase = "sent" =>
              /\ call[c].request = Request(ask, n)
              /\ ask.op = "ingest" =>
                    n # 0 /\ ran[n][Mode(ask)] = 0 /\ NoneLate(n, Mode(ask))
        /\ call[c].phase = "served" /\ ask.op = "ingest" =>
              n # 0 /\ (TellsDone(call[c].answer) /\ ~Queues => ran[n][Mode(ask)] = 1)
        /\ Begun(c) /\ ~Extracts(ask) /\ (ShouldDefer(ask) => InFlight(c)) =>
              ran[n]["facts"] = 0 /\ NoneLate(n, "facts")
        /\ call[c].phase = "done" /\ call[c].result.cursor # None => ask.op = "list"
        /\ Resolved(c) /\ ask.op = "ingest" => n # 0 /\ (~Queues => ran[n][Mode(ask)] = 1)

DeferredOK ==
    provider = "mem0" /\ setup.defer /\ ~setup.queues =>
        \A n \in 1..MaxIngests : ran[n]["facts"] = 1 => ran[n]["input"] = 1

(* What n has stored without extraction is one memory. *)
RowsOf(n) == {i \in DOMAIN rows : rows[i].by = n}

OneRow ==
    \A n \in 1..MaxIngests : ran[n]["facts"] = 0 =>
        /\ ran[n]["input"] = 0 => RowsOf(n) = {}
        /\ ran[n]["input"] = 1 => \E i \in DOMAIN rows : RowsOf(n) = {i}

(* What a delete that resolves, or will resolve, was to reach is not there. *)
Vanished(ask) == ask.id \in DOMAIN rows /\ ~Reached(Request(ask, 0))

DeletedOK(c) ==
    LET ask    == call[c].ask
        answer == call[c].answer
    IN  call[c].phase # "none" /\ ask.op = "delete" =>
            /\ InFlight(c) => ask.id \in DOMAIN rows
            /\ call[c].phase = "served" =>
                  \/ answer.status \in {200, 404} /\ Vanished(ask)
                  \/ answer.status \in {429, 500} /\ answer.body # Quotes404
            /\ Resolved(c) => Vanished(ask)

CallsInv ==
    /\ RowsOK /\ NumbersOK /\ RunsOK /\ LateOK /\ DeferredOK /\ OneRow
    /\ \A c \in Callers : CallOK(c)
DeletesInv == \A c \in Callers : DeletedOK(c)

-----------------------------------------------------------------------------
(* What carrying a request out does to the memories. *)
Carries(request) == \E effect \in Effects(request) : Leaves(effect)

Grown(t, s, k, x) ==
    /\ IsList(t) /\ DOMAIN t = 1..(Len(s) + k)
    /\ \A i \in 1..Len(s) : t[i] = s[i]
    /\ \A i \in Len(s) + 1 .. Len(s) + k : t[i] = x

LEMMA GrownBy ==
  ASSUME NEW s, IsList(s), NEW k \in Nat, NEW x
  PROVE  Grown(s \o [i \in 1..k |-> x], s, k, x)
  <1> DEFINE X == ToSet(s) \cup {x}
             e == [i \in 1..k |-> x]
             t == s \o e
  <1>1. s \in Seq(X) /\ e \in Seq(X) /\ Len(e) = k
    BY DEF IsList
  <1>2. /\ t \in Seq(X) /\ Len(t) = Len(s) + k
        /\ \A i \in 1..Len(s) : t[i] = s[i]
        /\ \A i \in 1..Len(e) : t[Len(s) + i] = e[i]
    <2> HIDE DEF X, e
    <2>1. /\ s \o e \in Seq(X) /\ Len(s \o e) = Len(s) + Len(e)
          /\ \A i \in 1..Len(s) : (s \o e)[i] = s[i]
          /\ \A i \in 1..Len(e) : (s \o e)[Len(s) + i] = e[i]
      BY <1>1
    <2>2. QED
      BY <1>1, <2>1
  <1>3. Len(s) \in Nat /\ DOMAIN t = 1..(Len(s) + k)
    BY <1>1, <1>2
  <1>4. ASSUME NEW i \in Len(s) + 1 .. Len(s) + k PROVE t[i] = x
    <2>1. i - Len(s) \in 1..k /\ Len(s) + (i - Len(s)) = i
      BY <1>3
    <2>2. e[i - Len(s)] = x
      BY <2>1
    <2> HIDE DEF e, t
    <2>3. QED
      BY <1>1, <1>2, <2>1, <2>2
  <1>5. IsList(t)
    <2> HIDE DEF t
    <2>1. QED
      BY <1>2 DEF IsList, ToSet
  <1>6. QED
    BY <1>2, <1>3, <1>4, <1>5 DEF Grown

Stores(request, effect) ==
    \E k \in {0, 1, 2}, namespace \in NamespacesOf(request) :
        /\ effect = Stored(request, k, namespace)
        /\ request.mode # "facts" => k = 1

LEMMA EffectsOfIngests ==
  ASSUME NEW request, request.op = "ingest", NEW effect \in Effects(request)
  PROVE  Stores(request, effect)
  <1>1. effect \in {Stored(request, k, namespace) :
                  k \in {j \in (IF request.mode = "facts" THEN {0, 2} ELSE {1}) :
                            Len(rows) + j <= MaxRows},
                  namespace \in NamespacesOf(request)}
    BY DEF Effects
  <1>2. QED
    BY <1>1 DEF Stores

LeavesRows(request, effect) ==
    /\ effect.rows = rows /\ effect.alive \subseteq alive
    /\ request.op = "delete" =>
          \/ effect.answer.status = 404 /\ effect.alive = alive /\ ~Reached(request)
          \/ effect.answer.status = 200 /\ effect.alive = alive \ {request.id}

LEMMA EffectsOfOthers ==
  ASSUME NEW request, request.op # "ingest", NEW effect \in Effects(request)
  PROVE  LeavesRows(request, effect)
  <1>1. \/ effect = Effect(rows, alive, [status |-> 404, body |-> None])
             /\ (request.op = "delete" => ~Reached(request))
        \/ effect = Effect(rows, alive \ {request.id}, Ok(Body))
        \/ request.op # "delete" /\ \E answer : effect = Effect(rows, alive, answer)
    <2>1. CASE request.op \in {"get", "delete"} /\ ~Reached(request)
      BY <2>1 DEF Effects
    <2>2. CASE request.op = "delete" /\ Reached(request)
      BY <2>2 DEF Effects
    <2>3. CASE request.op = "expand" \/ (request.op = "get" /\ Reached(request))
      BY <2>3 DEF Effects
    <2>4. CASE request.op \notin {"get", "expand", "delete"}
      BY <2>4 DEF Effects
    <2>5. QED
      BY <2>1, <2>2, <2>3, <2>4
  <1>2. QED
    BY <1>1 DEF LeavesRows, Effect, Ok

Added(request) ==
    \E k \in {0, 1, 2} :
        /\ request.mode # "facts" => k = 1
        /\ DOMAIN rows' = 1..(Len(rows) + k)
        /\ alive' = alive \cup (Len(rows) + 1 .. Len(rows) + k)
        /\ \A i \in Len(rows) + 1 .. Len(rows) + k : rows'[i].by = request.n

MemoriesAfter(request) ==
    /\ Keeps /\ IsList(rows') /\ alive' \subseteq DOMAIN rows'
    /\ request.op = "ingest" => Added(request)
    /\ request.op # "ingest" => rows' = rows

LEMMA CarriedOut ==
  ASSUME RowsOK, NEW request, Carries(request)
  PROVE  MemoriesAfter(request)
  <1>1. PICK effect \in Effects(request) : Leaves(effect)
    BY DEF Carries
  <1>2. rows' = effect.rows /\ alive' = effect.alive
    BY <1>1 DEF Leaves
  <1>3. Len(rows) \in Nat /\ DOMAIN rows = 1..Len(rows)
    BY DEF RowsOK, IsList
  <1>4. CASE request.op = "ingest"
    <2>1. PICK k \in {0, 1, 2}, namespace \in NamespacesOf(request) :
              /\ effect = Stored(request, k, namespace)
              /\ request.mode # "facts" => k = 1
      BY <1>4, EffectsOfIngests DEF Stores
    <2> DEFINE row == NewRow(request, namespace)
    <2>2. /\ rows' = rows \o [i \in 1..k |-> row]
          /\ alive' = alive \cup (Len(rows) + 1 .. Len(rows) + k)
      BY <1>2, <2>1 DEF Stored, Effect
    <2>3. row.by = request.n
      BY DEF NewRow
    <2> HIDE DEF row
    <2>4. Grown(rows', rows, k, row)
      BY <2>2, GrownBy DEF RowsOK
    <2>5. Added(request)
      BY <2>1, <2>2, <2>3, <2>4 DEF Added, Grown
    <2>6. Keeps /\ IsList(rows') /\ alive' \subseteq DOMAIN rows'
      BY <1>3, <2>2, <2>4 DEF Keeps, Grown, RowsOK
    <2>7. QED
      BY <1>4, <2>5, <2>6 DEF MemoriesAfter
  <1>5. CASE request.op # "ingest"
    <2>1. effect.rows = rows /\ effect.alive \subseteq alive
      BY <1>5, EffectsOfOthers DEF LeavesRows
    <2>2. QED
      BY <1>2, <1>5, <2>1 DEF MemoriesAfter, Keeps, RowsOK
  <1>6. QED
    BY <1>4, <1>5

-----------------------------------------------------------------------------
(* Carrying an ingest out, and the numbers. *)
RanOnce(request) ==
    \A n \in 1..MaxIngests, e \in IngestModes :
        ran'[n][e] = IF request.op = "ingest" /\ n = request.n /\ e = request.mode
                     THEN 1 ELSE ran[n][e]

Fresh(request) ==
    request.op = "ingest" =>
        /\ request.n \in 1..sentIngests /\ request.mode \in IngestModes
        /\ ran[request.n][request.mode] = 0

LEMMA CountsOnce ==
  ASSUME RunsOK, sentIngests \in 0..MaxIngests, NEW request, Fresh(request), Counts(request)
  PROVE  RanOnce(request) /\ RanShape'
  <1>0. MaxIngests \in Nat
    BY CallsAssumption
  <1>1. CASE request.op = "ingest"
    <2>1. ran' = [ran EXCEPT ![request.n][request.mode] = @ + 1]
      BY <1>1 DEF Counts
    <2>2. /\ request.n \in 1..MaxIngests /\ request.mode \in IngestModes
          /\ ran[request.n][request.mode] = 0
      BY <1>0, <1>1 DEF Fresh
    <2>3. DOMAIN ran = 1..MaxIngests /\ \A n \in 1..MaxIngests : DOMAIN ran[n] = IngestModes
      BY DEF RunsOK, RanShape
    <2>4. ASSUME NEW n \in 1..MaxIngests, NEW e \in IngestModes
          PROVE  ran'[n][e] = IF n = request.n /\ e = request.mode THEN 1 ELSE ran[n][e]
      BY <2>1, <2>2, <2>3
    <2>5. RanShape'
      <3> DEFINE F(n) == [e \in IngestModes |-> ran'[n][e]]
      <3>1. /\ ran' = [n \in 1..MaxIngests |-> ran'[n]]
            /\ \A n \in 1..MaxIngests :
                  ran'[n] = IF n = request.n THEN [ran[n] EXCEPT ![request.mode] = @ + 1]
                                             ELSE ran[n]
        BY <2>1, <2>2, <2>3
      <3>2. \A n \in 1..MaxIngests : ran'[n] = F(n)
        BY <3>1, <2>2 DEF RunsOK, RanShape
      <3> HIDE DEF F
      <3>3. ran' = [n \in 1..MaxIngests |-> F(n)]
        BY <3>1, <3>2
      <3>4. QED
        BY <3>3 DEF F, RanShape
    <2>6. QED
      BY <1>1, <2>4, <2>5 DEF RanOnce
  <1>2. CASE request.op # "ingest"
    BY <1>2 DEF Counts, RanOnce, RunsOK, RanShape
  <1>3. QED
    BY <1>1, <1>2

LEMMA RowsStep ==
  ASSUME RowsOK, RunsOK, OneRow, sentIngests \in 0..MaxIngests, sentIngests' = sentIngests,
         NEW request, Fresh(request), Carries(request), Counts(request)
  PROVE  RowsOK' /\ RunsOK' /\ OneRow'
  <1>0. MaxIngests \in Nat /\ RanOnce(request) /\ RanShape'
    BY CallsAssumption, CountsOnce
  <1>1. MemoriesAfter(request)
    BY CarriedOut
  <1>2. Len(rows) \in Nat /\ DOMAIN rows = 1..Len(rows)
    BY DEF RowsOK, IsList
  <1>3. RunsOK'
    <2>1. ASSUME NEW n \in 1..MaxIngests, NEW e \in IngestModes
          PROVE  ran'[n][e] \in {0, 1} /\ (n > sentIngests => ran'[n][e] = 0)
      <3>1. ran[n][e] \in {0, 1} /\ (n > sentIngests => ran[n][e] = 0)
        BY DEF RunsOK
      <3>2. ran'[n][e] = IF request.op = "ingest" /\ n = request.n /\ e = request.mode
                         THEN 1 ELSE ran[n][e]
        BY <1>0 DEF RanOnce
      <3>3. request.op = "ingest" /\ n = request.n => n <= sentIngests
        BY DEF Fresh
      <3>4. QED
        BY <3>1, <3>2, <3>3
    <2>2. QED
      BY <1>0, <2>1 DEF RunsOK
  <1>4. CASE request.op # "ingest"
    <2>1. rows' = rows /\ alive' \subseteq DOMAIN rows
      BY <1>1, <1>4 DEF MemoriesAfter
    <2>2. RowsOK'
      BY <2>1 DEF RowsOK
    <2>3. \A n \in 1..MaxIngests, e \in IngestModes : ran'[n][e] = ran[n][e]
      BY <1>0, <1>4 DEF RanOnce
    <2>4. \A n : RowsOf(n)' = RowsOf(n)
      BY <2>1 DEF RowsOf
    <2>5. OneRow'
      BY <2>1, <2>3, <2>4 DEF OneRow, IngestModes
    <2>6. QED
      BY <1>3, <2>2, <2>5
  <1>5. CASE request.op = "ingest"
    <2>1. PICK k \in {0, 1, 2} :
            /\ request.mode # "facts" => k = 1
            /\ DOMAIN rows' = 1..(Len(rows) + k)
            /\ alive' = alive \cup (Len(rows) + 1 .. Len(rows) + k)
            /\ \A i \in Len(rows) + 1 .. Len(rows) + k : rows'[i].by = request.n
      BY <1>1, <1>5 DEF MemoriesAfter, Added
    <2>2. \A i \in 1..Len(rows) : rows'[i] = rows[i]
      BY <1>1, <1>2 DEF MemoriesAfter, Keeps
    <2>3. request.n \in 1..sentIngests /\ request.mode \in IngestModes
      BY <1>5 DEF Fresh
    <2>4. \A i \in DOMAIN rows' : i \in 1..Len(rows) \/ i \in Len(rows) + 1 .. Len(rows) + k
      BY <1>2, <2>1
    <2>5. RowsOK'
      <3>1. \A i \in DOMAIN rows' : rows'[i].by \in 1..sentIngests
        BY <1>2, <2>1, <2>2, <2>3, <2>4 DEF RowsOK
      <3>2. IsList(rows') /\ alive' \subseteq DOMAIN rows'
        BY <1>1 DEF MemoriesAfter
      <3>3. QED
        BY <3>1, <3>2 DEF RowsOK
    <2>6. ASSUME NEW n \in 1..MaxIngests, n # request.n
          PROVE  RowsOf(n)' = RowsOf(n) /\ ran'[n]["input"] = ran[n]["input"]
                   /\ ran'[n]["facts"] = ran[n]["facts"]
      <3>1. RowsOf(n)' = RowsOf(n)
        BY <1>2, <2>1, <2>2, <2>4, <2>6 DEF RowsOf
      <3>2. QED
        BY <1>0, <2>6, <3>1 DEF RanOnce, IngestModes
    <2>7. ASSUME ran'[request.n]["facts"] = 0
          PROVE  /\ ran'[request.n]["input"] = 1
                 /\ \E i \in DOMAIN rows' : RowsOf(request.n)' = {i}
      <3>1. request.n \in 1..MaxIngests
        BY <1>0, <2>3
      <3>2. request.mode = "input"
        BY <1>0, <1>5, <2>3, <2>7, <3>1 DEF RanOnce, IngestModes
      <3>3. /\ ran'[request.n]["input"] = 1 /\ ran[request.n]["input"] = 0
            /\ ran[request.n]["facts"] = 0
        BY <1>0, <1>5, <2>7, <3>1, <3>2 DEF RanOnce, Fresh, IngestModes
      <3>4. RowsOf(request.n) = {}
        BY <3>1, <3>3 DEF OneRow
      <3>5. RowsOf(request.n)' = {Len(rows) + 1} /\ Len(rows) + 1 \in DOMAIN rows'
        BY <1>2, <2>1, <2>2, <2>4, <3>2, <3>4 DEF RowsOf
      <3>6. QED
        BY <3>3, <3>5
    <2>8. OneRow'
      <3> SUFFICES ASSUME NEW n \in 1..MaxIngests, ran'[n]["facts"] = 0
                   PROVE  /\ ran'[n]["input"] = 0 => RowsOf(n)' = {}
                          /\ ran'[n]["input"] = 1 => \E i \in DOMAIN rows' : RowsOf(n)' = {i}
        BY DEF OneRow
      <3>1. CASE n = request.n
        <4> DEFINE m == request.n
        <4>1. ran'[m]["facts"] = 0
          BY <3>1
        <4>2. ran'[m]["input"] = 1 /\ \E i \in DOMAIN rows' : RowsOf(m)' = {i}
          BY <2>7, <4>1
        <4>3. n = m
          BY <3>1
        <4> HIDE DEF m
        <4>4. QED
          BY <4>2, <4>3 DEF RowsOf
      <3>2. CASE n # request.n
        <4>1. RowsOf(n)' = RowsOf(n) /\ ran'[n]["input"] = ran[n]["input"] /\ ran[n]["facts"] = 0
          BY <2>6, <3>2
        <4>2. \A i \in DOMAIN rows : i \in DOMAIN rows'
          BY <1>1 DEF MemoriesAfter, Keeps
        <4>3. QED
          BY <4>1, <4>2 DEF OneRow
      <3>3. QED
        BY <3>1, <3>2
    <2>9. QED
      BY <1>3, <2>5, <2>8
  <1>6. QED
    BY <1>4, <1>5

-----------------------------------------------------------------------------
(* What a step does to the numbers of others. *)
SameSetup == setup' = setup

Safe(n) ==
    \A e \in IngestModes :
        /\ ran[n][e] = 1 => ran'[n][e] = 1
        /\ ran[n][e] = 0 /\ NoneLate(n, e) => ran'[n][e] = 0 /\ NoneLate(n, e)'

SameCall(c) == call'[c] = call[c] /\ SameSetup

LEMMA SameWays ==
  ASSUME NEW c \in Callers, SameCall(c)
  PROVE  /\ Mode(call[c].ask)' = Mode(call[c].ask)
         /\ Extracts(call[c].ask)' = Extracts(call[c].ask)
         /\ ShouldDefer(call[c].ask)' = ShouldDefer(call[c].ask)
         /\ Request(call[c].ask, call[c].n)' = Request(call[c].ask, call[c].n)
         /\ InFlight(c)' = InFlight(c) /\ Begun(c)' = Begun(c) /\ Resolved(c)' = Resolved(c)
         /\ Queues' <=> Queues
  BY DEF SameCall, SameSetup, Queues, Mode, Extracts, ShouldDefer, ResolveInferFlag, Request, SentLimit,
         Skipped, Mem0Page, provider, InFlight, Begun, Resolved, Ended

LEMMA CallStays ==
  ASSUME NEW c \in Callers, CallOK(c), SameCall(c), Begun(c) => Safe(call[c].n)
  PROVE  CallOK(c)'
  <1>1. /\ Mode(call[c].ask)' = Mode(call[c].ask)
        /\ Extracts(call[c].ask)' = Extracts(call[c].ask)
        /\ ShouldDefer(call[c].ask)' = ShouldDefer(call[c].ask)
        /\ Request(call[c].ask, call[c].n)' = Request(call[c].ask, call[c].n)
        /\ InFlight(c)' = InFlight(c) /\ Begun(c)' = Begun(c) /\ Resolved(c)' = Resolved(c)
        /\ call'[c] = call[c] /\ (Queues' <=> Queues)
    BY SameWays DEF SameCall
  <1>2. Mode(call[c].ask) \in IngestModes /\ "facts" \in IngestModes
    BY DEF Mode, IngestModes
  <1>3. ASSUME Begun(c)
        PROVE  /\ ran[call[c].n][Mode(call[c].ask)] = 1 => ran'[call[c].n][Mode(call[c].ask)] = 1
               /\ ran[call[c].n][Mode(call[c].ask)] = 0 /\ NoneLate(call[c].n, Mode(call[c].ask))
                  => /\ ran'[call[c].n][Mode(call[c].ask)] = 0
                     /\ NoneLate(call[c].n, Mode(call[c].ask))'
               /\ ran[call[c].n]["facts"] = 0 /\ NoneLate(call[c].n, "facts")
                  => ran'[call[c].n]["facts"] = 0 /\ NoneLate(call[c].n, "facts")'
    BY <1>1, <1>2, <1>3 DEF Safe, NoneLate
  <1>4. /\ Begun(c) <=> call[c].phase # "none" /\ call[c].n # 0
        /\ Resolved(c) => call[c].phase = "done"
    BY DEF Begun, Resolved, Ended
  <1>5. QED
    BY <1>1, <1>3, <1>4 DEF CallOK

LEMMA OthersStay ==
  ASSUME CallsInv, SameSetup, \A n : Safe(n), NEW d \in Callers,
         \A c \in Callers \ {d} : call'[c] = call[c]
  PROVE  \A c \in Callers \ {d} : CallOK(c)'
  BY CallStays DEF CallsInv, SameCall

LEMMA NothingRan ==
  ASSUME ran' = ran, late' \subseteq late
  PROVE  \A n : Safe(n)
  BY DEF Safe, NoneLate

(* The memories, the runs and what is left alone stay as they are. *)
Still ==
    /\ rows' = rows /\ alive' = alive /\ ran' = ran /\ SameSetup

LEMMA StillOK ==
  ASSUME CallsInv, Still, late' \subseteq late, sentIngests' \in sentIngests..MaxIngests
  PROVE  /\ RowsOK' /\ RunsOK' /\ LateOK' /\ DeferredOK' /\ OneRow'
  <1>0. sentIngests \in 0..MaxIngests /\ MaxIngests \in Nat
    BY CallsAssumption DEF CallsInv, NumbersOK
  <1>1. RowsOK'
    <2>1. \A k \in 1..sentIngests : k \in 1..sentIngests'
      BY <1>0
    <2>2. QED
      BY <2>1 DEF CallsInv, RowsOK, Still
  <1>2. RunsOK'
    <2>1. \A n \in 1..MaxIngests : n > sentIngests' => n > sentIngests
      BY <1>0
    <2>2. QED
      BY <2>1 DEF CallsInv, RunsOK, RanShape, Still
  <1>3. LateOK'
    <2>1. \A k \in 1..sentIngests : k \in 1..sentIngests'
      BY <1>0
    <2>2. QED
      BY <2>1 DEF CallsInv, LateOK, Still, SameSetup, provider
  <1>4. DeferredOK' /\ OneRow'
    <2>1. DeferredOK'
      BY DEF CallsInv, DeferredOK, Still, SameSetup, provider
    <2>2. \A n : RowsOf(n)' = RowsOf(n)
      BY DEF RowsOf, Still
    <2>3. OneRow'
      BY <2>2 DEF CallsInv, OneRow, Still
    <2>4. QED
      BY <2>1, <2>3
  <1>5. QED
    BY <1>1, <1>2, <1>3, <1>4

MaySend(ask, n) ==
    /\ IsAsk(provider, ask)
    /\ \/ n = 0 /\ ask.op # "ingest"
       \/ /\ ask.op = "ingest" /\ n = sentIngests + 1 /\ n <= MaxIngests
          /\ Refusal(ask) = None

LEMMA SendOK ==
  ASSUME CallsInv, NEW c \in Callers, NEW ask, NEW n, NEW pages,
         Send(c, ask, n, pages), MaySend(ask, n)
  PROVE  CallsInv'
  <1> DEFINE u == [phase |-> "sent", ask |-> ask, n |-> n, request |-> Request(ask, n)]
  <1>0. /\ sentIngests \in 0..MaxIngests /\ MaxIngests \in Nat /\ DOMAIN call = Callers
        /\ Still /\ SameSetup /\ late' = late /\ sentIngests' = IF n = 0 THEN sentIngests ELSE n
        /\ call' = [call EXCEPT ![c] = u]
    BY CallsAssumption DEF CallsInv, NumbersOK, Send, Still, SameSetup
  <1>1. /\ call'[c] = u /\ DOMAIN call' = Callers
        /\ \A d \in Callers \ {c} : call'[d] = call[d]
    BY <1>0
  <1>2. u.phase = "sent" /\ u.ask = ask /\ u.n = n /\ u.request = Request(ask, n)
    OBVIOUS
  <1> HIDE DEF u
  <1>3. sentIngests' \in sentIngests..MaxIngests
    BY <1>0 DEF MaySend
  <1>4. RowsOK' /\ RunsOK' /\ LateOK' /\ DeferredOK' /\ OneRow'
    BY <1>0, <1>3, StillOK
  <1>5. provider' = provider
    BY <1>0 DEF SameSetup, provider
  <1>6. NumbersOK'
    <2>1. ASSUME NEW d \in Callers, call'[d].phase # "none"
          PROVE  /\ IsAsk(provider', call'[d].ask)
                 /\ call'[d].n \in 0..sentIngests'
                 /\ call'[d].n # 0 => call'[d].ask.op = "ingest" /\ (Refusal(call[d].ask) = None)'
      <3>1. CASE d = c
        <4>1. n \in 0..sentIngests' /\ (n # 0 => ask.op = "ingest" /\ Refusal(ask) = None)
          BY <1>0 DEF MaySend
        <4>2. (Refusal(call[d].ask) = None)' <=> Refusal(ask) = None
          BY <1>0, <1>1, <1>2, <3>1 DEF SameSetup, provider, Refusal, Unsupported,
             AssertListOptionsScopeCompat, AssertScopeAllowsVisibility
        <4>3. QED
          BY <1>1, <1>2, <1>5, <3>1, <4>1, <4>2 DEF MaySend
      <3>2. CASE d # c
        <4>1. /\ IsAsk(provider, call[d].ask) /\ call[d].n \in 0..sentIngests
              /\ call[d].n # 0 => call[d].ask.op = "ingest" /\ Refusal(call[d].ask) = None
              /\ call'[d] = call[d]
          BY <1>1, <2>1, <3>2 DEF CallsInv, NumbersOK
        <4>2. (Refusal(call[d].ask) = None)' <=> Refusal(call[d].ask) = None
          BY <1>0, <4>1 DEF SameSetup, provider, Refusal, Unsupported,
             AssertListOptionsScopeCompat, AssertScopeAllowsVisibility
        <4>3. QED
          BY <1>0, <1>3, <1>5, <4>1, <4>2
      <3>3. QED
        BY <3>1, <3>2
    <2>2. ASSUME NEW d \in Callers, NEW e \in Callers, Begun(d)', Begun(e)', d # e
          PROVE  call'[d].n # call'[e].n
      <3>1. \A x \in Callers \ {c} : Begun(x)' => Begun(x) /\ call'[x].n = call[x].n
                                        /\ call[x].n \in 0..sentIngests
        BY <1>1 DEF Begun, CallsInv, NumbersOK
      <3>2. Begun(c)' => call'[c].n = sentIngests + 1
        BY <1>1, <1>2 DEF Begun, MaySend
      <3>3. CASE d # c /\ e # c
        BY <2>2, <3>1, <3>3 DEF CallsInv, NumbersOK
      <3>4. CASE d = c
        BY <1>0, <2>2, <3>1, <3>2, <3>4
      <3>5. CASE e = c
        BY <1>0, <2>2, <3>1, <3>2, <3>5
      <3>6. QED
        BY <3>3, <3>4, <3>5
    <2>3. setup' \in Setups /\ sentIngests' \in 0..MaxIngests
      BY <1>0, <1>3 DEF SameSetup, CallsInv, NumbersOK
    <2>4. QED
      BY <1>1, <2>1, <2>2, <2>3 DEF NumbersOK
  <1>7. \A d \in Callers \ {c} : CallOK(d)'
    BY <1>0, <1>1, NothingRan, OthersStay DEF Still
  <1>8. CallOK(c)'
    <2>1. ASSUME ask.op = "ingest"
          PROVE  /\ n \in 1..MaxIngests
                 /\ \A e \in IngestModes : ran[n][e] = 0 /\ NoneLate(n, e)
      <3>1. n = sentIngests + 1 /\ n \in 1..MaxIngests
        BY <1>0, <2>1 DEF MaySend
      <3>2. \A e \in IngestModes : ran[n][e] = 0
        BY <1>0, <3>1 DEF CallsInv, RunsOK
      <3>3. \A request \in late : request.op = "ingest" => request.n # n
        BY <1>0, <3>1 DEF CallsInv, LateOK
      <3>4. QED
        BY <3>1, <3>2, <3>3 DEF NoneLate, Ingests
    <2>2. /\ Mode(call[c].ask)' = Mode(ask)
          /\ Request(call[c].ask, call[c].n)' = Request(ask, n)
          /\ call'[c].ask = ask /\ call'[c].n = n /\ call'[c].request = Request(ask, n)
          /\ call'[c].phase = "sent"
      BY <1>0, <1>1, <1>2 DEF SameSetup, Mode, Extracts, ShouldDefer, ResolveInferFlag, Request,
         SentLimit, Skipped, Mem0Page, provider
    <2>3. \A e : NoneLate(n, e)' = NoneLate(n, e)
      BY <1>0 DEF NoneLate
    <2>4. /\ NoneLate(call[c].n, Mode(call[c].ask))' <=> NoneLate(n, Mode(ask))
          /\ NoneLate(call[c].n, "facts")' <=> NoneLate(n, "facts")
      BY <1>0, <2>2 DEF NoneLate
    <2>5. ~Resolved(c)' /\ ran' = ran /\ (Begun(c)' <=> n # 0)
      BY <1>0, <2>2 DEF Resolved, Ended, Begun, Still
    <2>6. n # 0 => ask.op = "ingest"
      BY DEF MaySend
    <2>7. Mode(ask) \in IngestModes /\ "facts" \in IngestModes
      BY DEF Mode, IngestModes
    <2>8. ask.op = "ingest" => /\ n # 0 /\ ran[n][Mode(ask)] = 0 /\ NoneLate(n, Mode(ask))
                               /\ ran[n]["facts"] = 0 /\ NoneLate(n, "facts")
      BY <2>1, <2>7
    <2>9. QED
      BY <2>2, <2>4, <2>5, <2>6, <2>8 DEF CallOK
  <1>9. QED
    BY <1>4, <1>6, <1>7, <1>8 DEF CallsInv

(* The call of c is answered or ends, and u is what is left of it. *)
Turns(c, u) ==
    /\ call[c].phase # "none" /\ call' = [call EXCEPT ![c] = u]
    /\ u.phase \in {"served", "done"} /\ u.ask = call[c].ask /\ u.n = call[c].n
    /\ SameSetup /\ sentIngests' = sentIngests

LEMMA NumbersStay ==
  ASSUME NumbersOK, NEW c \in Callers, NEW u, Turns(c, u)
  PROVE  NumbersOK'
  <1>1. /\ \A d \in Callers : call[d].phase # "none" => call'[d].ask = call[d].ask
        /\ \A d \in Callers : call[d].phase # "none" => call'[d].n = call[d].n
        /\ \A d \in Callers : call'[d].phase # "none" => call[d].phase # "none"
        /\ DOMAIN call' = Callers
    BY DEF NumbersOK, Turns
  <1>2. setup' = setup /\ sentIngests' = sentIngests /\ provider' = provider
    BY DEF Turns, SameSetup, provider
  <1>3. ASSUME NEW d \in Callers, call'[d].phase # "none"
        PROVE  /\ IsAsk(provider', call'[d].ask)
               /\ call'[d].n \in 0..sentIngests'
               /\ call'[d].n # 0 => call'[d].ask.op = "ingest" /\ (Refusal(call[d].ask) = None)'
    <2>1. /\ IsAsk(provider, call[d].ask) /\ call[d].n \in 0..sentIngests
          /\ call[d].n # 0 => call[d].ask.op = "ingest" /\ Refusal(call[d].ask) = None
          /\ call'[d].ask = call[d].ask /\ call'[d].n = call[d].n
      BY <1>1, <1>3 DEF NumbersOK
    <2>2. (Refusal(call[d].ask) = None)' <=> Refusal(call[d].ask) = None
      BY <1>2, <2>1 DEF provider, Refusal, Unsupported,
         AssertListOptionsScopeCompat, AssertScopeAllowsVisibility
    <2>3. QED
      BY <1>2, <2>1, <2>2
  <1>4. \A d \in Callers : Begun(d)' => Begun(d) /\ call'[d].n = call[d].n
    BY <1>1 DEF Begun
  <1>5. \A d, e \in Callers : Begun(d)' /\ Begun(e)' /\ d # e => call'[d].n # call'[e].n
    BY <1>4 DEF NumbersOK
  <1>6. QED
    BY <1>1, <1>2, <1>3, <1>5 DEF NumbersOK

(* What u has to say of the call of c. *)
EndsWell(c, u) ==
    /\ u.phase = "served" /\ u.ask.op = "ingest" =>
          u.n # 0 /\ (TellsDone(u.answer) /\ ~Queues => ran'[u.n][Mode(u.ask)] = 1)
    /\ Begun(c) /\ ~Extracts(u.ask) /\ (ShouldDefer(u.ask) => u.phase = "served") =>
          /\ ran'[u.n]["facts"] = 0
          /\ \A request \in late' : ~Ingests(request, u.n, "facts")
    /\ u.phase = "done" /\ u.result.cursor # None => u.ask.op = "list"
    /\ u.phase = "done" /\ u.result.error = None /\ u.ask.op = "ingest" =>
          u.n # 0 /\ (~Queues => ran'[u.n][Mode(u.ask)] = 1)

LEMMA TurnsOK ==
  ASSUME NumbersOK, NEW c \in Callers, NEW u, Turns(c, u), EndsWell(c, u)
  PROVE  CallOK(c)'
  <1>1. call'[c] = u /\ SameSetup
    BY DEF NumbersOK, Turns
  <1>2. /\ Mode(call[c].ask)' = Mode(u.ask)
        /\ Extracts(call[c].ask)' = Extracts(u.ask)
        /\ ShouldDefer(call[c].ask)' = ShouldDefer(u.ask)
        /\ Queues' <=> Queues
    BY <1>1 DEF SameSetup, Mode, Extracts, ShouldDefer, ResolveInferFlag, Queues, provider
  <1>3. /\ InFlight(c)' => u.phase = "served"
        /\ Begun(c)' => Begun(c)
        /\ Resolved(c)' => u.phase = "done" /\ u.result.error = None
        /\ u.phase \in {"served", "done"}
    BY <1>1 DEF InFlight, Begun, Resolved, Ended, Turns
  <1>4. NoneLate(call[c].n, "facts")' <=> \A request \in late' : ~Ingests(request, u.n, "facts")
    BY <1>1 DEF NoneLate, Ingests
  <1>5. QED
    BY <1>1, <1>2, <1>3, <1>4 DEF CallOK, EndsWell

LEMMA RefuseOK ==
  ASSUME CallsInv, NEW c \in Callers, NEW ask, IsAsk(provider, ask), Refuse(c, ask)
  PROVE  CallsInv'
  <1> DEFINE r == [Nothing EXCEPT !.error = Refusal(ask)]
             u == Done(ask, 0, r)
  <1>0. /\ sentIngests \in 0..MaxIngests /\ MaxIngests \in Nat /\ DOMAIN call = Callers
        /\ Still /\ SameSetup /\ late' = late /\ sentIngests' = sentIngests
        /\ call' = [call EXCEPT ![c] = u] /\ Refusal(ask) # None
    BY CallsAssumption DEF CallsInv, NumbersOK, Refuse, Still, SameSetup
  <1>1. /\ call'[c] = u /\ DOMAIN call' = Callers
        /\ \A d \in Callers \ {c} : call'[d] = call[d]
    BY <1>0
  <1>2. /\ u.phase = "done" /\ u.ask = ask /\ u.n = 0
        /\ u.result.error # None /\ u.result.cursor = None
    BY <1>0 DEF Done, Nothing
  <1> HIDE DEF u
  <1>3. sentIngests' \in sentIngests..MaxIngests
    BY <1>0
  <1>4. RowsOK' /\ RunsOK' /\ LateOK' /\ DeferredOK' /\ OneRow'
    BY <1>0, <1>3, StillOK
  <1>5. NumbersOK'
    <2>1. ASSUME NEW d \in Callers, call'[d].phase # "none"
          PROVE  /\ IsAsk(provider', call'[d].ask)
                 /\ call'[d].n \in 0..sentIngests'
                 /\ call'[d].n # 0 => call'[d].ask.op = "ingest" /\ (Refusal(call[d].ask) = None)'
      <3>1. CASE d = c
        BY <1>0, <1>1, <1>2, <3>1 DEF SameSetup, provider
      <3>2. CASE d # c
        <4>1. /\ IsAsk(provider, call[d].ask) /\ call[d].n \in 0..sentIngests
              /\ call[d].n # 0 => call[d].ask.op = "ingest" /\ Refusal(call[d].ask) = None
              /\ call'[d] = call[d]
          BY <1>1, <2>1, <3>2 DEF CallsInv, NumbersOK
        <4>2. (Refusal(call[d].ask) = None)' <=> Refusal(call[d].ask) = None
          BY <1>0, <4>1 DEF SameSetup, provider, Refusal, Unsupported,
             AssertListOptionsScopeCompat, AssertScopeAllowsVisibility
        <4>3. QED
          BY <1>0, <4>1, <4>2 DEF SameSetup, provider
      <3>3. QED
        BY <3>1, <3>2
    <2>2. \A d \in Callers : Begun(d)' => Begun(d) /\ call'[d].n = call[d].n
      BY <1>1, <1>2 DEF Begun
    <2>3. \A d, e \in Callers : Begun(d)' /\ Begun(e)' /\ d # e => call'[d].n # call'[e].n
      BY <2>2 DEF CallsInv, NumbersOK
    <2>4. QED
      BY <1>0, <1>1, <2>1, <2>3 DEF NumbersOK, CallsInv, SameSetup
  <1>6. \A d \in Callers \ {c} : CallOK(d)'
    BY <1>0, <1>1, NothingRan, OthersStay DEF Still
  <1>7. CallOK(c)'
    <2>1. ~Begun(c)' /\ ~Resolved(c)'
      BY <1>1, <1>2 DEF Begun, Resolved, Ended
    <2>2. QED
      BY <1>1, <1>2, <2>1 DEF CallOK
  <1>8. QED
    BY <1>4, <1>5, <1>6, <1>7 DEF CallsInv

LEMMA RequestFields ==
  ASSUME NEW ask, NEW n
  PROVE  /\ Request(ask, n).op = ask.op /\ Request(ask, n).n = n /\ Request(ask, n).id = ask.id
         /\ Request(ask, n).mode = Mode(ask) /\ Request(ask, n).mode \in IngestModes
         /\ Request(ask, n).filters = Forwarded(provider, ask.op, ask.scope)
         /\ \A m : [Request(ask, n) EXCEPT !.mode = m].op = ask.op
         /\ \A m : [Request(ask, n) EXCEPT !.mode = m].n = n
         /\ \A m : [Request(ask, n) EXCEPT !.mode = m].mode = m
  BY DEF Request, Mode, IngestModes

(* Whoever runs it, a request that is fresh runs safely for the others. *)
LEMMA RanSafely ==
  ASSUME RunsOK, sentIngests \in 0..MaxIngests, NEW request, Fresh(request), RanOnce(request),
         late' \subseteq late, NEW n \in 1..MaxIngests,
         \A e \in IngestModes : Ingests(request, n, e) => ~NoneLate(n, e)
  PROVE  Safe(n)
  <1>1. \A e \in IngestModes : NoneLate(n, e) => NoneLate(n, e)'
    BY DEF NoneLate
  <1>2. \A e \in IngestModes : ran'[n][e] = IF Ingests(request, n, e) THEN 1 ELSE ran[n][e]
    BY DEF RanOnce, Ingests
  <1>3. QED
    BY <1>1, <1>2 DEF Safe

LEMMA DeferredStays ==
  ASSUME RunsOK, DeferredOK, SameSetup, NEW request, RanOnce(request), Fresh(request),
         provider = "mem0" /\ setup.defer /\ ~setup.queues /\ request.op = "ingest" /\ request.mode = "facts"
             => ran[request.n]["input"] = 1
  PROVE  DeferredOK'
  <1>1. \A n \in 1..MaxIngests :
          /\ ran'[n]["facts"] = (IF request.op = "ingest" /\ n = request.n /\ request.mode = "facts"
                                THEN 1 ELSE ran[n]["facts"])
          /\ ran'[n]["input"] = (IF request.op = "ingest" /\ n = request.n /\ request.mode = "input"
                                THEN 1 ELSE ran[n]["input"])
    BY DEF RanOnce, IngestModes
  <1>2. provider' = provider /\ setup' = setup
    BY DEF SameSetup, provider
  <1>3. QED
    BY <1>1, <1>2 DEF DeferredOK

(* Nothing is extracted at once where extraction is deferred. *)
LEMMA DeferredInput ==
  ASSUME NEW ask, provider = "mem0", setup.defer
  PROVE  Mode(ask) = "input"
  BY DEF Mode, Extracts, ShouldDefer

LEMMA ServeOK ==
  ASSUME CallsInv, NEW c \in Callers, Serve(c)
  PROVE  CallsInv'
  <1> DEFINE ask == call[c].ask
             n == call[c].n
  <1>1. PICK effect, answer : /\ effect \in Effects(call[c].request)
                             /\ Leaves(effect) /\ Answer(c, answer)
    BY DEF Serve
  <1> DEFINE u == [phase |-> "served", ask |-> ask, n |-> n, answer |-> answer]
  <1>2. /\ call[c].phase = "sent" /\ call' = [call EXCEPT ![c] = u] /\ DOMAIN call = Callers
        /\ SameSetup /\ late' = late /\ sentIngests' = sentIngests
        /\ Carries(call[c].request) /\ Counts(call[c].request)
    BY <1>1 DEF Serve, Answer, SameSetup, Carries, CallsInv, NumbersOK
  <1>3. sentIngests \in 0..MaxIngests /\ MaxIngests \in Nat
    BY CallsAssumption DEF CallsInv, NumbersOK
  <1>4. PICK request : request = call[c].request
    OBVIOUS
  <1>5. /\ request.op = ask.op /\ request.n = n /\ request.mode = Mode(ask)
        /\ request.mode \in IngestModes
    BY <1>2, <1>4, RequestFields DEF CallsInv, CallOK
  <1>6. n \in 0..sentIngests /\ (ask.op = "ingest" =>
            n # 0 /\ ran[n][Mode(ask)] = 0 /\ NoneLate(n, Mode(ask)))
    BY <1>2 DEF CallsInv, NumbersOK, CallOK
  <1>7. Fresh(request)
    BY <1>3, <1>5, <1>6 DEF Fresh
  <1>8. RanOnce(request)
    BY <1>2, <1>3, <1>4, <1>7, CountsOnce DEF CallsInv
  <1>9. RowsOK' /\ RunsOK' /\ OneRow'
    BY <1>2, <1>3, <1>4, <1>7, RowsStep DEF CallsInv
  <1>10. DeferredOK'
    <2>1. provider = "mem0" /\ setup.defer => request.mode = "input"
      BY <1>5, DeferredInput
    <2>2. QED
      BY <1>2, <1>7, <1>8, <2>1, DeferredStays DEF CallsInv
  <1>11. LateOK'
    <2>1. ASSUME NEW r \in late, r.op = "ingest"
          PROVE  /\ r.n \in 1..sentIngests /\ r.mode \in IngestModes /\ ran'[r.n][r.mode] = 0
                 /\ \A e \in IngestModes : ran[r.n][e] = 1 => ran'[r.n][e] = 1
      <3>1. r.n \in 1..sentIngests /\ r.mode \in IngestModes /\ ran[r.n][r.mode] = 0
        BY <2>1 DEF CallsInv, LateOK
      <3>2. ~(request.op = "ingest" /\ r.n = request.n /\ r.mode = request.mode)
        BY <1>5, <1>6, <2>1 DEF NoneLate, Ingests
      <3>3. \A e \in IngestModes : ran'[r.n][e] = IF request.op = "ingest" /\ r.n = request.n /\ e = request.mode
                     THEN 1 ELSE ran[r.n][e]
        BY <1>3, <1>8, <3>1 DEF RanOnce
      <3>4. QED
        BY <3>1, <3>2, <3>3
    <2>2. "input" \in IngestModes
      BY DEF IngestModes
    <2>3. QED
      BY <1>2, <2>1, <2>2 DEF CallsInv, LateOK, SameSetup, provider
  <1>12. Turns(c, u)
    BY <1>2 DEF Turns
  <1>13. NumbersOK'
    BY <1>12, NumbersStay DEF CallsInv
  <1>14. \A d \in Callers \ {c} : CallOK(d)'
    <2>1. ASSUME NEW d \in Callers \ {c} PROVE CallOK(d)'
      <3>1. call'[d] = call[d]
        BY <1>2
      <3>2. ASSUME Begun(d) PROVE Safe(call[d].n)
        <4>1. call[d].n \in 1..MaxIngests
          BY <1>3, <3>2 DEF CallsInv, NumbersOK, Begun
        <4>2. request.op = "ingest" => request.n # call[d].n
          BY <1>2, <1>5, <1>6, <3>2 DEF CallsInv, NumbersOK, Begun
        <4>3. QED
          BY <1>2, <1>3, <1>7, <1>8, <4>1, <4>2, RanSafely DEF CallsInv, Ingests
      <3>3. QED
        BY <1>2, <3>1, <3>2, CallStays DEF CallsInv, SameCall
    <2>2. QED
      BY <2>1
  <1>15. EndsWell(c, u)
    <2>1. u.phase = "served" /\ u.ask = ask /\ u.n = n
      OBVIOUS
    <2> HIDE DEF u
    <2>2. ask.op = "ingest" => n # 0 /\ ran'[n][Mode(ask)] = 1
      BY <1>3, <1>5, <1>6, <1>8 DEF RanOnce
    <2>3. ASSUME Begun(c), ~Extracts(ask)
          PROVE  /\ ran'[n]["facts"] = 0
                 /\ \A r \in late' : ~Ingests(r, n, "facts")
      <3>1. ran[n]["facts"] = 0 /\ NoneLate(n, "facts")
        BY <1>2, <2>3 DEF CallsInv, CallOK, InFlight
      <3>2. request.mode = "input" /\ n \in 1..MaxIngests
        BY <1>3, <1>5, <1>6, <2>3 DEF Mode, Begun
      <3>3. QED
        BY <1>2, <1>8, <3>1, <3>2 DEF RanOnce, NoneLate, IngestModes
    <2>4. QED
      BY <2>1, <2>2, <2>3 DEF EndsWell
  <1>16. CallOK(c)'
    BY <1>12, <1>15, TurnsOK DEF CallsInv
  <1>17. QED
    BY <1>9, <1>10, <1>11, <1>13, <1>14, <1>16 DEF CallsInv

(* A call that is answered or ends while nothing is carried out. *)
LEMMA QuietTurn ==
  ASSUME CallsInv, NEW c \in Callers, NEW u, Turns(c, u), EndsWell(c, u),
         rows' = rows, alive' = alive, ran' = ran, LateOK',
         \A d \in Callers \ {c} : Begun(d) => Safe(call[d].n)
  PROVE  CallsInv'
  <1>1. sentIngests \in 0..MaxIngests /\ MaxIngests \in Nat /\ SameSetup /\ sentIngests' = sentIngests
    BY CallsAssumption DEF CallsInv, NumbersOK, Turns
  <1>2. RowsOK' /\ RunsOK' /\ DeferredOK' /\ OneRow'
    <2>1. RowsOK' /\ RunsOK'
      BY <1>1 DEF CallsInv, RowsOK, RunsOK, RanShape
    <2>2. DeferredOK'
      BY <1>1 DEF CallsInv, DeferredOK, SameSetup, provider
    <2>3. \A n : RowsOf(n)' = RowsOf(n)
      BY DEF RowsOf
    <2>4. OneRow'
      BY <2>3 DEF CallsInv, OneRow
    <2>5. QED
      BY <2>1, <2>2, <2>4
  <1>3. NumbersOK' /\ CallOK(c)'
    BY NumbersStay, TurnsOK DEF CallsInv
  <1>4. ASSUME NEW d \in Callers \ {c} PROVE CallOK(d)'
    <2>1. call'[d] = call[d]
      BY DEF Turns, CallsInv, NumbersOK
    <2>2. QED
      BY <1>1, <2>1, CallStays DEF CallsInv, SameCall
  <1>5. QED
    BY <1>2, <1>3, <1>4 DEF CallsInv

LEMMA ErrorAnswers ==
  ASSUME NEW answer \in Errors
  PROVE  /\ ~TellsDone(answer)
         /\ answer.status = 200 \/ answer.status = 429 \/ answer.status = 500
  BY NoneAssumption DEF Errors, TellsDone, ThrowForStatus, Failure, Ok

LEMMA RejectOK ==
  ASSUME CallsInv, NEW c \in Callers, Reject(c)
  PROVE  CallsInv'
  <1> DEFINE ask == call[c].ask
             n == call[c].n
  <1>1. PICK answer \in Errors : Answer(c, answer)
    BY DEF Reject
  <1> DEFINE u == [phase |-> "served", ask |-> ask, n |-> n, answer |-> answer]
  <1>2. /\ call[c].phase = "sent" /\ call' = [call EXCEPT ![c] = u] /\ DOMAIN call = Callers
        /\ SameSetup /\ late' = late /\ sentIngests' = sentIngests
        /\ rows' = rows /\ alive' = alive /\ ran' = ran
    BY <1>1 DEF Reject, Answer, SameSetup, CallsInv, NumbersOK
  <1>3. Turns(c, u)
    BY <1>2 DEF Turns
  <1>4. u.phase = "served" /\ u.ask = ask /\ u.n = n /\ u.answer = answer
    OBVIOUS
  <1> HIDE DEF u
  <1>5. EndsWell(c, u)
    <2>1. ask.op = "ingest" => n # 0
      BY <1>2 DEF CallsInv, CallOK
    <2>2. Begun(c) /\ ~Extracts(ask) => ran[n]["facts"] = 0 /\ NoneLate(n, "facts")
      BY <1>2 DEF CallsInv, CallOK, InFlight
    <2>3. QED
      BY <1>2, <1>4, <2>1, <2>2, ErrorAnswers DEF EndsWell, NoneLate
  <1>6. LateOK'
    BY <1>2 DEF CallsInv, LateOK, SameSetup, provider
  <1>7. QED
    BY <1>2, <1>3, <1>5, <1>6, NothingRan, QuietTurn

(* A request of n left alone, when no other of its kind is. *)
LEMMA LateJoins ==
  ASSUME CallsInv, SameSetup, ran' = ran, sentIngests' = sentIngests,
         NEW q, late' \subseteq late \cup {q}, q.op \in {"ingest", "delete"},
         q.op = "ingest" =>
              /\ q.n \in 1..sentIngests /\ q.mode \in IngestModes
              /\ ran[q.n][q.mode] = 0 /\ NoneLate(q.n, q.mode)
              /\ provider = "mem0" /\ setup.defer /\ ~setup.queues /\ q.mode = "facts" => ran[q.n]["input"] = 1
  PROVE  /\ LateOK'
         /\ \A m : (q.op = "ingest" => m # q.n) => Safe(m)
  <1>1. provider' = provider /\ setup' = setup
    BY DEF SameSetup, provider
  <1>2. ASSUME NEW r \in late', r.op = "ingest"
        PROVE  /\ r.n \in 1..sentIngests /\ r.mode \in IngestModes /\ ran[r.n][r.mode] = 0
               /\ provider = "mem0" /\ setup.defer /\ ~setup.queues /\ r.mode = "facts" => ran[r.n]["input"] = 1
    BY <1>2 DEF CallsInv, LateOK
  <1>3. ASSUME NEW r \in late', r.op = "ingest", NEW other \in late',
               Ingests(other, r.n, r.mode)
        PROVE  other = r
    <2>1. CASE r \in late /\ other \in late
      BY <1>3, <2>1 DEF CallsInv, LateOK
    <2>2. CASE r = q /\ other \in late
      BY <1>3, <2>2 DEF NoneLate
    <2>3. CASE r \in late /\ other = q
      BY <1>3, <2>3 DEF NoneLate, Ingests
    <2>4. QED
      BY <2>1, <2>2, <2>3
  <1>4. \A r \in late' : r.op \in {"ingest", "delete"}
    BY DEF CallsInv, LateOK
  <1>5. LateOK'
    BY <1>1, <1>2, <1>3, <1>4 DEF LateOK
  <1>6. ASSUME NEW m, q.op = "ingest" => m # q.n PROVE Safe(m)
    <2>1. \A e : ~Ingests(q, m, e)
      BY <1>6 DEF Ingests
    <2>2. QED
      BY <2>1 DEF Safe, NoneLate
  <1>7. QED
    BY <1>5, <1>6

(* An ingest that is queued is answered and left to the backend. *)
LEMMA QueueTells ==
  ASSUME CallsInv, NEW c \in Callers, Queue(c)
  PROVE  \E u : /\ u.phase = "served" /\ u.ask = call[c].ask /\ u.n = call[c].n
                /\ u.ask.op = "ingest" /\ call' = [call EXCEPT ![c] = u]
                /\ u.answer.body = Garbled \/ u.answer.body.memories = <<>>
  <1>1. PICK answer : Answer(c, answer) /\ (answer = Queued \/ answer = Ok(Garbled))
    BY DEF Queue
  <1>2. answer.body = Garbled \/ answer.body.memories = <<>>
    BY <1>1 DEF Queued, Ok, Body
  <1> DEFINE u == [phase |-> "served", ask |-> call[c].ask, n |-> call[c].n, answer |-> answer]
  <1>3. call' = [call EXCEPT ![c] = u]
    BY <1>1 DEF Answer
  <1>4. u.phase = "served" /\ u.ask = call[c].ask /\ u.n = call[c].n /\ u.answer = answer
    OBVIOUS
  <1> HIDE DEF u
  <1>5. QED
    BY <1>2, <1>3, <1>4 DEF Queue

LEMMA QueueOK ==
  ASSUME CallsInv, NEW c \in Callers, Queue(c)
  PROVE  CallsInv'
  <1>1. PICK u : /\ u.phase = "served" /\ u.ask = call[c].ask /\ u.n = call[c].n
                 /\ u.ask.op = "ingest" /\ call' = [call EXCEPT ![c] = u]
    BY QueueTells
  <1>2. PICK ask, n, q : ask = call[c].ask /\ n = call[c].n /\ q = call[c].request
    OBVIOUS
  <1>3. /\ call[c].phase = "sent" /\ Queues /\ DOMAIN call = Callers
        /\ SameSetup /\ sentIngests' = sentIngests /\ late' = late \cup {q}
        /\ rows' = rows /\ alive' = alive /\ ran' = ran
    BY <1>2 DEF Queue, SameSetup, CallsInv, NumbersOK
  <1>4. Turns(c, u)
    BY <1>1, <1>3 DEF Turns
  <1>5. q.op = "ingest" /\ q.n = n /\ q.mode = Mode(ask) /\ q.mode \in IngestModes
    BY <1>1, <1>2, <1>3, RequestFields DEF CallsInv, CallOK
  <1>6. n # 0 /\ n \in 1..sentIngests /\ ran[n][Mode(ask)] = 0 /\ NoneLate(n, Mode(ask))
    BY <1>1, <1>2, <1>3, CallsAssumption DEF CallsInv, NumbersOK, CallOK
  <1>7. LateOK' /\ \A m : m # n => Safe(m)
    BY <1>3, <1>5, <1>6, LateJoins DEF Queues
  <1>8. \A d \in Callers \ {c} : Begun(d) => Safe(call[d].n)
    <2>1. \A d \in Callers \ {c} : Begun(d) => call[d].n # n
      BY <1>2, <1>3, <1>6 DEF CallsInv, NumbersOK, Begun
    <2>2. QED
      BY <1>7, <2>1
  <1>9. EndsWell(c, u)
    <2>1. Begun(c) /\ ~Extracts(ask) =>
              ran[n]["facts"] = 0 /\ \A r \in late' : ~Ingests(r, n, "facts")
      <3>1. Begun(c) /\ ~Extracts(ask) => ran[n]["facts"] = 0 /\ NoneLate(n, "facts")
        BY <1>2, <1>3 DEF CallsInv, CallOK, InFlight
      <3>2. ~Extracts(ask) => ~Ingests(q, n, "facts")
        BY <1>5 DEF Mode, Ingests
      <3>3. QED
        BY <1>3, <3>1, <3>2 DEF NoneLate
    <2>2. QED
      BY <1>1, <1>2, <1>3, <1>6, <2>1 DEF EndsWell
  <1>10. QED
    BY <1>3, <1>4, <1>7, <1>8, <1>9, QuietTurn

LEMMA TimeOutOK ==
  ASSUME CallsInv, NEW c \in Callers, TimeOut(c)
  PROVE  CallsInv'
  <1> DEFINE ask == call[c].ask
             n == call[c].n
             u == Done(ask, n, Rejected("Error"))
  <1>1. /\ InFlight(c) /\ call' = [call EXCEPT ![c] = u] /\ DOMAIN call = Callers
        /\ SameSetup /\ sentIngests' = sentIngests
        /\ rows' = rows /\ alive' = alive /\ ran' = ran
    BY DEF TimeOut, SameSetup, CallsInv, NumbersOK
  <1>2. u.phase = "done" /\ u.ask = ask /\ u.n = n
        /\ u.result.error # None /\ u.result.cursor = None
    BY NoneAssumption DEF Done, Rejected, Nothing, WrapError
  <1> HIDE DEF u
  <1>3. call[c].phase # "none" /\ Turns(c, u)
    BY <1>1, <1>2 DEF Turns, InFlight
  <1>4. n \in 0..sentIngests
    BY <1>3 DEF CallsInv, NumbersOK
  <1>5. late' = late \/ (call[c].phase = "sent" /\ ask.op \in {"ingest", "delete"}
                           /\ late' = late \cup {call[c].request})
    BY DEF TimeOut
  <1>6. /\ LateOK' /\ \A d \in Callers \ {c} : Begun(d) => Safe(call[d].n)
        /\ Begun(c) /\ ~Extracts(ask) /\ ~ShouldDefer(ask) =>
              \A r \in late' : ~Ingests(r, n, "facts")
    <2>1. CASE late' = late
      <3>1. LateOK'
        BY <1>1, <2>1 DEF CallsInv, LateOK, SameSetup, provider
      <3>2. Begun(c) /\ ~Extracts(ask) /\ ~ShouldDefer(ask) =>
              \A r \in late' : ~Ingests(r, n, "facts")
        BY <2>1 DEF CallsInv, CallOK, NoneLate
      <3>3. QED
        BY <1>1, <2>1, <3>1, <3>2, NothingRan
    <2>2. CASE /\ call[c].phase = "sent" /\ ask.op \in {"ingest", "delete"}
               /\ late' = late \cup {call[c].request}
      <3>1. PICK q : q = call[c].request
        OBVIOUS
      <3>2. /\ q.op = ask.op /\ q.n = n /\ q.mode = Mode(ask) /\ q.mode \in IngestModes
        BY <2>2, <3>1, RequestFields DEF CallsInv, CallOK
      <3>3. ask.op = "ingest" =>
                n # 0 /\ ran[n][Mode(ask)] = 0 /\ NoneLate(n, Mode(ask))
        BY <2>2 DEF CallsInv, CallOK
      <3>4. provider = "mem0" /\ setup.defer => q.mode = "input"
        BY <3>2, DeferredInput
      <3>5. sentIngests \in Nat
        BY CallsAssumption DEF CallsInv, NumbersOK
      <3>6. /\ LateOK' /\ \A m : (q.op = "ingest" => m # q.n) => Safe(m)
        BY <1>1, <1>4, <2>2, <3>1, <3>2, <3>3, <3>4, <3>5, LateJoins
      <3>7. \A d \in Callers \ {c} : Begun(d) /\ ask.op = "ingest" => call[d].n # n
        BY <1>3, <3>3 DEF CallsInv, NumbersOK, Begun
      <3>8. Begun(c) /\ ~Extracts(ask) /\ ~ShouldDefer(ask) =>
              \A r \in late' : ~Ingests(r, n, "facts")
        BY <2>2, <3>1, <3>2 DEF CallsInv, CallOK, NoneLate, Ingests, Mode
      <3>9. QED
        BY <3>2, <3>6, <3>7, <3>8
    <2>3. QED
      BY <1>5, <2>1, <2>2
  <1>7. EndsWell(c, u)
    <2>1. Begun(c) /\ ~Extracts(ask) /\ ~ShouldDefer(ask) => ran[n]["facts"] = 0
      BY DEF CallsInv, CallOK
    <2>2. QED
      BY <1>1, <1>2, <1>6, <2>1 DEF EndsWell
  <1>8. QED
    BY <1>1, <1>3, <1>6, <1>7, QuietTurn

LEMMA ResultOfIngest ==
  ASSUME NEW ask, NEW answer, ask.op = "ingest", Result(ask, answer).error = None
  PROVE  TellsDone(answer)
  <1> DEFINE fetched == FetchJson(answer)
  <1>1. Fetched(ask, answer) = fetched
    BY DEF Fetched
  <1>2. \A e : e \in ProviderErrors \cup {"Error"} => Rejected(e).error # None
    BY NoneAssumption DEF Rejected, Nothing, WrapError, ProviderErrors
  <1>3. fetched.error = None
    <2>1. fetched.error \in ProviderErrors \cup {"Error", None}
      BY NoneAssumption DEF FetchJson, Threw, Returned, ThrowForStatus, ProviderErrors
    <2>2. fetched.error # None => Result(ask, answer) = Rejected(fetched.error)
      BY <1>1 DEF Result
    <2> HIDE DEF fetched
    <2>3. QED
      BY <1>2, <2>1, <2>2
  <1>4. /\ ThrowForStatus(answer) = None /\ answer.body # Garbled /\ fetched.value = answer.body
    BY <1>3, NoneAssumption DEF FetchJson, Threw, Returned
  <1>5. answer # Failure
    <2>1. SUFFICES ASSUME answer = Failure PROVE FALSE
      OBVIOUS
    <2>2. fetched.value = Failure.body
      BY <1>4, <2>1
    <2>3. ~Failure.body.success
      BY DEF Failure, Ok, Body
    <2>4. BodyRefused(ask, fetched.value)
      BY <2>2, <2>3 DEF BodyRefused
    <2>5. Result(ask, answer) = Rejected("MemoryProviderError")
      <3> HIDE DEF fetched
      <3>1. QED
        BY <1>1, <1>3, <2>2, <2>4 DEF Result
    <2>6. QED
      BY <1>2, <2>5 DEF ProviderErrors
  <1>6. QED
    BY <1>4, <1>5 DEF TellsDone

LEMMA ResultCursor ==
  ASSUME NEW ask, NEW answer, Result(ask, answer).cursor # None
  PROVE  ask.op = "list"
  <1>1. \A e : Rejected(e).cursor = None
    BY DEF Rejected, Nothing
  <1>2. Nothing.cursor = None
    BY DEF Nothing
  <1>3. \A body : Read(ask, body).cursor = Cursor(ask, body)
    BY DEF Read
  <1>4. QED
    BY <1>1, <1>2, <1>3 DEF Result, Cursor

LEMMA ReceiveOK ==
  ASSUME CallsInv, NEW c \in Callers, Receive(c)
  PROVE  CallsInv'
  <1> DEFINE ask == call[c].ask
             n == call[c].n
             result == Result(ask, call[c].answer)
             u == Done(ask, n, result)
             defers == ask.op = "ingest" /\ ShouldDefer(ask) /\ result.error = None
  <1>1. /\ call[c].phase = "served" /\ call' = [call EXCEPT ![c] = u] /\ DOMAIN call = Callers
        /\ SameSetup /\ sentIngests' = sentIngests
        /\ rows' = rows /\ alive' = alive /\ ran' = ran
        /\ late' = IF defers THEN late \cup {[Request(ask, n) EXCEPT !.mode = "facts"]} ELSE late
    BY DEF Receive, SameSetup, CallsInv, NumbersOK
  <1>2. u.phase = "done" /\ u.ask = ask /\ u.n = n /\ u.result = result
    BY DEF Done
  <1>3. Turns(c, u)
    <2> HIDE DEF u
    <2>1. QED
      BY <1>1, <1>2 DEF Turns
  <1>4. result.cursor # None => ask.op = "list"
    BY ResultCursor
  <1>5. ask.op = "ingest" => n # 0 /\ n \in 1..sentIngests
    BY <1>1 DEF CallsInv, NumbersOK, CallOK
  <1>6. ask.op = "ingest" /\ result.error = None /\ ~Queues => ran[n][Mode(ask)] = 1
    BY <1>1, ResultOfIngest DEF CallsInv, CallOK
  <1> HIDE DEF u, result
  <1>7. Begun(c) /\ ~Extracts(ask) => ran[n]["facts"] = 0 /\ NoneLate(n, "facts")
    BY <1>1 DEF CallsInv, CallOK, InFlight
  <1>8. /\ LateOK' /\ \A d \in Callers \ {c} : Begun(d) => Safe(call[d].n)
    <2>1. CASE ~defers
      BY <1>1, <2>1, NothingRan DEF CallsInv, LateOK, SameSetup, provider
    <2>2. CASE defers
      <3>1. PICK q : q = [Request(ask, n) EXCEPT !.mode = "facts"]
        OBVIOUS
      <3>2. q.op = "ingest" /\ q.n = n /\ q.mode = "facts" /\ "facts" \in IngestModes
        BY <2>2, <3>1, RequestFields DEF IngestModes
      <3>3. ~Extracts(ask) /\ Mode(ask) = "input"
        BY <2>2 DEF Mode, Extracts, ShouldDefer
      <3>4. /\ ran[n]["facts"] = 0 /\ NoneLate(n, "facts")
            /\ ~setup.queues => ran[n]["input"] = 1
        BY <1>1, <1>5, <1>6, <1>7, <2>2, <3>3 DEF Begun, Queues
      <3>5. late' = late \cup {q}
        BY <1>1, <2>2, <3>1
      <3>6. /\ LateOK' /\ \A m : m # n => Safe(m)
        BY <1>1, <1>5, <2>2, <3>2, <3>4, <3>5, LateJoins
      <3>7. \A d \in Callers \ {c} : Begun(d) => call[d].n # n
        BY <1>1, <1>5, <2>2 DEF CallsInv, NumbersOK, Begun
      <3>8. QED
        BY <3>6, <3>7
    <2>3. QED
      BY <2>1, <2>2
  <1>9. EndsWell(c, u)
    <2>1. Begun(c) /\ ~Extracts(ask) /\ ~ShouldDefer(ask) =>
              ran[n]["facts"] = 0 /\ \A r \in late' : ~Ingests(r, n, "facts")
      BY <1>1, <1>7 DEF NoneLate
    <2>2. QED
      BY <1>1, <1>2, <1>4, <1>5, <1>6, <2>1 DEF EndsWell
  <1>10. QED
    BY <1>1, <1>3, <1>8, <1>9, QuietTurn

LEMMA ServeLateOK ==
  ASSUME CallsInv, ServeLate
  PROVE  CallsInv'
  <1>1. PICK request \in late :
            /\ Carries(request) /\ Counts(request) /\ late' = late \ {request}
    BY DEF ServeLate, Carries
  <1>2. /\ SameSetup /\ call' = call /\ sentIngests' = sentIngests /\ provider' = provider
        /\ sentIngests \in 0..MaxIngests /\ MaxIngests \in Nat
    BY CallsAssumption DEF ServeLate, SameSetup, provider, CallsInv, NumbersOK
  <1>3. Fresh(request)
    BY DEF CallsInv, LateOK, Fresh
  <1>4. RanOnce(request)
    BY <1>1, <1>2, <1>3, CountsOnce DEF CallsInv
  <1>5. RowsOK' /\ RunsOK' /\ OneRow'
    BY <1>1, <1>2, <1>3, RowsStep DEF CallsInv
  <1>6. DeferredOK'
    BY <1>2, <1>3, <1>4, DeferredStays DEF CallsInv, LateOK
  <1>7. LateOK'
    <2>1. ASSUME NEW r \in late', r.op = "ingest"
          PROVE  /\ r.n \in 1..sentIngests /\ r.mode \in IngestModes /\ ran'[r.n][r.mode] = 0
                 /\ \A e \in IngestModes : ran[r.n][e] = 1 => ran'[r.n][e] = 1
      <3>1. r \in late /\ r # request
        BY <1>1
      <3>2. r.n \in 1..sentIngests /\ r.mode \in IngestModes /\ ran[r.n][r.mode] = 0
        BY <2>1, <3>1 DEF CallsInv, LateOK
      <3>3. ~(request.op = "ingest" /\ r.n = request.n /\ r.mode = request.mode)
        BY <2>1, <3>1 DEF CallsInv, LateOK, Ingests
      <3>4. \A e \in IngestModes : ran'[r.n][e] = IF request.op = "ingest" /\ r.n = request.n /\ e = request.mode
                     THEN 1 ELSE ran[r.n][e]
        BY <1>2, <1>4, <3>2 DEF RanOnce
      <3>5. QED
        BY <3>2, <3>3, <3>4
    <2>2. "input" \in IngestModes
      BY DEF IngestModes
    <2>3. late' \subseteq late
      BY <1>1
    <2>4. QED
      BY <1>2, <2>1, <2>2, <2>3 DEF CallsInv, LateOK, SameSetup
  <1>8. NumbersOK'
    <2>1. \A d \in Callers : (Refusal(call[d].ask) = None)' <=> Refusal(call[d].ask) = None
      BY <1>2 DEF SameSetup, provider, Refusal, Unsupported,
         AssertListOptionsScopeCompat, AssertScopeAllowsVisibility
    <2>2. \A d \in Callers : Begun(d)' <=> Begun(d)
      BY <1>2 DEF Begun
    <2>3. QED
      BY <1>2, <2>1, <2>2 DEF CallsInv, NumbersOK, SameSetup
  <1>9. ASSUME NEW d \in Callers PROVE CallOK(d)'
    <2>1. ASSUME Begun(d) PROVE Safe(call[d].n)
      <3>1. call[d].n \in 1..MaxIngests
        BY <1>2, <2>1 DEF CallsInv, NumbersOK, Begun
      <3>2. \A e \in IngestModes : Ingests(request, call[d].n, e) => ~NoneLate(call[d].n, e)
        BY DEF NoneLate
      <3>3. QED
        BY <1>1, <1>2, <1>3, <1>4, <3>1, <3>2, RanSafely DEF CallsInv
    <2>2. QED
      BY <1>2, <2>1, CallStays DEF CallsInv, SameCall
  <1>10. QED
    BY <1>5, <1>6, <1>7, <1>8, <1>9 DEF CallsInv

(* Nothing happens to the calls. *)
LEMMA CallsRest ==
  ASSUME CallsInv, Still, call' = call, sentIngests' = sentIngests, late' \subseteq late
  PROVE  CallsInv'
  <1>1. SameSetup /\ provider' = provider /\ sentIngests \in 0..MaxIngests /\ MaxIngests \in Nat
    BY CallsAssumption DEF Still, SameSetup, provider, CallsInv, NumbersOK
  <1>2. RowsOK' /\ RunsOK' /\ LateOK' /\ DeferredOK' /\ OneRow'
    BY <1>1, StillOK
  <1>3. NumbersOK'
    <2>1. \A d \in Callers : (Refusal(call[d].ask) = None)' <=> Refusal(call[d].ask) = None
      BY <1>1 DEF SameSetup, provider, Refusal, Unsupported,
         AssertListOptionsScopeCompat, AssertScopeAllowsVisibility
    <2>2. \A d \in Callers : Begun(d)' <=> Begun(d)
      BY DEF Begun
    <2>3. QED
      BY <1>1, <2>1, <2>2 DEF CallsInv, NumbersOK, SameSetup
  <1>4. ASSUME NEW d \in Callers PROVE CallOK(d)'
    BY <1>1, NothingRan, CallStays DEF CallsInv, SameCall, Still
  <1>5. QED
    BY <1>2, <1>3, <1>4 DEF CallsInv

LEMMA AskOK ==
  ASSUME CallsInv, NEW c \in Callers, NEW ask \in Inputs[provider], Begin(c, ask) \/ Refuse(c, ask)
  PROVE  CallsInv'
  <1>1. IsAsk(provider, ask)
    BY CallsAssumption DEF CallsInv, NumbersOK, provider
  <1>2. ASSUME Begin(c, ask) PROVE CallsInv'
    <2> DEFINE n == IF ask.op = "ingest" THEN sentIngests + 1 ELSE 0
    <2>1. Send(c, ask, n, FirstPage(ask))
      BY <1>2 DEF Begin
    <2>2. MaySend(ask, n)
      BY <1>1, <1>2, CallsAssumption DEF Begin, MaySend, CallsInv, NumbersOK
    <2> HIDE DEF n
    <2>3. QED
      BY <2>1, <2>2, SendOK
  <1>3. QED
    BY <1>1, <1>2, RefuseOK

LEMMA FollowOK ==
  ASSUME CallsInv, NEW c \in Callers, Follow(c)
  PROVE  CallsInv'
  <1> DEFINE ask == [call[c].ask EXCEPT !.offset = call[c].result.cursor]
  <1>1. call[c].phase = "done" /\ call[c].result.cursor # None /\ Send(c, ask, 0, walk[c])
    BY DEF Follow
  <1>2. call[c].ask.op = "list" /\ IsAsk(provider, call[c].ask)
    BY <1>1 DEF CallsInv, NumbersOK, CallOK
  <1>3. IsAsk(provider, ask) /\ ask.op = "list"
    BY <1>2 DEF IsAsk, AskFields
  <1> HIDE DEF ask
  <1>4. QED
    BY <1>1, <1>3, SendOK DEF MaySend

LEMMA CallsStepOK ==
  ASSUME CallsInv, [CallsNext]_callVars
  PROVE  CallsInv'
  <1>1. ASSUME NEW c \in Callers,
               \E ask \in Inputs[provider] : Asks(c, ask) /\ (Begin(c, ask) \/ Refuse(c, ask))
        PROVE  CallsInv'
    BY <1>1, AskOK
  <1>2. ASSUME NEW c \in Callers, Follow(c) PROVE CallsInv'
    BY <1>2, FollowOK
  <1>3. ASSUME NEW c \in Callers, Serve(c) PROVE CallsInv'
    BY <1>3, ServeOK
  <1>4. ASSUME NEW c \in Callers, Queue(c) \/ Reject(c) PROVE CallsInv'
    BY <1>4, QueueOK, RejectOK
  <1>5. ASSUME NEW c \in Callers, Receive(c) PROVE CallsInv'
    BY <1>5, ReceiveOK
  <1>6. ASSUME NEW c \in Callers, TimeOut(c) PROVE CallsInv'
    BY <1>6, TimeOutOK
  <1>7. CASE ServeLate
    BY <1>7, ServeLateOK
  <1>8. CASE LoseLate
    BY <1>8, CallsRest DEF LoseLate, Still, SameSetup
  <1>9. CASE UNCHANGED callVars
    BY <1>9, CallsRest DEF callVars, Still, SameSetup
  <1>10. QED
    BY <1>1, <1>2, <1>3, <1>4, <1>5, <1>6, <1>7, <1>8, <1>9 DEF CallsNext

LEMMA CallsInitOK ==
  ASSUME CallsInit
  PROVE  CallsInv
  <1>1. /\ setup \in Setups /\ rows = <<>> /\ alive = {} /\ late = {} /\ sentIngests = 0
        /\ call = [c \in Callers |-> NoCall]
        /\ ran = [n \in 1..MaxIngests |-> [mode \in IngestModes |-> 0]]
    BY DEF CallsInit
  <1>2. \A c \in Callers : call[c].phase = "none"
    BY <1>1 DEF NoCall
  <1>3. RowsOK
    BY <1>1 DEF RowsOK, IsList
  <1>4. NumbersOK
    BY <1>1, <1>2, CallsAssumption DEF NumbersOK, Begun
  <1>5. /\ RunsOK /\ LateOK /\ DeferredOK
    BY <1>1 DEF RunsOK, RanShape, LateOK, DeferredOK, IngestModes
  <1>6. OneRow
    BY <1>1 DEF OneRow, RowsOf, IngestModes
  <1>7. \A c \in Callers : CallOK(c)
    BY <1>2 DEF CallOK, Begun, Resolved, Ended
  <1>8. QED
    BY <1>3, <1>4, <1>5, <1>6, <1>7 DEF CallsInv

LEMMA CallsInvHolds == CallsSpec => []CallsInv
  BY CallsInitOK, CallsStepOK, PTL DEF CallsSpec

(* Extraction runs once at most, and a deferred one after its input was    *)
(* stored unless the backend queues both, whatever times out and whatever  *)
(* the backend does late (mem0-provider.ts, fireBackgroundInference).      *)
THEOREM ExtractionRunsOnce == CallsSpec => []ExtractedOnce
  <1>1. CallsInv => ExtractedOnce
    <2> SUFFICES ASSUME CallsInv, NEW n \in 1..MaxIngests
                 PROVE  /\ ran[n]["facts"] <= 1 /\ ran[n]["input"] <= 1
                        /\ provider = "mem0" /\ setup.defer /\ ~setup.queues /\ ran[n]["facts"] > 0
                               => ran[n]["input"] > 0
      BY DEF ExtractedOnce, Queues
    <2>1. ran[n]["facts"] \in {0, 1} /\ ran[n]["input"] \in {0, 1}
      BY DEF CallsInv, RunsOK, IngestModes
    <2>2. provider = "mem0" /\ setup.defer /\ ~setup.queues /\ ran[n]["facts"] = 1 => ran[n]["input"] = 1
      BY DEF CallsInv, DeferredOK
    <2>3. QED
      BY <2>1, <2>2
  <1>2. QED
    BY <1>1, CallsInvHolds, PTL

(* An ingest that resolves was carried out unless its backend only queues  *)
(* what it is sent (mem0-provider.ts, known limitation), and a verbatim    *)
(* one left one memory (http-client.ts, fetchJson; doIngest).              *)
THEOREM ResolvedIngestsAreStored == CallsSpec => []IngestMeansStored
  <1>1. CallsInv => IngestMeansStored
    <2> SUFFICES ASSUME CallsInv, NEW c \in Callers, Resolved(c), call[c].ask.op = "ingest"
                 PROVE  /\ ~Queues => \E mode \in IngestModes : ran[call[c].n][mode] > 0
                        /\ call[c].ask.verbatim =>
                              Cardinality({i \in DOMAIN rows : rows[i].by = call[c].n}) = 1
      BY DEF IngestMeansStored
    <2> DEFINE ask == call[c].ask
               n == call[c].n
    <2>1. n # 0 /\ (~Queues => ran[n][Mode(ask)] = 1) /\ Mode(ask) \in IngestModes
      BY DEF CallsInv, CallOK, Mode, IngestModes
    <2>2. Begun(c) /\ Refusal(ask) = None /\ n \in 1..MaxIngests /\ IsAsk(provider, ask)
      BY <2>1, CallsAssumption DEF Resolved, Ended, Begun, CallsInv, NumbersOK
    <2>3. ASSUME ask.verbatim
          PROVE  Cardinality({i \in DOMAIN rows : rows[i].by = n}) = 1
      <3>1. ~Unsupported(ask)
        BY <2>2, NoneAssumption DEF Refusal
      <3>2. provider # "mem0"
        BY <2>3, <3>1 DEF Unsupported
      <3>3. ~Extracts(ask) /\ Mode(ask) = "input" /\ ~ShouldDefer(ask)
        BY <2>3, <3>2 DEF Extracts, Mode, ShouldDefer
      <3>4. ran[n]["facts"] = 0
        BY <2>2, <3>3 DEF CallsInv, CallOK
      <3>5. PICK i \in DOMAIN rows : RowsOf(n) = {i}
        BY <2>1, <2>2, <3>2, <3>3, <3>4 DEF CallsInv, OneRow, Queues
      <3>6. QED
        BY <3>5, FS_Singleton DEF RowsOf
    <2>4. QED
      BY <2>1, <2>3
  <1>2. QED
    BY <1>1, CallsInvHolds, PTL

-----------------------------------------------------------------------------
(* Memories stay, and what is deleted does not come back. *)
LEMMA NothingStored ==
  ASSUME RowsOK, rows' = rows, alive' = alive PROVE Keeps
  BY DEF Keeps

LEMMA StepKeeps ==
  ASSUME CallsInv, [CallsNext]_callVars
  PROVE  Keeps /\ SameSetup
  <1>0. RowsOK
    BY DEF CallsInv
  <1>1. ASSUME NEW request, Carries(request) PROVE Keeps
    BY <1>0, <1>1, CarriedOut DEF MemoriesAfter
  <1>2. ASSUME NEW c \in Callers, Serve(c) PROVE Keeps /\ SameSetup
    BY <1>1, <1>2 DEF Serve, Carries, SameSetup
  <1>3. CASE ServeLate
    BY <1>1, <1>3 DEF ServeLate, Carries, SameSetup
  <1>4. ASSUME NEW c \in Callers, NEW ask, Begin(c, ask) \/ Refuse(c, ask) PROVE Keeps /\ SameSetup
    BY <1>0, <1>4, NothingStored DEF Begin, Refuse, Send, SameSetup
  <1>5. ASSUME NEW c \in Callers, Follow(c) \/ Queue(c) \/ Reject(c) \/ Receive(c) \/ TimeOut(c)
        PROVE  Keeps /\ SameSetup
    BY <1>0, <1>5, NothingStored DEF Follow, Send, Queue, Reject, Receive, TimeOut, SameSetup
  <1>6. CASE LoseLate
    BY <1>0, <1>6, NothingStored DEF LoseLate, SameSetup
  <1>7. CASE UNCHANGED callVars
    BY <1>0, <1>7, NothingStored DEF callVars, SameSetup
  <1>8. QED
    BY <1>2, <1>3, <1>4, <1>5, <1>6, <1>7 DEF CallsNext

LEMMA StaysVanished ==
  ASSUME Keeps, SameSetup, NEW ask, Vanished(ask)
  PROVE  Vanished(ask)'
  <1>1. ask.id \in DOMAIN rows /\ ask.id \in DOMAIN rows' /\ rows'[ask.id] = rows[ask.id]
        /\ (ask.id \in alive' => ask.id \in alive)
    BY DEF Vanished, Keeps
  <1>2. provider' = provider /\ setup' = setup
    BY DEF SameSetup, provider
  <1>3. Request(ask, 0)' = Request(ask, 0) /\ Request(ask, 0).id = ask.id
    BY <1>2 DEF Request, SentLimit, Skipped, Mem0Page, Mode, Extracts, ShouldDefer, ResolveInferFlag
  <1>4. \A f, r : Applies(f, r)' <=> Applies(f, r)
    BY <1>2 DEF Applies
  <1>5. Reached(Request(ask, 0))' => Reached(Request(ask, 0))
    BY <1>1, <1>3, <1>4 DEF Reached
  <1>6. QED
    BY <1>1, <1>5 DEF Vanished

LEMMA CarriesDelete ==
  ASSUME RowsOK, NEW ask, ask.op = "delete", ask.id \in DOMAIN rows, SameSetup,
         NEW effect \in Effects(Request(ask, 0)), Leaves(effect)
  PROVE  effect.answer.status \in {200, 404} /\ Vanished(ask)'
  <1> DEFINE request == Request(ask, 0)
  <1>1. request.op = "delete" /\ request.id = ask.id
    BY RequestFields
  <1>2. LeavesRows(request, effect) /\ rows' = effect.rows /\ alive' = effect.alive
    BY <1>1, EffectsOfOthers DEF Leaves
  <1>3. rows' = rows /\ \/ effect.answer.status = 404 /\ alive' = alive /\ ~Reached(request)
                        \/ effect.answer.status = 200 /\ alive' = alive \ {ask.id}
    BY <1>1, <1>2 DEF LeavesRows
  <1>4. provider' = provider /\ setup' = setup
    BY DEF SameSetup, provider
  <1>5. Request(ask, 0)' = request
    BY <1>4 DEF Request, SentLimit, Skipped, Mem0Page, Mode, Extracts, ShouldDefer, ResolveInferFlag
  <1>6. PICK q, row : q = request /\ row = rows[ask.id]
    OBVIOUS
  <1>7. Applies(q.filters, row)' <=> Applies(q.filters, row)
    BY <1>4 DEF Applies
  <1>8. Reached(Request(ask, 0))' <=> ask.id \in alive' /\ Applies(q.filters, row)'
    BY <1>1, <1>3, <1>5, <1>6 DEF Reached
  <1>9. Reached(request) <=> ask.id \in alive /\ Applies(q.filters, row)
    BY <1>1, <1>6 DEF Reached
  <1> HIDE DEF request
  <1>10. ~Reached(Request(ask, 0))'
    BY <1>3, <1>7, <1>8, <1>9
  <1>11. QED
    BY <1>3, <1>10 DEF Vanished

LEMMA DeletedStays ==
  ASSUME NEW c \in Callers, DeletedOK(c), Keeps, SameSetup, call'[c] = call[c]
  PROVE  DeletedOK(c)'
  <1>1. PICK ask : ask = call[c].ask
    OBVIOUS
  <1>2. Vanished(ask) => Vanished(ask)'
    BY StaysVanished
  <1>3. (Vanished(call[c].ask) <=> Vanished(ask)) /\ (Vanished(call[c].ask)' <=> Vanished(ask)')
    BY <1>1
  <1>4. /\ InFlight(c)' <=> InFlight(c)
        /\ Resolved(c)' <=> Resolved(c)
    BY DEF InFlight, Resolved, Ended
  <1>5. ask.id \in DOMAIN rows => ask.id \in DOMAIN rows'
    BY DEF Keeps
  <1>6. QED
    BY <1>1, <1>2, <1>3, <1>4, <1>5 DEF DeletedOK

LEMMA DeletesTurn ==
  ASSUME CallsInv, DeletesInv, Keeps, SameSetup, NEW c \in Callers, NEW u,
         call' = [call EXCEPT ![c] = u], DeletedOK(c)'
  PROVE  DeletesInv'
  <1>1. \A d \in Callers \ {c} : call'[d] = call[d]
    BY DEF CallsInv, NumbersOK
  <1>2. QED
    BY <1>1, DeletedStays DEF DeletesInv

(* A call of c that is new, or no delete, or has failed. *)
LEMMA DeletesAside ==
  ASSUME CallsInv, DeletesInv, Keeps, SameSetup, NEW c \in Callers, NEW u,
         call' = [call EXCEPT ![c] = u],
         u.ask.op = "delete" =>
            \/ u.phase = "sent" /\ u.ask.id \in DOMAIN rows
            \/ u.phase = "done" /\ u.result.error # None
  PROVE  DeletesInv'
  <1>1. call'[c] = u
    BY DEF CallsInv, NumbersOK
  <1>2. u.ask.id \in DOMAIN rows => u.ask.id \in DOMAIN rows'
    BY DEF Keeps
  <1>3. DeletedOK(c)'
    BY <1>1, <1>2 DEF DeletedOK, InFlight, Resolved, Ended
  <1>4. QED
    BY <1>3, DeletesTurn

LEMMA DeleteServed ==
  ASSUME CallsInv, DeletesInv, Keeps, SameSetup, NEW c \in Callers, Serve(c)
  PROVE  DeletesInv'
  <1>1. PICK ask : ask = call[c].ask
    OBVIOUS
  <1>2. PICK effect, answer :
            /\ effect \in Effects(call[c].request)
            /\ Leaves(effect) /\ Answer(c, answer)
            /\ answer = effect.answer \/ (answer = Ok(Garbled) /\ effect.answer.status = 200)
    BY DEF Serve
  <1> DEFINE u == [phase |-> "served", ask |-> ask, n |-> call[c].n, answer |-> answer]
  <1>3. call[c].phase = "sent" /\ call' = [call EXCEPT ![c] = u]
    BY <1>1, <1>2 DEF Serve, Answer
  <1>4. u.phase = "served" /\ u.ask = ask /\ u.answer = answer
    OBVIOUS
  <1> HIDE DEF u
  <1>5. call'[c] = u
    BY <1>3 DEF CallsInv, NumbersOK
  <1>6. CASE ask.op = "delete"
    <2>1. call[c].request = Request(ask, 0)
      BY <1>1, <1>3, <1>6 DEF CallsInv, CallOK, NumbersOK
    <2>2. ask.id \in DOMAIN rows
      BY <1>1, <1>3, <1>6 DEF DeletesInv, DeletedOK, InFlight
    <2>3. effect.answer.status \in {200, 404} /\ Vanished(ask)'
      BY <1>2, <1>6, <2>1, <2>2, CarriesDelete DEF CallsInv
    <2>4. answer.status \in {200, 404}
      BY <1>2, <2>3 DEF Ok
    <2>5. Vanished(call[c].ask)' <=> Vanished(ask)'
      BY <1>4, <1>5
    <2>6. ask.id \in DOMAIN rows'
      BY <2>2 DEF Keeps
    <2>7. DeletedOK(c)'
      BY <1>4, <1>5, <2>3, <2>4, <2>5, <2>6 DEF DeletedOK, Resolved, Ended
    <2>8. QED
      BY <1>3, <2>7, DeletesTurn
  <1>7. CASE ask.op # "delete"
    BY <1>3, <1>4, <1>7, DeletesAside
  <1>8. QED
    BY <1>6, <1>7

LEMMA DeleteRejected ==
  ASSUME CallsInv, DeletesInv, Keeps, SameSetup, NEW c \in Callers, Reject(c), ~setup.quotes
  PROVE  DeletesInv'
  <1>1. PICK ask : ask = call[c].ask
    OBVIOUS
  <1>2. PICK answer \in Errors :
            /\ Answer(c, answer) /\ (answer.status = 200 => ask.op = "ingest")
    BY <1>1 DEF Reject
  <1> DEFINE u == [phase |-> "served", ask |-> ask, n |-> call[c].n, answer |-> answer]
  <1>3. call[c].phase = "sent" /\ call' = [call EXCEPT ![c] = u]
    BY <1>1, <1>2 DEF Reject, Answer
  <1>4. u.phase = "served" /\ u.ask = ask /\ u.answer = answer
    OBVIOUS
  <1> HIDE DEF u
  <1>5. call'[c] = u
    BY <1>3 DEF CallsInv, NumbersOK
  <1>6. CASE ask.op = "delete"
    <2>1. ask.id \in DOMAIN rows /\ ask.id \in DOMAIN rows'
      BY <1>1, <1>3, <1>6 DEF DeletesInv, DeletedOK, InFlight, Keeps
    <2>2. \/ answer = [status |-> 429, body |-> None] \/ answer = [status |-> 500, body |-> None]
          \/ answer = Failure
      BY DEF Errors
    <2>3. Failure.status = 200
      BY DEF Failure, Ok
    <2>4. answer.status \in {429, 500} /\ answer.body # Quotes404
      BY <1>2, <1>6, <2>2, <2>3, NoneAssumption
    <2>5. DeletedOK(c)'
      BY <1>4, <1>5, <2>1, <2>4 DEF DeletedOK, Resolved, Ended
    <2>6. QED
      BY <1>3, <2>5, DeletesTurn
  <1>7. CASE ask.op # "delete"
    BY <1>3, <1>4, <1>7, DeletesAside
  <1>8. QED
    BY <1>6, <1>7

LEMMA DeleteReceived ==
  ASSUME CallsInv, DeletesInv, Keeps, SameSetup, NEW c \in Callers, Receive(c)
  PROVE  DeletesInv'
  <1>1. PICK ask, answer, result :
            ask = call[c].ask /\ answer = call[c].answer /\ result = Result(ask, answer)
    OBVIOUS
  <1> DEFINE u == Done(ask, call[c].n, result)
  <1>2. call[c].phase = "served" /\ call' = [call EXCEPT ![c] = u]
    BY <1>1 DEF Receive
  <1>3. u.phase = "done" /\ u.ask = ask /\ u.result = result
    BY DEF Done
  <1> HIDE DEF u
  <1>4. call'[c] = u
    BY <1>2 DEF CallsInv, NumbersOK
  <1>5. CASE ask.op = "delete"
    <2>1. \/ answer.status \in {200, 404} /\ Vanished(ask)
          \/ answer.status \in {429, 500} /\ answer.body # Quotes404
      BY <1>1, <1>2, <1>5 DEF DeletesInv, DeletedOK
    <2>2. ASSUME answer.status \in {429, 500}, answer.body # Quotes404
          PROVE  result.error # None
      <3>1. Fetched(ask, answer).error = ThrowForStatus(answer)
        BY <1>5, <2>2 DEF Fetched, DeleteIgnore404, Mentions404, FetchVoid
      <3>2. ThrowForStatus(answer) \in {"RateLimitError", "MemoryProviderError"}
        BY <2>2 DEF ThrowForStatus
      <3>3. ThrowForStatus(answer) # None /\ ThrowForStatus(answer) \in ProviderErrors
        BY <3>2, NoneAssumption DEF ProviderErrors
      <3>4. result = Rejected(ThrowForStatus(answer))
        BY <1>1, <3>1, <3>3 DEF Result
      <3>5. QED
        BY <3>3, <3>4 DEF Rejected, WrapError, Nothing
    <2>3. result.error = None => Vanished(ask)'
      BY <2>1, <2>2, StaysVanished
    <2>4. Vanished(call[c].ask)' <=> Vanished(ask)'
      BY <1>3, <1>4
    <2>5. DeletedOK(c)'
      BY <1>3, <1>4, <2>3, <2>4 DEF DeletedOK, InFlight, Resolved, Ended
    <2>6. QED
      BY <1>2, <2>5, DeletesTurn
  <1>6. CASE ask.op # "delete"
    BY <1>2, <1>3, <1>6, DeletesAside
  <1>7. QED
    BY <1>5, <1>6

LEMMA DeletesStepOK ==
  ASSUME CallsInv, DeletesInv, [CallsNext]_callVars, ~setup.quotes
  PROVE  DeletesInv'
  <1>0. Keeps /\ SameSetup
    BY StepKeeps
  <1>1. ASSUME NEW c \in Callers, NEW ask, Asks(c, ask), Begin(c, ask) PROVE DeletesInv'
    <2>1. \E n : Send(c, ask, n, FirstPage(ask))
      BY <1>1 DEF Begin
    <2>2. PICK n : call' = [call EXCEPT ![c] = [phase |-> "sent", ask |-> ask, n |-> n,
                                                request |-> Request(ask, n)]]
      BY <2>1 DEF Send
    <2> DEFINE u == [phase |-> "sent", ask |-> ask, n |-> n, request |-> Request(ask, n)]
    <2>3. call' = [call EXCEPT ![c] = u] /\ u.phase = "sent" /\ u.ask = ask
      BY <2>2
    <2> HIDE DEF u
    <2>4. ask.op = "delete" => ask.id \in DOMAIN rows
      BY <1>1 DEF Asks
    <2>5. QED
      BY <1>0, <2>3, <2>4, DeletesAside
  <1>2. ASSUME NEW c \in Callers, NEW ask, Refuse(c, ask) PROVE DeletesInv'
    <2> DEFINE u == Done(ask, 0, [Nothing EXCEPT !.error = Refusal(ask)])
    <2>1. call' = [call EXCEPT ![c] = u] /\ u.phase = "done" /\ u.result.error # None
      BY <1>2 DEF Refuse, Done, Nothing
    <2> HIDE DEF u
    <2>2. QED
      BY <1>0, <2>1, DeletesAside
  <1>3. ASSUME NEW c \in Callers, Follow(c) PROVE DeletesInv'
    <2> DEFINE ask == [call[c].ask EXCEPT !.offset = call[c].result.cursor]
               u == [phase |-> "sent", ask |-> ask, n |-> 0, request |-> Request(ask, 0)]
    <2>1. call' = [call EXCEPT ![c] = u]
      BY <1>3 DEF Follow, Send
    <2>2. call[c].ask.op = "list" /\ IsAsk(provider, call[c].ask)
      BY <1>3 DEF Follow, CallsInv, NumbersOK, CallOK
    <2>3. u.ask.op = "list"
      BY <2>2 DEF IsAsk, AskFields
    <2> HIDE DEF u
    <2>4. QED
      BY <1>0, <2>1, <2>3, DeletesAside
  <1>4. ASSUME NEW c \in Callers, TimeOut(c) PROVE DeletesInv'
    <2> DEFINE u == Done(call[c].ask, call[c].n, Rejected("Error"))
    <2>1. call' = [call EXCEPT ![c] = u]
      BY <1>4 DEF TimeOut
    <2>2. u.phase = "done" /\ u.result.error # None
      BY NoneAssumption DEF Done, Rejected, Nothing, WrapError
    <2> HIDE DEF u
    <2>3. QED
      BY <1>0, <2>1, <2>2, DeletesAside
  <1>5. ASSUME NEW c \in Callers, Queue(c) PROVE DeletesInv'
    <2>1. PICK u : u.ask.op = "ingest" /\ call' = [call EXCEPT ![c] = u]
      BY <1>5, QueueTells
    <2>2. QED
      BY <1>0, <2>1, DeletesAside
  <1>6. ASSUME call' = call PROVE DeletesInv'
    BY <1>0, <1>6, DeletedStays DEF DeletesInv
  <1>7. CASE ServeLate \/ LoseLate \/ UNCHANGED callVars
    BY <1>6, <1>7 DEF ServeLate, LoseLate, callVars
  <1>8. QED
    BY <1>0, <1>1, <1>2, <1>3, <1>4, <1>5, <1>7, DeleteServed, DeleteRejected, DeleteReceived
       DEF CallsNext

(* After a delete that resolves, no memory of that id is left in what the  *)
(* request reached, as long as no error quotes "HTTP 404" (http-client.ts, *)
(* deleteIgnore404).                                                       *)
THEOREM ResolvedDeletesVanish ==
  ASSUME \A s \in Setups : ~s.quotes
  PROVE  CallsSpec => []DeleteMeansGone
  <1>1. CallsInit => DeletesInv
    BY DEF CallsInit, NoCall, DeletesInv, DeletedOK
  <1>2. CallsInv /\ DeletesInv /\ [CallsNext]_callVars => DeletesInv'
    BY DeletesStepOK DEF CallsInv, NumbersOK
  <1>3. DeletesInv => DeleteMeansGone
    BY DEF DeletesInv, DeletedOK, DeleteMeansGone, Vanished, Resolved, Ended
  <1>4. QED
    BY <1>1, <1>2, <1>3, CallsInvHolds, PTL DEF CallsSpec

(* A memory that was stored stays as it is, and once gone stays gone.      *)
THEOREM MemoriesStay == CallsSpec => [][Keeps]_callVars
  BY CallsInvHolds, StepKeeps, PTL DEF CallsSpec

-----------------------------------------------------------------------------
(* What callers are told.  Whatever the backend tells of a memory is true, *)
(* and its filters have let the memory through.                            *)
Heard(ask, raw) ==
    /\ ask.op \notin {"ingest", "delete"} /\ raw.id \in DOMAIN rows
    /\ raw.thread = IF setup.projects THEN rows[raw.id].scope.thread ELSE None
    /\ Applies(Forwarded(provider, ask.op, ask.scope), rows[raw.id])

AllHeard(ask, raws) == IsList(raws) /\ \A raw \in ToSet(raws) : Heard(ask, raw)

(* The memory is one the caller may be given, under a label that is true.  *)
Honest(ask, m) ==
    /\ m.id \in DOMAIN rows
    /\ ChecksThread =>
          /\ m.label.thread \in {None, ScopeOf(m.id).thread}
          /\ m.label.agentScope = "self" => ScopeOf(m.id).agent = m.label.agent
    /\ /\ ask.scope.thread # None
       /\ ask.op \in {"search", "package", "asOf"} \/ (ask.op = "list" /\ ChecksThread)
       /\ ChecksThread \/ "thread" \notin setup.ignores
       => ScopeOf(m.id).thread = ask.scope.thread
    /\ /\ Filtering /\ ask.op \in {"search", "package", "asOf"}
       /\ \A i \in DOMAIN ResolvePatterns(setup.filter) : ~ResolvePatterns(setup.filter)[i].global
       => ~Meta(m.id)

AllHonest(ask, memories) == \A m \in ToSet(memories) : Honest(ask, m)

Readable(answer) == ThrowForStatus(answer) = None /\ answer.body # Garbled

AnswersOK(c) ==
    LET ask == call[c].ask
    IN  call[c].phase # "none" =>
            /\ ask.offset \in Nat
            /\ call[c].phase = "served" /\ Readable(call[c].answer) =>
                  AllHeard(ask, call[c].answer.body.memories)
            /\ call[c].phase = "done" =>
                  /\ call[c].result.cursor \in Nat \cup {None}
                  /\ Resolved(c) => AllHonest(ask, call[c].result.memories)

AnswersInv ==
    /\ DOMAIN lastIndex = DOMAIN ResolvePatterns(setup.filter)
    /\ \A c \in Callers : AnswersOK(c)

LEMMA SameAnswers ==
  ASSUME SameSetup
  PROVE  /\ provider' = provider /\ setup' = setup
         /\ \A f, r : Applies(f, r)' <=> Applies(f, r)
         /\ \A ask : Forwarded(provider, ask.op, ask.scope)' = Forwarded(provider, ask.op, ask.scope)
  BY DEF SameSetup, provider, Applies

LEMMA HeardStays ==
  ASSUME Keeps, SameSetup, NEW ask, NEW raw, Heard(ask, raw)
  PROVE  Heard(ask, raw)'
  <1>1. PICK row : row = rows[raw.id]
    OBVIOUS
  <1>2. raw.id \in DOMAIN rows' /\ rows'[raw.id] = row
    BY <1>1 DEF Keeps, Heard
  <1>3. PICK f : f = Forwarded(provider, ask.op, ask.scope)
    OBVIOUS
  <1>4. provider' = provider /\ setup' = setup /\ (Applies(f, row)' <=> Applies(f, row))
    BY SameAnswers
  <1>5. Heard(ask, raw) <=> /\ ask.op \notin {"ingest", "delete"}
                            /\ raw.id \in DOMAIN rows
                            /\ raw.thread = IF setup.projects THEN row.scope.thread ELSE None
                            /\ Applies(f, row)
    BY <1>1, <1>3 DEF Heard
  <1>6. Heard(ask, raw)' <=> /\ ask.op \notin {"ingest", "delete"}
                             /\ raw.id \in DOMAIN rows'
                             /\ raw.thread = IF setup.projects THEN row.scope.thread ELSE None
                             /\ Applies(f, row)'
    BY <1>2, <1>3, <1>4 DEF Heard
  <1>7. QED
    BY <1>2, <1>4, <1>5, <1>6

LEMMA AllHeardStays ==
  ASSUME Keeps, SameSetup, NEW ask, NEW raws, AllHeard(ask, raws)
  PROVE  AllHeard(ask, raws)'
  BY HeardStays DEF AllHeard, IsList

LEMMA HonestStays ==
  ASSUME Keeps, SameSetup, NEW ask, NEW m, Honest(ask, m)
  PROVE  Honest(ask, m)'
  <1>1. m.id \in DOMAIN rows' /\ rows'[m.id] = rows[m.id]
    BY DEF Keeps, Honest
  <1>2. ScopeOf(m.id)' = ScopeOf(m.id) /\ (Meta(m.id)' <=> Meta(m.id))
    BY <1>1 DEF ScopeOf, Meta, SameSetup
  <1>3. (ChecksThread' <=> ChecksThread) /\ (Filtering' <=> Filtering) /\ setup' = setup
    BY DEF SameSetup, ChecksThread, Filtering, provider
  <1>4. QED
    BY <1>1, <1>2, <1>3 DEF Honest

LEMMA AllHonestStays ==
  ASSUME Keeps, SameSetup, NEW ask, NEW memories, AllHonest(ask, memories)
  PROVE  AllHonest(ask, memories)'
  BY HonestStays DEF AllHonest

-----------------------------------------------------------------------------
(* The backend's answers. *)
LEMMA SkipsForward ==
  ASSUME NEW p, NEW ask, IsAsk(p, ask), ask.offset \in Nat, ask.op = "list"
  PROVE  Skipped(ask) \in Nat
  <1>1. ask.limit \in Nat \ {0}
    BY DEF IsAsk
  <1>2. ask.offset \div ask.limit \in Nat
    BY <1>1
  <1>3. Mem0Page(ask.limit, ask.offset) \in Nat \ {0}
    BY <1>2 DEF Mem0Page
  <1>4. \A x \in Nat \ {0}, y \in Nat : (x - 1) * y \in Nat
    OBVIOUS
  <1>5. QED
    BY <1>1, <1>3, <1>4 DEF Skipped

(* A page has the matching memories from a place on.                       *)
LEMMA Matches ==
  ASSUME RowsOK, NEW filters
  PROVE  /\ Matching(filters) \in Seq(DOMAIN rows)
         /\ ToSet(Matching(filters)) = {i \in alive : Applies(filters, rows[i])}
  <1> DEFINE s == [i \in DOMAIN rows |-> i]
             S == {i \in alive : Applies(filters, rows[i])}
  <1>1. s \in Seq(DOMAIN rows) /\ ToSet(s) = DOMAIN rows
    <2>1. rows \in Seq(ToSet(rows))
      BY DEF RowsOK, IsList
    <2>2. PICK n \in Nat : DOMAIN rows = 1..n
      BY <2>1
    <2>3. [i \in 1..n |-> i] \in Seq(1..n)
      OBVIOUS
    <2>4. QED
      BY <2>2, <2>3 DEF ToSet
  <1>2. S \subseteq DOMAIN rows
    BY DEF RowsOK
  <1>3. Matching(filters) = Keep(s, S)
    BY DEF Matching
  <1> HIDE DEF s, S
  <1>4. QED
    BY <1>1, <1>2, <1>3, KeepResult DEF S

LEMMA ListOf ==
  ASSUME NEW X, NEW s \in Seq(X) PROVE IsList(s)
  <1>1. \A i \in DOMAIN s : s[i] \in ToSet(s)
    BY DEF ToSet
  <1>2. Len(s) \in Nat /\ DOMAIN s = 1..Len(s) /\ s = [i \in 1..Len(s) |-> s[i]]
    OBVIOUS
  <1>3. QED
    BY <1>1, <1>2 DEF IsList

LEMMA PageResult ==
  ASSUME RowsOK, NEW request, request.skip \in Nat, request.limit \in Nat \cup {None}
  PROVE  /\ IsList(Page(request))
         /\ ToSet(Page(request)) \subseteq ToSet(Matching(request.filters))
  <1> DEFINE all == Matching(request.filters)
             end == IF request.limit = None THEN Len(all) ELSE request.skip + request.limit
             last == IF end < Len(all) THEN end ELSE Len(all)
  <1>1. all \in Seq(DOMAIN rows)
    BY Matches
  <1>2. Page(request) = SubSeq(all, request.skip + 1, last)
    BY DEF Page
  <1> HIDE DEF all
  <1>3. Len(all) \in Nat
    BY <1>1
  <1>4. end \in Nat
    BY <1>3
  <1>5. last \in 0..Len(all)
    BY <1>3, <1>4
  <1> HIDE DEF end, last
  <1>6. CASE request.skip + 1 \in 1..(Len(all) + 1)
    <2>1. /\ SubSeq(all, request.skip + 1, last) \in Seq(DOMAIN rows)
          /\ ToSet(SubSeq(all, request.skip + 1, last)) \subseteq ToSet(all)
      BY <1>1, <1>5, <1>6, SliceResult
    <2>2. QED
      BY <1>2, <2>1, ListOf DEF all
  <1>7. CASE request.skip > Len(all)
    <2>1. Page(request) = <<>>
      BY <1>1, <1>2, <1>3, <1>5, <1>7
    <2>2. QED
      BY <2>1, EmptyList DEF IsList
  <1>8. QED
    BY <1>3, <1>6, <1>7

LEMMA RawHeard ==
  ASSUME NEW ask, ask.op \notin {"ingest", "delete"}, NEW i \in DOMAIN rows,
         Applies(Forwarded(provider, ask.op, ask.scope), rows[i])
  PROVE  Heard(ask, Raw(i))
  BY DEF Heard, Raw

LEMMA NoneHeard ==
  ASSUME NEW ask PROVE AllHeard(ask, <<>>)
  BY EmptyList DEF AllHeard, IsList

LEMMA EffectOfPages ==
  ASSUME NEW request, request.op \notin {"ingest", "get", "expand", "delete"},
         NEW effect \in Effects(request)
  PROVE  effect = Effect(rows, alive, PageAnswer(request))
  BY DEF Effects

LEMMA AnswerHeard ==
  ASSUME RowsOK, NEW p, NEW ask, IsAsk(p, ask), ask.offset \in Nat, NEW n,
         NEW effect \in Effects(Request(ask, n)), Readable(effect.answer)
  PROVE  AllHeard(ask, effect.answer.body.memories)
  <1> DEFINE request == Request(ask, n)
             heard   == [i \in DOMAIN Page(request) |-> Raw(Page(request)[i])]
  <1>1. /\ request.op = ask.op /\ request.id = ask.id
        /\ request.filters = Forwarded(provider, ask.op, ask.scope)
    BY RequestFields
  <1>2. request.skip \in Nat /\ request.limit \in Nat \cup {None}
    BY SkipsForward DEF Request, SentLimit, IsAsk
  <1>3. /\ IsList(Page(request))
        /\ \A i \in ToSet(Page(request)) : i \in DOMAIN rows /\ Applies(request.filters, rows[i])
    <2> HIDE DEF request
    <2>1. QED
      BY <1>2, PageResult, Matches DEF RowsOK
  <1> HIDE DEF request
  <1>4. ASSUME ask.op \notin {"ingest", "delete"} PROVE AllHeard(ask, heard)
    <2>1. \A i \in DOMAIN Page(request) : Heard(ask, Raw(Page(request)[i]))
      BY <1>1, <1>3, <1>4, RawHeard DEF ToSet
    <2>2. PICK s : s = Page(request)
      OBVIOUS
    <2>3. s \in Seq(ToSet(s)) /\ heard = [i \in DOMAIN s |-> Raw(s[i])]
      BY <1>3, <2>2 DEF IsList
    <2>5. heard \in Seq({Raw(i) : i \in ToSet(s)})
      <3>1. Len(s) \in Nat /\ DOMAIN s = 1..Len(s)
        BY <2>3
      <3>2. \A i \in 1..Len(s) : Raw(s[i]) \in {Raw(j) : j \in ToSet(s)}
        BY <3>1 DEF ToSet
      <3>3. QED
        BY <2>3, <3>1, <3>2
    <2>6. \A raw \in ToSet(heard) : Heard(ask, raw)
      BY <2>1, <2>2, <2>3 DEF ToSet
    <2>7. QED
      BY <2>5, <2>6, ListOf DEF AllHeard
  <1>5. CASE request.op = "ingest"
    <2>1. PICK k, namespace : effect = Stored(request, k, namespace)
      BY <1>5, EffectsOfIngests DEF Stores, request
    <2>2. effect.answer.body.memories = <<>>
      BY <2>1 DEF Stored, Effect, Ok, Body
    <2>3. QED
      BY <2>2, NoneHeard
  <1>6. CASE request.op \in {"get", "delete"} /\ ~Reached(request)
    <2>1. effect = Effect(rows, alive, [status |-> 404, body |-> None])
      BY <1>6 DEF Effects, request
    <2>2. ThrowForStatus(effect.answer) = "MemoryProviderError"
      BY <2>1 DEF Effect, ThrowForStatus
    <2>3. QED
      BY <2>2, NoneAssumption DEF Readable
  <1>7. CASE request.op = "delete" /\ Reached(request)
    <2>1. effect = Effect(rows, alive \ {request.id}, Ok(Body))
      BY <1>7 DEF Effects, request
    <2>2. effect.answer.body.memories = <<>>
      BY <2>1 DEF Effect, Ok, Body
    <2>3. QED
      BY <2>2, NoneHeard
  <1>8. CASE request.op = "expand" \/ (request.op = "get" /\ Reached(request))
    <2>1. effect = Effect(rows, alive, Ok([Body EXCEPT !.memories =
                       IF Reached(request) THEN <<Raw(request.id)>> ELSE <<>>]))
      BY <1>8 DEF Effects, request
    <2>2. effect.answer.body.memories = IF Reached(request) THEN <<Raw(request.id)>> ELSE <<>>
      BY <2>1 DEF Effect, Ok, Body
    <2>3. CASE Reached(request)
      <3>1. request.id \in DOMAIN rows /\ Applies(request.filters, rows[request.id])
        BY <2>3 DEF Reached, RowsOK
      <3>2. Heard(ask, Raw(request.id))
        BY <1>1, <1>8, <3>1, RawHeard
      <3>3. \A x : <<x>> \in Seq({x}) /\ ToSet(<<x>>) = {x}
        BY DEF ToSet
      <3>4. QED
        BY <2>2, <2>3, <3>2, <3>3 DEF AllHeard, IsList
    <2>4. CASE ~Reached(request)
      BY <2>2, <2>4, NoneHeard
    <2>5. QED
      BY <2>3, <2>4
  <1>9. CASE request.op \notin {"ingest", "get", "expand", "delete"}
    <2>1. effect = Effect(rows, alive, PageAnswer(request))
      BY <1>9, EffectOfPages DEF request
    <2>2. effect.answer.body.memories = heard
      BY <2>1 DEF Effect, PageAnswer, Ok, Body
    <2>3. QED
      BY <1>1, <1>4, <1>9, <2>2
  <1>10. QED
    BY <1>5, <1>6, <1>7, <1>8, <1>9

-----------------------------------------------------------------------------
(* What the client makes of an answer. *)
LabelTrue(ask, raw, label) ==
    LET scope == rows[raw.id].scope
    IN  /\ ChecksThread =>
              /\ label.thread \in {None, scope.thread}
              /\ label.agentScope = "self" => scope.agent = label.agent
        /\ /\ ask.scope.thread # None
           /\ ask.op \in {"search", "package", "asOf"} \/ (ask.op = "list" /\ ChecksThread)
           /\ ChecksThread \/ "thread" \notin setup.ignores
           => scope.thread = ask.scope.thread

LEMMA HandleLabels ==
  ASSUME provider = "handle", NEW ask, IsAsk(provider, ask), NEW raw, Heard(ask, raw),
         ~Refused(provider, raw, Echoed(provider, ask.op, ask.scope))
  PROVE  LabelTrue(ask, raw, Label(provider, raw, Echoed(provider, ask.op, ask.scope)))
  <1> DEFINE scope == Echoed(provider, ask.op, ask.scope)
             label == Label(provider, raw, scope)
  <1>1. PICK row : row = rows[raw.id]
    OBVIOUS
  <1>2. DOMAIN ask.scope = ScopeFields /\ ask.op \in {"search", "list", "expand", "get"}
    BY DEF IsAsk, Routes, Heard
  <1>3. raw.thread \in {None, row.scope.thread}
    BY <1>1 DEF Heard
  <1>4. /\ DOMAIN scope = ScopeFields
        /\ ask.op = "search" => scope = ask.scope
        /\ ask.op # "search" => scope.agentScope = None
        /\ ask.op = "list" => scope.thread = ask.scope.thread
    BY <1>2 DEF Echoed, StripAgentScope, StripReadFilters, ScopeFields
  <1> HIDE DEF scope
  <1>5. label = IF raw.thread = None THEN scope ELSE [scope EXCEPT !.thread = raw.thread]
    BY DEF Label, BuildMemoryScope, Overwrite
  <1>6. scope.thread # None => raw.thread = scope.thread
    BY DEF Refused, ThreadMismatch, scope
  <1>7. /\ label.thread = IF raw.thread = None THEN scope.thread ELSE raw.thread
        /\ label.agentScope = scope.agentScope /\ label.agent = scope.agent
    BY <1>4, <1>5 DEF ScopeFields
  <1>8. label.thread \in {None, row.scope.thread}
    BY <1>3, <1>6, <1>7
  <1>9. ASSUME label.agentScope = "self" PROVE row.scope.agent = label.agent
    <2>1. ask.op = "search" /\ ask.scope.agentScope = "self" /\ label.agent = ask.scope.agent
      BY <1>4, <1>7, <1>9, CallsAssumption
    <2>2. PICK filters : filters = Forwarded(provider, ask.op, ask.scope)
      OBVIOUS
    <2>3. filters.agentScope = "self" /\ filters.agent = ask.scope.agent
      BY <2>1, <2>2 DEF Forwarded, HandleForwards, ScopeToFields, Only, ScopeFields
    <2>4. Applies(filters, row)
      BY <1>1, <2>2 DEF Heard
    <2>5. QED
      BY <2>1, <2>3, <2>4 DEF Applies
  <1>10. ASSUME ask.scope.thread # None, ask.op \in {"search", "list"}
         PROVE  row.scope.thread = ask.scope.thread
    BY <1>3, <1>4, <1>6, <1>10
  <1> HIDE DEF label
  <1>11. QED
    BY <1>1, <1>2, <1>8, <1>9, <1>10 DEF LabelTrue, label, scope

LEMMA CoreLabels ==
  ASSUME provider = "atomicmemory", NEW ask, IsAsk(provider, ask), NEW raw, Heard(ask, raw),
         ~Refused(provider, raw, Echoed(provider, ask.op, ask.scope))
  PROVE  LabelTrue(ask, raw, Label(provider, raw, Echoed(provider, ask.op, ask.scope)))
  <1> DEFINE scope == ask.scope
             named == IF raw.namespace = None THEN scope ELSE [scope EXCEPT !.namespace = raw.namespace]
             label == IF raw.thread = None THEN named ELSE [named EXCEPT !.thread = raw.thread]
  <1>1. PICK row : row = rows[raw.id]
    OBVIOUS
  <1>2. DOMAIN scope = ScopeFields /\ scope.agentScope = None
    BY DEF IsAsk
  <1>3. raw.thread \in {None, row.scope.thread}
    BY <1>1 DEF Heard
  <1>4. Echoed(provider, ask.op, ask.scope) = scope
    BY DEF Echoed
  <1>5. Label(provider, raw, scope) = label
    BY DEF Label, BuildScope, Overwrite
  <1>6. scope.thread # None => raw.thread = scope.thread
    BY <1>4 DEF Refused, ThreadMismatch
  <1>7. DOMAIN named = ScopeFields /\ named.thread = scope.thread /\ named.agentScope = None
    BY <1>2 DEF ScopeFields
  <1> HIDE DEF named
  <1>8. /\ label.thread = IF raw.thread = None THEN scope.thread ELSE raw.thread
        /\ label.agentScope = None
    BY <1>7 DEF ScopeFields
  <1> HIDE DEF label
  <1>9. label.thread \in {None, row.scope.thread} /\ label.agentScope # "self"
    BY <1>3, <1>6, <1>8, CallsAssumption
  <1>10. scope.thread # None => row.scope.thread = scope.thread
    BY <1>3, <1>6
  <1>11. QED
    BY <1>1, <1>4, <1>5, <1>9, <1>10 DEF LabelTrue

LEMMA OtherLabels ==
  ASSUME provider \in {"mem0", "hindsight"}, NEW ask, IsAsk(provider, ask), NEW raw,
         Heard(ask, raw), NEW label
  PROVE  LabelTrue(ask, raw, label)
  <1>1. PICK row, filters : row = rows[raw.id] /\ filters = Forwarded(provider, ask.op, ask.scope)
    OBVIOUS
  <1>2. Applies(filters, row)
    BY <1>1 DEF Heard
  <1>3. ASSUME ask.scope.thread # None, ask.op \in {"search", "package", "asOf"},
               "thread" \notin setup.ignores
        PROVE  row.scope.thread = ask.scope.thread
    <2>1. ask.op \in Routes[provider]
      BY DEF IsAsk
    <2>2. filters.thread = ask.scope.thread
      BY <1>1, <1>3, <2>1
         DEF Forwarded, Mem0Forwards, HindsightForwards, Only, ScopeFields, Routes
    <2>3. QED
      BY <1>2, <1>3, <2>2 DEF Applies
  <1>4. ~ChecksThread
    BY DEF ChecksThread
  <1>5. QED
    BY <1>1, <1>3, <1>4 DEF LabelTrue

LEMMA LabelsTrue ==
  ASSUME NumbersOK, NEW ask, IsAsk(provider, ask), NEW raw, Heard(ask, raw),
         ~Refused(provider, raw, Echoed(provider, ask.op, ask.scope))
  PROVE  LabelTrue(ask, raw, Label(provider, raw, Echoed(provider, ask.op, ask.scope)))
  <1>1. provider \in Providers
    BY CallsAssumption DEF NumbersOK, provider
  <1>2. QED
    BY <1>1, HandleLabels, CoreLabels, OtherLabels DEF Providers

Unmarked(id) ==
    Filtering /\ (\A i \in DOMAIN ResolvePatterns(setup.filter) :
                     ~ResolvePatterns(setup.filter)[i].global)
        => ~Meta(id)

LEMMA FilteredMemories ==
  ASSUME NumbersOK, DOMAIN lastIndex = DOMAIN ResolvePatterns(setup.filter),
         NEW ask, NEW X, NEW memories \in Seq(X)
  PROVE  /\ ToSet(ApplyMetaFactFilter(ask, memories).kept) \subseteq ToSet(memories)
         /\ ask.op \in {"search", "package", "asOf"} =>
               \A m \in ToSet(ApplyMetaFactFilter(ask, memories).kept) : Unmarked(m.id)
         /\ DOMAIN ApplyMetaFactFilter(ask, memories).last
               = DOMAIN ResolvePatterns(setup.filter)
  <1> DEFINE contents == ContentsOf(memories)
             P == ResolvePatterns(setup.filter)
             result == FilterMetaFacts(memories, contents, setup.filter, lastIndex)
             filtered == provider = "atomicmemory" /\ ask.op \in {"search", "package", "asOf"}
  <1>1. CASE ~filtered \/ ~setup.filter.enabled
    <2>1. ApplyMetaFactFilter(ask, memories) = [kept |-> memories, last |-> lastIndex]
      BY <1>1 DEF ApplyMetaFactFilter, FilterMetaFacts
    <2>2. ask.op \in {"search", "package", "asOf"} => ~Filtering
      BY <1>1 DEF Filtering
    <2>3. QED
      BY <2>1, <2>2 DEF Unmarked
  <1>2. CASE filtered /\ setup.filter.enabled
    <2>1. ApplyMetaFactFilter(ask, memories) = result
      BY <1>2 DEF ApplyMetaFactFilter
    <2>2. setup.filter.patterns \in Seq(ToSet(setup.filter.patterns))
      BY CallsAssumption DEF NumbersOK
    <2>3. KeptOf(result.kept, memories, contents, P)
      BY <1>2, <2>2, FilterResult
    <2>4. DOMAIN result.last = DOMAIN P
      BY <1>2, FilterLast
    <2> HIDE DEF result, P
    <2>5. ASSUME NEW m \in ToSet(result.kept) PROVE m \in ToSet(memories) /\ Unmarked(m.id)
      <3>1. PICK i \in DOMAIN result.kept : m = result.kept[i]
        BY <2>5 DEF ToSet
      <3>2. PICK j \in DOMAIN memories : m = memories[j] /\ Unmatched(P, contents[j])
        BY <2>3, <3>1 DEF KeptOf
      <3>3. contents[j] = rows[m.id].content
        BY <3>2 DEF ContentsOf
      <3>4. Unmarked(m.id)
        BY <3>2, <3>3 DEF Unmarked, Unmatched, Meta, P
      <3>5. QED
        BY <3>2, <3>4 DEF ToSet
    <2>6. QED
      BY <2>1, <2>4, <2>5 DEF P
  <1>3. QED
    BY <1>1, <1>2

LEMMA MapList ==
  ASSUME NEW ask, NEW raws, IsList(raws)
  PROVE  /\ Mapped(ask, raws) \in Seq(ToSet(Mapped(ask, raws)))
         /\ Len(Mapped(ask, raws)) = Len(raws)
         /\ \A m \in ToSet(Mapped(ask, raws)) : \E i \in DOMAIN raws :
               m = [id |-> raws[i].id,
                    label |-> Label(provider, raws[i], Echoed(provider, ask.op, ask.scope))]
  <1> DEFINE scope == Echoed(provider, ask.op, ask.scope)
             Labelled(raw) == [id |-> raw.id, label |-> Label(provider, raw, scope)]
             s == [i \in DOMAIN raws |-> Labelled(raws[i])]
  <1>1. Mapped(ask, raws) = s
    BY DEF Mapped
  <1>2. raws \in Seq(ToSet(raws))
    BY DEF IsList
  <1> HIDE DEF Labelled
  <1>3. Len(raws) \in Nat /\ DOMAIN raws = 1..Len(raws)
    BY <1>2
  <1>4. s \in Seq({s[i] : i \in DOMAIN raws}) /\ Len(s) = Len(raws)
    BY <1>3
  <1>5. s \in Seq(ToSet(s))
    BY <1>4, ListOf DEF IsList
  <1>6. \A m \in ToSet(s) : \E i \in DOMAIN raws : m = Labelled(raws[i])
    BY DEF ToSet
  <1>7. QED
    BY <1>1, <1>4, <1>5, <1>6 DEF Labelled

LEMMA CutList ==
  ASSUME NEW ask, ask.limit \in Nat \cup {None}, NEW X, NEW memories \in Seq(X)
  PROVE  Cut(ask, memories) \in Seq(X) /\ ToSet(Cut(ask, memories)) \subseteq ToSet(memories)
  <1>1. CASE Cut(ask, memories) = memories
    BY <1>1
  <1>2. CASE Cut(ask, memories) # memories
    <2>1. /\ Cut(ask, memories) = SubSeq(memories, 1, ask.limit)
          /\ ask.limit # None /\ Len(memories) > ask.limit
      BY <1>2 DEF Cut
    <2>2. Len(memories) \in Nat /\ ask.limit \in 0..Len(memories) /\ 1 \in 1..(Len(memories) + 1)
      BY <2>1
    <2>3. QED
      BY <2>1, <2>2, SliceResult
  <1>3. QED
    BY <1>1, <1>2

LEMMA ReadHonest ==
  ASSUME NumbersOK, DOMAIN lastIndex = DOMAIN ResolvePatterns(setup.filter),
         NEW ask, IsAsk(provider, ask), ask.offset \in Nat,
         NEW body, AllHeard(ask, body.memories), ~BodyRefused(ask, body)
  PROVE  /\ AllHonest(ask, Read(ask, body).memories)
         /\ Read(ask, body).cursor \in Nat \cup {None}
  <1> DEFINE raws   == body.memories
             mapped == Mapped(ask, raws)
             passed == ApplyMetaFactFilter(ask, Cut(ask, mapped)).kept
  <1>1. IsList(raws) /\ \A raw \in ToSet(raws) : Heard(ask, raw)
    BY DEF AllHeard
  <1>2. \A i \in DOMAIN raws :
           raws[i] \in ToSet(raws) /\ ~Refused(provider, raws[i], Echoed(provider, ask.op, ask.scope))
    BY DEF BodyRefused, ToSet
  <1>3. Read(ask, body).memories = passed /\ Read(ask, body).cursor = Cursor(ask, body)
    BY DEF Read
  <1>4. Len(raws) \in Nat
    BY <1>1 DEF IsList
  <1>5. Cursor(ask, body) \in Nat \cup {None}
    BY <1>4 DEF Cursor
  <1> HIDE DEF raws
  <1>6. /\ mapped \in Seq(ToSet(mapped))
        /\ \A m \in ToSet(mapped) : \E i \in DOMAIN raws :
               m = [id |-> raws[i].id,
                    label |-> Label(provider, raws[i], Echoed(provider, ask.op, ask.scope))]
    BY <1>1, MapList
  <1>7. ask.limit \in Nat \cup {None}
    BY DEF IsAsk
  <1> HIDE DEF mapped
  <1>8. Cut(ask, mapped) \in Seq(ToSet(mapped)) /\ ToSet(Cut(ask, mapped)) \subseteq ToSet(mapped)
    BY <1>6, <1>7, CutList
  <1>9. /\ ToSet(passed) \subseteq ToSet(mapped)
        /\ ask.op \in {"search", "package", "asOf"} => \A m \in ToSet(passed) : Unmarked(m.id)
    BY <1>8, FilteredMemories
  <1> HIDE DEF passed
  <1>10. ASSUME NEW m \in ToSet(passed) PROVE Honest(ask, m)
    <2>1. PICK i \in DOMAIN raws :
              m = [id |-> raws[i].id,
                   label |-> Label(provider, raws[i], Echoed(provider, ask.op, ask.scope))]
      BY <1>6, <1>9, <1>10
    <2>2. Heard(ask, raws[i])
      BY <1>1, <1>2
    <2>3. LabelTrue(ask, raws[i], m.label) /\ m.id = raws[i].id
      BY <1>2, <2>1, <2>2, LabelsTrue
    <2>4. ask.op \in {"search", "package", "asOf"} => Unmarked(m.id)
      BY <1>9, <1>10
    <2>5. QED
      BY <2>2, <2>3, <2>4 DEF Honest, LabelTrue, Heard, Unmarked, ScopeOf
  <1>11. QED
    BY <1>3, <1>5, <1>10 DEF AllHonest

LEMMA ErrorsRejected ==
  ASSUME NEW e, e \in ProviderErrors \cup {"Error"}
  PROVE  /\ Rejected(e).error # None /\ Rejected(e).memories = <<>> /\ Rejected(e).cursor = None
         /\ Nothing.memories = <<>> /\ Nothing.cursor = None
  BY NoneAssumption DEF Rejected, Nothing, WrapError, ProviderErrors

LEMMA FetchedBody ==
  ASSUME NEW ask, NEW answer
  PROVE  /\ Fetched(ask, answer).error \in ProviderErrors \cup {"Error", None}
         /\ ask.op # "delete" /\ Fetched(ask, answer).error = None /\ answer.status # 404 =>
               Readable(answer) /\ Fetched(ask, answer).value = answer.body
         /\ ask.op \notin {"get", "delete"} /\ answer.status = 404 =>
               Fetched(ask, answer).error # None
         /\ (ask.op = "delete" \/ answer.status = 404) /\ Fetched(ask, answer).error = None =>
               Fetched(ask, answer).value = None
  <1> USE NoneAssumption
      DEF Threw, Returned, ThrowForStatus, ProviderErrors, FetchJson, FetchJsonOrNull
  <1>1. CASE ask.op = "delete"
    BY <1>1 DEF Fetched, DeleteIgnore404, FetchVoid
  <1>2. CASE ask.op = "get"
    BY <1>2 DEF Fetched, Readable
  <1>3. CASE ask.op \notin {"get", "delete"}
    BY <1>3 DEF Fetched, Readable
  <1>4. QED
    BY <1>1, <1>2, <1>3

LEMMA ResultHonest ==
  ASSUME NumbersOK, DOMAIN lastIndex = DOMAIN ResolvePatterns(setup.filter),
         NEW ask, IsAsk(provider, ask), ask.offset \in Nat,
         NEW answer, Readable(answer) => AllHeard(ask, answer.body.memories)
  PROVE  /\ AllHonest(ask, Result(ask, answer).memories)
         /\ Result(ask, answer).cursor \in Nat \cup {None}
         /\ Result(ask, answer).error = None /\ answer.status = 200 /\ ask.op # "delete" =>
               Readable(answer)
  <1> DEFINE fetched == Fetched(ask, answer)
             result  == Result(ask, answer)
             void == ask.op \in {"get", "delete"} /\ fetched.value = None
             IsBlank(r) == r.memories = <<>> /\ r.cursor = None
  <1>1. /\ fetched.error \in ProviderErrors \cup {"Error", None}
        /\ ask.op # "delete" /\ fetched.error = None /\ answer.status # 404 =>
              Readable(answer) /\ fetched.value = answer.body
        /\ ~void /\ fetched.error = None => Readable(answer) /\ fetched.value = answer.body
    BY FetchedBody
  <1>2. /\ fetched.error # None => result = Rejected(fetched.error)
        /\ fetched.error = None /\ void => result = Nothing
        /\ fetched.error = None /\ ~void /\ BodyRefused(ask, fetched.value) =>
              result \in {Rejected("MemoryProviderError"), Rejected("Error")}
        /\ fetched.error = None /\ ~void /\ ~BodyRefused(ask, fetched.value) =>
              result = Read(ask, fetched.value)
    BY DEF Result
  <1> HIDE DEF fetched, result, void
  <1>3. ASSUME fetched.error # None
        PROVE  IsBlank(result) /\ result.error # None
    BY <1>1, <1>2, <1>3, ErrorsRejected
  <1>4. ASSUME fetched.error = None, void PROVE IsBlank(result)
    BY <1>2, <1>4, ErrorsRejected
  <1>5. ASSUME fetched.error = None, ~void, BodyRefused(ask, fetched.value)
        PROVE  IsBlank(result)
    BY <1>2, <1>5, ErrorsRejected DEF ProviderErrors
  <1>6. ASSUME IsBlank(result)
        PROVE  AllHonest(ask, result.memories) /\ result.cursor \in Nat \cup {None}
    BY <1>6, EmptyList DEF AllHonest
  <1>7. ASSUME fetched.error = None, ~void, ~BodyRefused(ask, fetched.value)
        PROVE  AllHonest(ask, result.memories) /\ result.cursor \in Nat \cup {None}
    <2>1. Readable(answer) /\ fetched.value = answer.body
      BY <1>1, <1>7
    <2>2. result = Read(ask, answer.body) /\ ~BodyRefused(ask, answer.body)
      BY <1>2, <1>7, <2>1
    <2>3. QED
      BY <2>1, <2>2, ReadHonest
  <1>8. result.error = None /\ answer.status = 200 /\ ask.op # "delete" => Readable(answer)
    BY <1>1, <1>3
  <1> HIDE DEF IsBlank
  <1>9. QED
    BY <1>3, <1>4, <1>5, <1>6, <1>7, <1>8 DEF result

-----------------------------------------------------------------------------
LEMMA AnswersStay ==
  ASSUME NEW c \in Callers, AnswersOK(c), Keeps, SameSetup, call'[c] = call[c]
  PROVE  AnswersOK(c)'
  <1>1. PICK u : u = call[c]
    OBVIOUS
  <1>2. Resolved(c)' <=> Resolved(c)
    BY DEF Resolved, Ended
  <1>3. ASSUME u.phase = "served", Readable(u.answer), AllHeard(u.ask, u.answer.body.memories)
        PROVE  AllHeard(u.ask, u.answer.body.memories)'
    BY <1>3, AllHeardStays
  <1>4. ASSUME AllHonest(u.ask, u.result.memories) PROVE AllHonest(u.ask, u.result.memories)'
    BY <1>4, AllHonestStays
  <1>5. AnswersOK(c) <=>
            (u.phase # "none" =>
                /\ u.ask.offset \in Nat
                /\ u.phase = "served" /\ Readable(u.answer) => AllHeard(u.ask, u.answer.body.memories)
                /\ u.phase = "done" =>
                      /\ u.result.cursor \in Nat \cup {None}
                      /\ Resolved(c) => AllHonest(u.ask, u.result.memories))
    BY <1>1 DEF AnswersOK
  <1>6. AnswersOK(c)' <=>
            (u.phase # "none" =>
                /\ u.ask.offset \in Nat
                /\ u.phase = "served" /\ Readable(u.answer) => AllHeard(u.ask, u.answer.body.memories)'
                /\ u.phase = "done" =>
                      /\ u.result.cursor \in Nat \cup {None}
                      /\ Resolved(c)' => AllHonest(u.ask, u.result.memories)')
    BY <1>1 DEF AnswersOK
  <1>7. QED
    BY <1>2, <1>3, <1>4, <1>5, <1>6

(* What a turn of c has to leave in its call. *)
LeavesAnswer(u) ==
    /\ u.phase # "none" /\ u.ask.offset \in Nat
    /\ u.phase = "served" /\ Readable(u.answer) => AllHeard(u.ask, u.answer.body.memories)
    /\ u.phase = "done" =>
          /\ u.result.cursor \in Nat \cup {None}
          /\ u.result.error = None => AllHonest(u.ask, u.result.memories)

LEMMA AnswersTurn ==
  ASSUME CallsInv, AnswersInv, Keeps, SameSetup, NEW c \in Callers, NEW u,
         call' = [call EXCEPT ![c] = u], LeavesAnswer(u),
         DOMAIN lastIndex' = DOMAIN lastIndex
  PROVE  AnswersInv'
  <1>1. call'[c] = u /\ \A d \in Callers \ {c} : call'[d] = call[d]
    BY DEF CallsInv, NumbersOK
  <1>2. \A d \in Callers \ {c} : AnswersOK(d)'
    BY <1>1, AnswersStay DEF AnswersInv
  <1>3. AnswersOK(c)'
    <2>1. ASSUME u.phase = "served", Readable(u.answer)
          PROVE  AllHeard(u.ask, u.answer.body.memories)'
      BY <2>1, AllHeardStays DEF LeavesAnswer
    <2>2. ASSUME u.phase = "done", u.result.error = None
          PROVE  AllHonest(u.ask, u.result.memories)'
      BY <2>2, AllHonestStays DEF LeavesAnswer
    <2>3. Resolved(c)' <=> u.phase = "done" /\ u.result.error = None
      BY <1>1 DEF Resolved, Ended
    <2>4. AnswersOK(c)' <=>
            (u.phase # "none" =>
                /\ u.ask.offset \in Nat
                /\ u.phase = "served" /\ Readable(u.answer) => AllHeard(u.ask, u.answer.body.memories)'
                /\ u.phase = "done" =>
                      /\ u.result.cursor \in Nat \cup {None}
                      /\ Resolved(c)' => AllHonest(u.ask, u.result.memories)')
      BY <1>1 DEF AnswersOK
    <2>5. QED
      BY <2>1, <2>2, <2>3, <2>4 DEF LeavesAnswer
  <1>4. setup' = setup
    BY DEF SameSetup
  <1>5. QED
    BY <1>2, <1>3, <1>4 DEF AnswersInv

LEMMA AnswerServed ==
  ASSUME CallsInv, AnswersInv, Keeps, SameSetup, NEW c \in Callers, Serve(c)
  PROVE  AnswersInv'
  <1>1. PICK ask, n : ask = call[c].ask /\ n = call[c].n
    OBVIOUS
  <1>2. PICK effect, answer :
            /\ effect \in Effects(call[c].request)
            /\ Answer(c, answer)
            /\ answer = effect.answer \/ answer = Ok(Garbled)
    BY DEF Serve
  <1> DEFINE u == [phase |-> "served", ask |-> ask, n |-> n, answer |-> answer]
  <1>3. call[c].phase = "sent" /\ call' = [call EXCEPT ![c] = u]
    BY <1>1, <1>2 DEF Serve, Answer
  <1>4. u.phase = "served" /\ u.ask = ask /\ u.answer = answer
    OBVIOUS
  <1> HIDE DEF u
  <1>5. call[c].request = Request(ask, n) /\ IsAsk(provider, ask) /\ RowsOK
    BY <1>1, <1>3 DEF CallsInv, CallOK, NumbersOK
  <1>6. ask.offset \in Nat
    BY <1>1, <1>3 DEF AnswersInv, AnswersOK
  <1>7. Readable(answer) => AllHeard(ask, answer.body.memories)
    <2>1. ~Readable(Ok(Garbled))
      BY DEF Readable, Ok
    <2>2. QED
      BY <1>2, <1>5, <1>6, <2>1, AnswerHeard
  <1>8. LeavesAnswer(u)
    BY <1>4, <1>6, <1>7 DEF LeavesAnswer
  <1>9. QED
    BY <1>3, <1>8, AnswersTurn DEF Serve

LEMMA AnswerRejected ==
  ASSUME CallsInv, AnswersInv, Keeps, SameSetup, NEW c \in Callers, Reject(c)
  PROVE  AnswersInv'
  <1>1. PICK ask : ask = call[c].ask
    OBVIOUS
  <1>2. PICK answer \in Errors : Answer(c, answer)
    BY DEF Reject
  <1> DEFINE u == [phase |-> "served", ask |-> ask, n |-> call[c].n, answer |-> answer]
  <1>3. call[c].phase = "sent" /\ call' = [call EXCEPT ![c] = u]
    BY <1>1, <1>2 DEF Reject, Answer
  <1>4. u.phase = "served" /\ u.ask = ask /\ u.answer = answer
    OBVIOUS
  <1> HIDE DEF u
  <1>5. ask.offset \in Nat
    BY <1>1, <1>3 DEF AnswersInv, AnswersOK
  <1>6. Readable(answer) => AllHeard(ask, answer.body.memories)
    <2>1. answer.status \in {429, 500} \/ answer = Failure
      BY DEF Errors
    <2>2. answer.status \in {429, 500} => ~Readable(answer)
      BY NoneAssumption DEF Readable, ThrowForStatus
    <2>3. Failure.body.memories = <<>>
      BY DEF Failure, Ok, Body
    <2>4. QED
      BY <2>1, <2>2, <2>3, NoneHeard
  <1>7. LeavesAnswer(u)
    BY <1>4, <1>5, <1>6 DEF LeavesAnswer
  <1>8. QED
    BY <1>3, <1>7, AnswersTurn DEF Reject

LEMMA AnswerQueued ==
  ASSUME CallsInv, AnswersInv, Keeps, SameSetup, NEW c \in Callers, Queue(c)
  PROVE  AnswersInv'
  <1>1. PICK u : /\ u.phase = "served" /\ u.ask = call[c].ask
                 /\ call' = [call EXCEPT ![c] = u]
                 /\ u.answer.body = Garbled \/ u.answer.body.memories = <<>>
    BY QueueTells
  <1>2. call[c].ask.offset \in Nat
    BY DEF Queue, AnswersInv, AnswersOK
  <1>3. Readable(u.answer) => AllHeard(u.ask, u.answer.body.memories)
    BY <1>1, NoneHeard DEF Readable
  <1>4. LeavesAnswer(u)
    BY <1>1, <1>2, <1>3 DEF LeavesAnswer
  <1>5. QED
    BY <1>1, <1>4, AnswersTurn DEF Queue

LEMMA AnswerReceived ==
  ASSUME CallsInv, AnswersInv, Keeps, SameSetup, NEW c \in Callers, Receive(c)
  PROVE  AnswersInv'
  <1>1. PICK ask, answer, result :
            ask = call[c].ask /\ answer = call[c].answer /\ result = Result(ask, answer)
    OBVIOUS
  <1> DEFINE u == Done(ask, call[c].n, result)
             mapped == Mapped(ask, answer.body.memories)
  <1>2. /\ call[c].phase = "served" /\ call' = [call EXCEPT ![c] = u]
        /\ lastIndex' = IF result.error = None /\ answer.status = 200 /\ ask.op # "delete"
                        THEN ApplyMetaFactFilter(ask, mapped).last ELSE lastIndex
    BY <1>1 DEF Receive
  <1>3. u.phase = "done" /\ u.ask = ask /\ u.result = result
    BY DEF Done
  <1> HIDE DEF u
  <1>4. NumbersOK /\ IsAsk(provider, ask)
    BY <1>1, <1>2 DEF CallsInv, NumbersOK
  <1>5. /\ ask.offset \in Nat /\ (Readable(answer) => AllHeard(ask, answer.body.memories))
        /\ DOMAIN lastIndex = DOMAIN ResolvePatterns(setup.filter)
    BY <1>1, <1>2 DEF AnswersInv, AnswersOK
  <1>6. /\ AllHonest(ask, result.memories) /\ result.cursor \in Nat \cup {None}
        /\ result.error = None /\ answer.status = 200 /\ ask.op # "delete" => Readable(answer)
    BY <1>1, <1>4, <1>5, ResultHonest
  <1>7. LeavesAnswer(u)
    BY <1>3, <1>5, <1>6 DEF LeavesAnswer
  <1>8. DOMAIN lastIndex' = DOMAIN lastIndex
    <2>1. ASSUME Readable(answer)
          PROVE  DOMAIN ApplyMetaFactFilter(ask, mapped).last = DOMAIN lastIndex
      <3>1. mapped \in Seq(ToSet(mapped))
        BY <1>5, <2>1, MapList DEF AllHeard
      <3> HIDE DEF mapped
      <3>2. QED
        BY <1>4, <1>5, <3>1, FilteredMemories
    <2> HIDE DEF mapped
    <2>2. QED
      BY <1>2, <1>6, <2>1
  <1>9. QED
    BY <1>2, <1>7, <1>8, AnswersTurn

LEMMA AnswersStepOK ==
  ASSUME CallsInv, AnswersInv, [CallsNext]_callVars
  PROVE  AnswersInv'
  <1>1. Keeps /\ SameSetup
    BY StepKeeps
  <1>2. ASSUME NEW c \in Callers, NEW ask \in Inputs[provider], Begin(c, ask) PROVE AnswersInv'
    <2>1. \E n : Send(c, ask, n, FirstPage(ask))
      BY <1>2 DEF Begin
    <2>2. PICK n : /\ call' = [call EXCEPT ![c] = [phase |-> "sent", ask |-> ask, n |-> n,
                                                   request |-> Request(ask, n)]]
                   /\ lastIndex' = lastIndex
      BY <2>1 DEF Send
    <2> DEFINE u == [phase |-> "sent", ask |-> ask, n |-> n, request |-> Request(ask, n)]
    <2>3. call' = [call EXCEPT ![c] = u] /\ u.phase = "sent" /\ u.ask = ask
      BY <2>2
    <2> HIDE DEF u
    <2>4. ask.offset \in Nat
      BY CallsAssumption DEF CallsInv, NumbersOK, provider
    <2>5. LeavesAnswer(u)
      BY <2>3, <2>4 DEF LeavesAnswer
    <2>6. QED
      BY <1>1, <2>2, <2>3, <2>5, AnswersTurn
  <1>3. ASSUME NEW c \in Callers, NEW ask \in Inputs[provider], Refuse(c, ask) PROVE AnswersInv'
    <2> DEFINE result == [Nothing EXCEPT !.error = Refusal(ask)]
               u == Done(ask, 0, result)
    <2>1. call' = [call EXCEPT ![c] = u] /\ lastIndex' = lastIndex
      BY <1>3 DEF Refuse
    <2>2. u.phase = "done" /\ u.ask = ask /\ u.result.error # None /\ u.result.cursor = None
      BY <1>3 DEF Refuse, Done, Nothing
    <2> HIDE DEF u
    <2>3. ask.offset \in Nat
      BY CallsAssumption DEF CallsInv, NumbersOK, provider
    <2>4. LeavesAnswer(u)
      BY <2>2, <2>3 DEF LeavesAnswer
    <2>5. QED
      BY <1>1, <2>1, <2>4, AnswersTurn
  <1>4. ASSUME NEW c \in Callers, Follow(c) PROVE AnswersInv'
    <2> DEFINE ask == [call[c].ask EXCEPT !.offset = call[c].result.cursor]
               u == [phase |-> "sent", ask |-> ask, n |-> 0, request |-> Request(ask, 0)]
    <2>1. call' = [call EXCEPT ![c] = u] /\ lastIndex' = lastIndex
      BY <1>4 DEF Follow, Send
    <2>2. IsAsk(provider, call[c].ask) /\ call[c].phase = "done"
      BY <1>4 DEF Follow, CallsInv, NumbersOK
    <2>3. call[c].result.cursor \in Nat
      BY <1>4, <2>2 DEF AnswersInv, AnswersOK, Follow
    <2>4. u.phase = "sent" /\ u.ask.offset \in Nat
      BY <2>2, <2>3 DEF IsAsk, AskFields
    <2> HIDE DEF u
    <2>5. LeavesAnswer(u)
      BY <2>4 DEF LeavesAnswer
    <2>6. QED
      BY <1>1, <2>1, <2>5, AnswersTurn
  <1>5. ASSUME NEW c \in Callers, TimeOut(c) PROVE AnswersInv'
    <2> DEFINE u == Done(call[c].ask, call[c].n, Rejected("Error"))
    <2>1. call' = [call EXCEPT ![c] = u] /\ lastIndex' = lastIndex
      BY <1>5 DEF TimeOut
    <2>2. u.phase = "done" /\ u.ask = call[c].ask /\ u.result.error # None /\ u.result.cursor = None
      BY ErrorsRejected DEF Done
    <2> HIDE DEF u
    <2>3. call[c].ask.offset \in Nat
      BY <1>5 DEF TimeOut, InFlight, AnswersInv, AnswersOK
    <2>4. LeavesAnswer(u)
      BY <2>2, <2>3 DEF LeavesAnswer
    <2>5. QED
      BY <1>1, <2>1, <2>4, AnswersTurn
  <1>6. ASSUME call' = call, lastIndex' = lastIndex PROVE AnswersInv'
    <2>1. setup' = setup
      BY <1>1 DEF SameSetup
    <2>2. \A c \in Callers : AnswersOK(c)'
      BY <1>1, <1>6, AnswersStay DEF AnswersInv
    <2>3. QED
      BY <1>6, <2>1, <2>2 DEF AnswersInv
  <1>7. CASE ServeLate \/ LoseLate \/ UNCHANGED callVars
    BY <1>6, <1>7 DEF ServeLate, LoseLate, callVars
  <1>8. QED
    BY <1>1, <1>2, <1>3, <1>4, <1>5, <1>7, AnswerServed, AnswerQueued, AnswerRejected,
       AnswerReceived
       DEF CallsNext

LEMMA AnswersInvHolds == CallsSpec => []AnswersInv
  <1>1. CallsInit => AnswersInv
    BY DEF CallsInit, NoCall, AnswersInv, AnswersOK
  <1>2. CallsInv /\ AnswersInv /\ [CallsNext]_callVars => AnswersInv'
    BY AnswersStepOK
  <1>3. QED
    BY <1>1, <1>2, CallsInvHolds, PTL DEF CallsSpec

(* A caller can rely on the scope it asked for and on the one it is told:  *)
(* threads and agents are those of the stored memory, and what a search or *)
(* list for a thread delivers is of that thread (handle-impl.ts,           *)
(* buildMemoryScope; mappers.ts, buildScope).                              *)
THEOREM ScopesAreKept == CallsSpec => []ScopesKept
  <1>1. AnswersInv => ScopesKept
    <2> SUFFICES ASSUME AnswersInv, NEW c \in Callers, NEW m \in Delivered(c)
                 PROVE  Honest(call[c].ask, m)
      BY DEF ScopesKept, LabelsAreTrue, ThreadIsolation, Honest
    <2>1. Resolved(c) /\ m \in ToSet(call[c].result.memories)
      BY DEF Delivered
    <2>2. QED
      BY <2>1 DEF AnswersInv, AnswersOK, AllHonest, Resolved, Ended
  <1>2. QED
    BY <1>1, AnswersInvHolds, PTL

(* No search route returns a meta-fact of the active patterns, unless one  *)
(* of them carries the flag g (meta-fact-filter.ts).                       *)
THEOREM NoMetaFacts == CallsSpec => []NoMetaFactInResults
  <1>1. AnswersInv => NoMetaFactInResults
    <2> SUFFICES ASSUME AnswersInv, Filtering,
                        \A i \in DOMAIN lastIndex : ~ResolvePatterns(setup.filter)[i].global,
                        NEW c \in Callers, Searched(c), NEW m \in Delivered(c)
                 PROVE  ~Meta(m.id)
      BY DEF NoMetaFactInResults
    <2>1. Resolved(c) /\ m \in ToSet(call[c].result.memories)
      BY DEF Delivered
    <2>2. Honest(call[c].ask, m)
      BY <2>1 DEF AnswersInv, AnswersOK, AllHonest, Resolved, Ended
    <2>3. DOMAIN lastIndex = DOMAIN ResolvePatterns(setup.filter)
      BY DEF AnswersInv
    <2>4. QED
      BY <2>2, <2>3 DEF Honest, Searched
  <1>2. QED
    BY <1>1, AnswersInvHolds, PTL

-----------------------------------------------------------------------------
(* Enumerations.  A walk that nothing has disturbed has read the list up   *)
(* to the next offset, and the page it is given continues it.              *)
Along(ask, w, k) ==
    /\ w.open /\ (provider = "mem0" => k % ask.limit = 0)
    /\ w.clean =>
          /\ w.wanted = Matching(Forwarded(provider, ask.op, ask.scope))
          /\ k <= Len(w.wanted) /\ w.seen = SubSeq(w.wanted, 1, k)

EndOfPage(ask, w) ==
    IF ask.offset + ask.limit < Len(w.wanted) THEN ask.offset + ask.limit ELSE Len(w.wanted)

Continues(ask, w, body) ==
    /\ [i \in DOMAIN body.memories |-> body.memories[i].id]
           = SubSeq(w.wanted, ask.offset + 1, EndOfPage(ask, w))
    /\ body.total \in {None, Len(w.wanted)}

Walks(u, w) ==
    /\ DOMAIN w = {"open", "clean", "seen", "wanted", "complete"}
    /\ w.open => ~w.complete
    /\ w.complete /\ w.clean => w.seen = w.wanted
    /\ u.phase \in {"sent", "served"} /\ u.ask.op = "list" => Along(u.ask, w, u.ask.offset)
    /\ u.phase = "served" /\ u.ask.op = "list" /\ Readable(u.answer) /\ w.clean =>
          Continues(u.ask, w, u.answer.body)
    /\ u.phase = "done" /\ u.result.cursor # None => Along(u.ask, w, u.result.cursor)

AreWalks(w) == w = [c \in Callers |-> w[c]]
WalkInv == AreWalks(walk) /\ \A c \in Callers : Walks(call[c], walk[c])

LEMMA Multiples ==
  ASSUME NEW k \in Nat, NEW l \in Nat \ {0}, k % l = 0
  PROVE  (k + l) % l = 0 /\ (k \div l) * l = k /\ k \div l \in Nat
  <1> DEFINE q == k \div l
             d == (k + l) \div l
             r == (k + l) % l
  <1>1. q \in Nat /\ d \in Nat /\ r \in 0..(l - 1)
    OBVIOUS
  <1>2. k = l * q /\ k + l = l * d + r
    OBVIOUS
  <1> HIDE DEF q, d, r
  <1>3. \A x \in Int : (x >= 1 => l * x >= l) /\ (x <= 0 => l * x <= 0)
    OBVIOUS
  <1>4. l * (q + 1 - d) = r
    BY <1>1, <1>2
  <1>5. r = 0
    <2> DEFINE x == q + 1 - d
    <2>1. x \in Int /\ (x >= 1 \/ x <= 0) /\ l * x = r
      BY <1>1, <1>4
    <2> HIDE DEF x
    <2>2. l * x >= l \/ l * x <= 0
      BY <2>1, <1>3
    <2>3. QED
      BY <2>1, <2>2, <1>1
  <1>6. QED
    BY <1>1, <1>2, <1>5 DEF r, q

LEMMA PagesJoin ==
  ASSUME NEW X, NEW s \in Seq(X), NEW k \in 0..Len(s), NEW e \in k..Len(s)
  PROVE  /\ SubSeq(s, 1, k) \o SubSeq(s, k + 1, e) = SubSeq(s, 1, e)
         /\ Len(SubSeq(s, k + 1, e)) = e - k
         /\ SubSeq(s, 1, Len(s)) = s
  <1> DEFINE a == SubSeq(s, 1, k)
             b == SubSeq(s, k + 1, e)
             t == SubSeq(s, 1, e)
  <1>1. Len(s) \in Nat /\ k \in Nat /\ e \in Nat
    OBVIOUS
  <1>2. /\ a \in Seq(X) /\ Len(a) = k /\ \A i \in 1..k : a[i] = s[i]
        /\ b \in Seq(X) /\ Len(b) = e - k /\ \A i \in 1..(e - k) : b[i] = s[k + i]
        /\ t \in Seq(X) /\ Len(t) = e /\ \A i \in 1..e : t[i] = s[i]
    <2>1. /\ 1 \in Int /\ k \in Int /\ e \in Int /\ k + 1 \in Int
          /\ \A i \in 1..k : s[i] \in X
          /\ \A i \in (k + 1)..e : s[i] \in X
          /\ \A i \in 1..e : s[i] \in X
      BY <1>1
    <2>2. /\ a \in Seq(X) /\ Len(a) = (IF 1 <= k THEN k - 1 + 1 ELSE 0)
          /\ \A i \in 1..(k - 1 + 1) : a[i] = s[1 + i - 1]
      BY <2>1, SubSeqProperties
    <2>3. /\ b \in Seq(X) /\ Len(b) = (IF k + 1 <= e THEN e - (k + 1) + 1 ELSE 0)
          /\ \A i \in 1..(e - (k + 1) + 1) : b[i] = s[k + 1 + i - 1]
      BY <2>1, SubSeqProperties
    <2>4. /\ t \in Seq(X) /\ Len(t) = (IF 1 <= e THEN e - 1 + 1 ELSE 0)
          /\ \A i \in 1..(e - 1 + 1) : t[i] = s[1 + i - 1]
      BY <2>1, SubSeqProperties
    <2> HIDE DEF a, b, t
    <2>5. QED
      BY <1>1, <2>2, <2>3, <2>4
  <1> HIDE DEF a, b, t
  <1>3. /\ Len(a \o b) = e /\ a \o b \in Seq(X)
        /\ \A i \in 1..e : (a \o b)[i] = IF i <= k THEN a[i] ELSE b[i - k]
    <2>1. /\ a \o b \in Seq(X) /\ Len(a \o b) = Len(a) + Len(b)
          /\ \A i \in 1..(Len(a) + Len(b)) :
                (a \o b)[i] = IF i <= Len(a) THEN a[i] ELSE b[i - Len(a)]
      BY <1>2, ConcatProperties
    <2>2. Len(a) = k /\ Len(a) + Len(b) = e
      BY <1>1, <1>2
    <2>3. QED
      BY <2>1, <2>2
  <1>4. ASSUME NEW i \in 1..e PROVE (a \o b)[i] = t[i]
    <2>1. CASE i <= k
      BY <1>1, <1>2, <1>3, <2>1
    <2>2. CASE i > k
      <3>1. i - k \in 1..(e - k) /\ k + (i - k) = i
        BY <1>1, <2>2
      <3>2. (a \o b)[i] = b[i - k]
        BY <1>1, <1>3, <2>2
      <3>3. QED
        BY <1>2, <3>1, <3>2
    <2>3. i <= k \/ i > k
      BY <1>1
    <2>4. QED
      BY <2>1, <2>2, <2>3
  <1>5. a \o b = t
    <2>1. PICK ab : ab = a \o b
      OBVIOUS
    <2>2. /\ ab \in Seq(X) /\ t \in Seq(X) /\ Len(ab) = Len(t)
          /\ \A i \in 1..Len(ab) : ab[i] = t[i]
      BY <1>2, <1>3, <1>4, <2>1
    <2>3. ab = t
      BY ONLY <2>2, SeqEqual
    <2>4. QED
      BY <2>1, <2>3
  <1>6. SubSeq(s, 1, Len(s)) = s
    BY SubSeqFull
  <1>7. QED
    BY <1>2, <1>5, <1>6 DEF a, b, t

-----------------------------------------------------------------------------
LEMMA SameMatches ==
  ASSUME SameSetup, rows' = rows, alive' = alive, NEW filters
  PROVE  Matching(filters)' = Matching(filters)
  BY DEF SameSetup, Matching, Applies, provider

LEMMA AlongStays ==
  ASSUME SameSetup, rows' = rows, alive' = alive, NEW ask, NEW w, NEW k, Along(ask, w, k)
  PROVE  Along(ask, w, k)'
  <1>1. PICK f : f = Forwarded(provider, ask.op, ask.scope)
    OBVIOUS
  <1>2. provider' = provider /\ Forwarded(provider, ask.op, ask.scope)' = f
    BY <1>1, SameAnswers
  <1>3. Matching(f)' = Matching(f)
    BY SameMatches
  <1>4. Matching(Forwarded(provider, ask.op, ask.scope)) = Matching(f)
        /\ Matching(Forwarded(provider, ask.op, ask.scope))' = Matching(f)'
    BY <1>1, <1>2
  <1>5. QED
    BY <1>2, <1>3, <1>4 DEF Along

LEMMA WalksStay ==
  ASSUME SameSetup, rows' = rows, alive' = alive, NEW u, NEW w, Walks(u, w)
  PROVE  Walks(u, w)'
  <1>1. \A ask, k : Along(ask, w, k) => Along(ask, w, k)'
    BY AlongStays
  <1>2. QED
    BY <1>1 DEF Walks

(* Whoever was reading pages when a memory came or went is not undisturbed *)
(* any more.                                                               *)
LEMMA WalksDisturbed ==
  ASSUME SameSetup, NEW u, NEW w, Walks(u, w),
         NEW v, v = [w EXCEPT !.clean = w.clean /\ ~w.open]
  PROVE  Walks(u, v)'
  <1>1. /\ DOMAIN v = {"open", "clean", "seen", "wanted", "complete"}
        /\ v.open = w.open /\ v.complete = w.complete /\ v.seen = w.seen /\ v.wanted = w.wanted
        /\ v.clean <=> (w.clean /\ ~w.open)
    BY DEF Walks
  <1>2. provider' = provider
    BY DEF SameSetup, provider
  <1>3. \A ask, k : Along(ask, w, k) => Along(ask, v, k)' /\ ~v.clean
    BY <1>1, <1>2 DEF Along
  <1>4. QED
    BY <1>1, <1>3 DEF Walks

LEMMA SameMemories ==
  ASSUME RowsOK, sentIngests \in Nat, NEW request, Carries(request), MemoriesAfter(request),
         alive' = alive
  PROVE  rows' = rows
  <1>1. CASE request.op # "ingest"
    BY <1>1 DEF MemoriesAfter
  <1>2. CASE request.op = "ingest"
    <2>1. PICK k \in {0, 1, 2} : /\ DOMAIN rows' = 1..(Len(rows) + k)
                                 /\ alive' = alive \cup (Len(rows) + 1 .. Len(rows) + k)
      BY <1>2 DEF MemoriesAfter, Added
    <2>2. Len(rows) \in Nat /\ DOMAIN rows = 1..Len(rows) /\ rows \in Seq(ToSet(rows))
      BY DEF RowsOK, IsList
    <2>3. k = 0
      <3>1. \A i \in Len(rows) + 1 .. Len(rows) + k : i \in DOMAIN rows
        BY <2>1 DEF RowsOK
      <3>2. k # 0 => Len(rows) + 1 \in Len(rows) + 1 .. Len(rows) + k
        BY <2>2
      <3>3. Len(rows) + 1 \notin DOMAIN rows
        BY <2>2
      <3>4. QED
        BY <3>1, <3>2, <3>3
    <2>4. DOMAIN rows' = DOMAIN rows /\ \A i \in DOMAIN rows : rows'[i] = rows[i]
      BY <2>1, <2>2, <2>3 DEF MemoriesAfter, Keeps
    <2>5. rows' \in Seq(ToSet(rows'))
      BY <1>2 DEF MemoriesAfter, IsList
    <2>6. QED
      BY <2>2, <2>4, <2>5
  <1>3. QED
    BY <1>1, <1>2

LEMMA WalksAside ==
  ASSUME CallsInv, WalkInv, SameSetup, NEW request, NEW effect \in Effects(request),
         Leaves(effect), MemoriesAfter(request)
  PROVE  /\ AreWalks(walk')
         /\ effect.alive = alive => rows' = rows /\ alive' = alive
         /\ \A d \in Callers : \A u, w : u = call[d] /\ w = walk'[d] => Walks(u, w)'
  <1>1. Carries(request) /\ RowsOK /\ sentIngests \in Nat
    BY DEF Carries, CallsInv, NumbersOK
  <1>2. CASE effect.alive = alive
    <2>1. alive' = alive /\ walk' = walk
      BY <1>2 DEF Leaves
    <2>2. rows' = rows
      BY <1>1, <2>1, SameMemories
    <2>3. ASSUME NEW d \in Callers, NEW u, NEW w, u = call[d], w = walk'[d]
          PROVE  Walks(u, w)'
      <3>1. Walks(u, w)
        BY <2>1, <2>3 DEF WalkInv
      <3>2. QED
        BY <2>1, <2>2, <3>1, WalksStay
    <2>4. AreWalks(walk')
      BY <2>1 DEF WalkInv, AreWalks
    <2>5. QED
      BY <2>1, <2>2, <2>3, <2>4
  <1>3. CASE effect.alive # alive
    <2>1. walk' = [d \in Callers |-> [walk[d] EXCEPT !.clean = walk[d].clean /\ ~walk[d].open]]
      BY <1>3 DEF Leaves
    <2>2. ASSUME NEW d \in Callers, NEW u, NEW w, u = call[d], w = walk'[d]
          PROVE  Walks(u, w)'
      <3>1. PICK v : v = walk[d]
        OBVIOUS
      <3>2. w = [v EXCEPT !.clean = v.clean /\ ~v.open]
        BY <2>1, <2>2, <3>1
      <3>3. Walks(u, v)
        BY <2>2, <3>1 DEF WalkInv
      <3>4. QED
        BY <3>2, <3>3, WalksDisturbed
    <2>3. AreWalks(walk')
      BY <2>1 DEF AreWalks
    <2>4. QED
      BY <1>3, <2>2, <2>3
  <1>4. QED
    BY <1>2, <1>3

LEMMA WalksTurn ==
  ASSUME CallsInv, WalkInv, SameSetup, rows' = rows, alive' = alive,
         NEW c \in Callers, NEW u, NEW w, call' = [call EXCEPT ![c] = u],
         walk' = [walk EXCEPT ![c] = w], Walks(u, w)
  PROVE  WalkInv'
  <1>1. /\ call'[c] = u /\ walk'[c] = w /\ AreWalks(walk')
        /\ \A d \in Callers \ {c} : call'[d] = call[d] /\ walk'[d] = walk[d]
    BY DEF CallsInv, NumbersOK, WalkInv, AreWalks
  <1>2. \A d \in Callers : \E v, x : v = call'[d] /\ x = walk'[d] /\ Walks(v, x)
    BY <1>1 DEF WalkInv
  <1>3. ASSUME NEW d \in Callers PROVE Walks(call[d], walk[d])'
    <2>1. PICK v, x : v = call'[d] /\ x = walk'[d] /\ Walks(v, x)
      BY <1>2
    <2>2. Walks(v, x)'
      BY <2>1, WalksStay
    <2>3. QED
      BY <2>1, <2>2
  <1>4. QED
    BY <1>1, <1>3 DEF WalkInv

LEMMA SkipsOffset ==
  ASSUME NEW ask, ask.offset \in Nat, ask.limit \in Nat \ {0},
         provider = "mem0" => ask.offset % ask.limit = 0
  PROVE  Skipped(ask) = ask.offset
  <1>1. CASE provider # "mem0"
    BY <1>1 DEF Skipped
  <1>2. CASE provider = "mem0" /\ ask.offset > 0
    <2> DEFINE q == ask.offset \div ask.limit
    <2>1. q \in Nat /\ q * ask.limit = ask.offset
      BY <1>2, Multiples
    <2>2. Skipped(ask) = ((q + 1) - 1) * ask.limit
      BY <1>2 DEF Skipped, Mem0Page
    <2> HIDE DEF q
    <2>3. (q + 1) - 1 = q
      BY <2>1
    <2>4. QED
      BY <2>1, <2>2, <2>3
  <1>3. CASE provider = "mem0" /\ ask.offset = 0
    BY <1>3 DEF Skipped, Mem0Page
  <1>4. QED
    BY <1>1, <1>2, <1>3

LEMMA PageTells ==
  ASSUME NEW request, NEW s, s = Page(request), NEW body, body = PageAnswer(request).body
  PROVE  /\ DOMAIN body.memories = DOMAIN s
         /\ \A i \in DOMAIN s : body.memories[i] = Raw(s[i])
         /\ body.total = IF setup.total THEN Len(Matching(request.filters)) ELSE None
  <1> DEFINE memories == [i \in DOMAIN Page(request) |-> Raw(Page(request)[i])]
             total    == IF setup.total THEN Len(Matching(request.filters)) ELSE None
  <1>1. body = [Body EXCEPT !.memories = memories, !.total = total]
    BY DEF PageAnswer, Ok
  <1>2. memories = [i \in DOMAIN s |-> Raw(s[i])]
    OBVIOUS
  <1> HIDE DEF memories, total
  <1>3. body.memories = memories /\ body.total = total
    BY <1>1 DEF Body
  <1>4. QED
    BY <1>2, <1>3 DEF total

LEMMA WalkServed ==
  ASSUME CallsInv, AnswersInv, WalkInv, SameSetup, NEW c \in Callers, Serve(c)
  PROVE  WalkInv'
  <1>1. PICK ask, n, request : ask = call[c].ask /\ n = call[c].n /\ request = call[c].request
    OBVIOUS
  <1>2. PICK effect, answer :
            /\ effect \in Effects(request) /\ Leaves(effect)
            /\ Answer(c, answer)
            /\ answer = effect.answer \/ answer = Ok(Garbled)
    BY <1>1 DEF Serve
  <1> DEFINE u == [phase |-> "served", ask |-> ask, n |-> n, answer |-> answer]
  <1>3. call[c].phase = "sent" /\ call' = [call EXCEPT ![c] = u]
    BY <1>1, <1>2 DEF Serve, Answer
  <1>4. u.phase = "served" /\ u.ask = ask /\ u.answer = answer
    OBVIOUS
  <1> HIDE DEF u
  <1>5. call'[c] = u /\ \A d \in Callers \ {c} : call'[d] = call[d]
    BY <1>3 DEF CallsInv, NumbersOK
  <1>6. request = Request(ask, n) /\ IsAsk(provider, ask) /\ RowsOK /\ ask.offset \in Nat
    BY <1>1, <1>3 DEF CallsInv, CallOK, NumbersOK, AnswersInv, AnswersOK
  <1>7. Carries(request) /\ MemoriesAfter(request)
    BY <1>2, <1>6, CarriedOut DEF Carries
  <1>8. /\ AreWalks(walk')
        /\ effect.alive = alive => rows' = rows /\ alive' = alive
        /\ \A d \in Callers : \A v, w : v = call[d] /\ w = walk'[d] => Walks(v, w)'
    BY <1>2, <1>7, WalksAside
  <1>9. PICK w : w = walk'[c]
    OBVIOUS
  <1>10. PICK v : v = call[c]
    OBVIOUS
  <1>11. Walks(v, w)' /\ v.phase = "sent" /\ v.ask = ask
    BY <1>1, <1>3, <1>8, <1>9, <1>10
  <1>12. Walks(u, w)'
    <2>1. ASSUME ask.op = "list", Readable(answer), w.clean
          PROVE  Continues(ask, w, answer.body)
      <3>1. answer = effect.answer
        <4>1. ~Readable(Ok(Garbled))
          BY DEF Readable, Ok
        <4>2. QED
          BY <1>2, <2>1, <4>1
      <3>2. effect = Effect(rows, alive, PageAnswer(request))
        <4>1. request.op = "list"
          BY <1>6, <2>1, RequestFields
        <4>2. QED
          BY <1>2, <4>1, EffectOfPages
      <3>3. answer.body = PageAnswer(request).body /\ rows' = rows /\ alive' = alive
        BY <1>8, <3>1, <3>2 DEF Effect
      <3>4. Along(ask, w, ask.offset)'
        BY <1>11, <2>1 DEF Walks
      <3>5. PICK f : f = Forwarded(provider, ask.op, ask.scope)
        OBVIOUS
      <3>6. /\ w.wanted = Matching(f) /\ ask.offset <= Len(w.wanted)
            /\ provider = "mem0" => ask.offset % ask.limit = 0
        <4>1. /\ Forwarded(provider, ask.op, ask.scope)' = f /\ provider' = provider
              /\ Matching(f)' = Matching(f)
          BY <3>3, <3>5, SameAnswers, SameMatches
        <4>2. Matching(Forwarded(provider, ask.op, ask.scope))' = Matching(f)'
          BY <4>1
        <4>3. QED
          BY <2>1, <3>4, <4>1, <4>2 DEF Along
      <3>7. ask.limit \in Nat \ {0}
        BY <1>6, <2>1 DEF IsAsk
      <3>8. /\ request.filters = f /\ request.limit = ask.limit /\ request.limit # None
            /\ request.skip = ask.offset
        <4>1. request.filters = f /\ request.limit = ask.limit /\ request.skip = Skipped(ask)
          BY <1>6, <2>1, <3>5 DEF Request, SentLimit
        <4>2. ask.limit # None
          BY <3>7, CallsAssumption
        <4>3. Skipped(ask) = ask.offset
          BY <1>6, <3>6, <3>7, SkipsOffset
        <4>4. QED
          BY <4>1, <4>2, <4>3
      <3>9. Page(request) = SubSeq(w.wanted, ask.offset + 1, EndOfPage(ask, w))
        BY <3>6, <3>8 DEF Page, EndOfPage
      <3>10. PICK s : s = Page(request)
        OBVIOUS
      <3>11. /\ DOMAIN answer.body.memories = DOMAIN s
             /\ \A i \in DOMAIN s : answer.body.memories[i] = Raw(s[i])
             /\ answer.body.total = IF setup.total THEN Len(w.wanted) ELSE None
        BY <3>3, <3>6, <3>8, <3>10, PageTells
      <3>12. [i \in DOMAIN answer.body.memories |-> answer.body.memories[i].id] = s
        <4>1. DOMAIN answer.body.memories = DOMAIN s
          BY <3>11
        <4>2. \A i \in DOMAIN s : answer.body.memories[i].id = s[i]
          <5>1. \A i : Raw(i).id = i
            BY DEF Raw
          <5>2. QED
            BY <3>11, <5>1
        <4>3. IsList(s)
          BY <1>6, <3>7, <3>8, <3>10, PageResult
        <4>4. s = [i \in DOMAIN s |-> s[i]]
          BY <4>3 DEF IsList
        <4>5. QED
          BY <4>1, <4>2, <4>4
      <3>13. QED
        BY <3>9, <3>10, <3>11, <3>12 DEF Continues
    <2>2. QED
      BY <1>4, <1>11, <2>1 DEF Walks
  <1>13. ASSUME NEW d \in Callers PROVE Walks(call[d], walk[d])'
    <2>1. CASE d = c
      BY <1>5, <1>9, <1>12, <2>1
    <2>2. CASE d # c
      <3>1. PICK x, y : x = call[d] /\ y = walk'[d]
        OBVIOUS
      <3>2. Walks(x, y)' /\ call'[d] = x
        BY <1>5, <1>8, <2>2, <3>1
      <3>3. QED
        BY <3>1, <3>2
    <2>3. QED
      BY <2>1, <2>2
  <1>14. QED
    BY <1>8, <1>13 DEF WalkInv

LEMMA WalkRejected ==
  ASSUME CallsInv, WalkInv, SameSetup, NEW c \in Callers, Reject(c)
  PROVE  WalkInv'
  <1>1. PICK ask, w, v : ask = call[c].ask /\ w = walk[c] /\ v = call[c]
    OBVIOUS
  <1>2. PICK answer \in Errors : Answer(c, answer) /\ (answer.status = 200 => ask.op = "ingest")
    BY <1>1 DEF Reject
  <1> DEFINE u == [phase |-> "served", ask |-> ask, n |-> call[c].n, answer |-> answer]
  <1>3. v.phase = "sent" /\ v.ask = ask /\ call' = [call EXCEPT ![c] = u]
    BY <1>1, <1>2 DEF Reject, Answer
  <1>4. u.phase = "served" /\ u.ask = ask /\ u.answer = answer
    OBVIOUS
  <1> HIDE DEF u
  <1>5. Walks(v, w) /\ walk' = [walk EXCEPT ![c] = w]
    BY <1>1 DEF WalkInv, Reject, AreWalks
  <1>6. ask.op = "list" => ~Readable(answer)
    <2>1. answer.status \in {429, 500} \/ answer = Failure
      BY DEF Errors
    <2>2. answer.status \in {429, 500} => ~Readable(answer)
      BY NoneAssumption DEF Readable, ThrowForStatus
    <2>3. Failure.status = 200
      BY DEF Failure, Ok
    <2>4. QED
      BY <1>2, <2>1, <2>2, <2>3
  <1>7. Walks(u, w)
    BY <1>3, <1>4, <1>5, <1>6 DEF Walks
  <1>8. rows' = rows /\ alive' = alive
    BY DEF Reject
  <1>9. QED
    BY <1>3, <1>5, <1>7, <1>8, WalksTurn

LEMMA WalkQueued ==
  ASSUME CallsInv, WalkInv, SameSetup, NEW c \in Callers, Queue(c)
  PROVE  WalkInv'
  <1>1. PICK u : /\ u.phase = "served" /\ u.ask = call[c].ask /\ u.ask.op = "ingest"
                 /\ call' = [call EXCEPT ![c] = u]
    BY QueueTells
  <1>2. PICK v, w : v = call[c] /\ w = walk[c]
    OBVIOUS
  <1>3. /\ v.phase = "sent" /\ Walks(v, w) /\ walk' = [walk EXCEPT ![c] = w]
        /\ rows' = rows /\ alive' = alive
    BY <1>2 DEF WalkInv, Queue, AreWalks
  <1>4. Walks(u, w)
    BY <1>1, <1>2, <1>3 DEF Walks
  <1>5. QED
    BY <1>1, <1>3, <1>4, WalksTurn

LEMMA NoWalkWalks ==
  ASSUME NEW u, \/ u.phase \notin {"sent", "served", "done"}
                \/ u.phase = "done" /\ u.result.cursor = None
                \/ u.phase = "sent" /\ u.ask.op # "list"
  PROVE  Walks(u, NoWalk)
  BY DEF Walks, NoWalk

LEMMA WalkBegins ==
  ASSUME CallsInv, WalkInv, SameSetup, NEW c \in Callers, NEW ask \in Inputs[provider],
         Begin(c, ask)
  PROVE  WalkInv'
  <1>1. PICK n : Send(c, ask, n, FirstPage(ask))
    BY DEF Begin
  <1>2. PICK w : w = FirstPage(ask)
    OBVIOUS
  <1> DEFINE u == [phase |-> "sent", ask |-> ask, n |-> n, request |-> Request(ask, n)]
  <1>3. /\ call' = [call EXCEPT ![c] = u] /\ walk' = [walk EXCEPT ![c] = w]
        /\ rows' = rows /\ alive' = alive
    BY <1>1, <1>2 DEF Send
  <1>4. u.phase = "sent" /\ u.ask = ask
    OBVIOUS
  <1> HIDE DEF u
  <1>5. IsAsk(provider, ask) /\ ask.offset = 0 /\ RowsOK
    BY CallsAssumption DEF CallsInv, NumbersOK, provider
  <1>6. CASE ask.op # "list"
    <2>1. w = NoWalk
      BY <1>2, <1>6 DEF FirstPage
    <2>2. Walks(u, w)
      BY <1>4, <1>6, <2>1, NoWalkWalks
    <2>3. QED
      BY <1>3, <2>2, WalksTurn
  <1>7. CASE ask.op = "list"
    <2>1. PICK all : all = Matching(Forwarded(provider, ask.op, ask.scope))
      OBVIOUS
    <2>2. w = [NoWalk EXCEPT !.open = TRUE, !.wanted = all]
      <3>1. Request(ask, 0).filters = Forwarded(provider, ask.op, ask.scope)
        BY RequestFields
      <3>2. QED
        BY <1>2, <1>7, <2>1, <3>1 DEF FirstPage
    <2>3. /\ DOMAIN w = {"open", "clean", "seen", "wanted", "complete"}
          /\ w.open /\ ~w.complete /\ w.seen = <<>> /\ w.wanted = all
      BY <2>2 DEF NoWalk
    <2>4. all \in Seq(DOMAIN rows)
      BY <1>5, <2>1, Matches
    <2>5. SubSeq(all, 1, 0) = <<>> /\ 0 <= Len(all)
      BY <2>4
    <2>6. ask.limit \in Nat \ {0} /\ 0 % ask.limit = 0
      BY <1>5, <1>7 DEF IsAsk
    <2>7. Along(ask, w, ask.offset)
      BY <1>5, <2>1, <2>3, <2>5, <2>6 DEF Along
    <2>8. Walks(u, w)
      BY <1>4, <2>3, <2>7 DEF Walks
    <2>9. QED
      BY <1>3, <2>8, WalksTurn
  <1>8. QED
    BY <1>6, <1>7

LEMMA WalkFollows ==
  ASSUME CallsInv, AnswersInv, WalkInv, SameSetup, NEW c \in Callers, Follow(c)
  PROVE  WalkInv'
  <1>1. PICK v, w : v = call[c] /\ w = walk[c]
    OBVIOUS
  <1> DEFINE ask == [v.ask EXCEPT !.offset = v.result.cursor]
             u == [phase |-> "sent", ask |-> ask, n |-> 0, request |-> Request(ask, 0)]
  <1>2. /\ call' = [call EXCEPT ![c] = u] /\ walk' = [walk EXCEPT ![c] = w]
        /\ rows' = rows /\ alive' = alive
        /\ v.phase = "done" /\ v.result.cursor # None
    BY <1>1 DEF Follow, Send
  <1>3. u.phase = "sent" /\ u.ask = ask
    OBVIOUS
  <1> HIDE DEF u
  <1>4. Walks(v, w) /\ IsAsk(provider, v.ask)
    BY <1>1, <1>2 DEF WalkInv, CallsInv, NumbersOK
  <1>5. /\ ask.offset = v.result.cursor /\ ask.limit = v.ask.limit
        /\ ask.op = v.ask.op /\ ask.scope = v.ask.scope
    BY <1>4 DEF IsAsk, AskFields
  <1> HIDE DEF ask
  <1>6. Along(v.ask, w, v.result.cursor)
    BY <1>2, <1>4 DEF Walks
  <1>7. Along(ask, w, ask.offset)
    BY <1>5, <1>6 DEF Along
  <1>8. Walks(u, w)
    BY <1>3, <1>4, <1>7 DEF Walks
  <1>9. QED
    BY <1>2, <1>8, WalksTurn

LEMMA ErrorsEndWalks ==
  ASSUME NEW ask, NEW answer, Result(ask, answer).error # None
  PROVE  Result(ask, answer).cursor = None
  <1>1. \A e : Rejected(e).cursor = None
    BY DEF Rejected, Nothing
  <1>2. Nothing.cursor = None
    BY DEF Nothing
  <1>3. \A body : Read(ask, body).error = None
    BY DEF Read
  <1>4. QED
    BY <1>1, <1>2, <1>3 DEF Result

(* What a list makes of its page. *)
LEMMA ListResult ==
  ASSUME NEW ask, ask.op = "list", NEW answer, Result(ask, answer).error = None,
         Readable(answer) => AllHeard(ask, answer.body.memories)
  PROVE  /\ Readable(answer)
         /\ Result(ask, answer).cursor = Cursor(ask, answer.body)
         /\ LET memories == Result(ask, answer).memories
                raws     == answer.body.memories
            IN  DOMAIN memories = DOMAIN raws /\ \A i \in DOMAIN raws : memories[i].id = raws[i].id
  <1> DEFINE fetched == Fetched(ask, answer)
             body == answer.body
  <1>1. /\ fetched.error \in ProviderErrors \cup {"Error", None}
        /\ fetched.error = None => Readable(answer) /\ fetched.value = body
    BY FetchedBody
  <1>2. /\ fetched.error # None => Result(ask, answer) = Rejected(fetched.error)
        /\ fetched.error = None /\ BodyRefused(ask, fetched.value) =>
              Result(ask, answer) = Rejected("Error")
        /\ fetched.error = None /\ ~BodyRefused(ask, fetched.value) =>
              Result(ask, answer) = Read(ask, fetched.value)
    BY DEF Result
  <1> HIDE DEF fetched, body
  <1>3. fetched.error = None /\ Result(ask, answer) = Read(ask, body)
    <2>1. Rejected("Error").error # None
      BY ErrorsRejected
    <2>2. fetched.error # None => Rejected(fetched.error).error # None
      BY <1>1, ErrorsRejected
    <2>3. QED
      BY <1>1, <1>2, <2>1, <2>2
  <1>4. Read(ask, body).memories = Mapped(ask, body.memories)
    <2>1. \A memories : Cut(ask, memories) = memories
      BY DEF Cut
    <2>2. \A memories : ApplyMetaFactFilter(ask, memories).kept = memories
      BY DEF ApplyMetaFactFilter
    <2>3. QED
      BY <2>1, <2>2 DEF Read
  <1>5. Read(ask, body).cursor = Cursor(ask, body)
    BY DEF Read
  <1>6. LET memories == Mapped(ask, body.memories)
        IN  /\ DOMAIN memories = DOMAIN body.memories
            /\ \A i \in DOMAIN body.memories : memories[i].id = body.memories[i].id
    BY DEF Mapped
  <1>7. QED
    BY <1>1, <1>3, <1>4, <1>5, <1>6 DEF body

LEMMA WalkReceived ==
  ASSUME CallsInv, AnswersInv, WalkInv, SameSetup, NEW c \in Callers, Receive(c)
  PROVE  WalkInv'
  <1>1. PICK v, w, ask, answer, result :
            /\ v = call[c] /\ w = walk[c]
            /\ ask = v.ask /\ answer = v.answer /\ result = Result(ask, answer)
    OBVIOUS
  <1>2. PICK x : x = WalkAfter(ask, w, result)
    OBVIOUS
  <1> DEFINE u == Done(ask, v.n, result)
  <1>3. /\ call' = [call EXCEPT ![c] = u] /\ walk' = [walk EXCEPT ![c] = x]
        /\ rows' = rows /\ alive' = alive /\ v.phase = "served"
    BY <1>1, <1>2 DEF Receive
  <1>4. u.phase = "done" /\ u.ask = ask /\ u.result = result
    BY DEF Done
  <1> HIDE DEF u
  <1>5. /\ Walks(v, w) /\ IsAsk(provider, ask) /\ ask.offset \in Nat
        /\ Readable(answer) => AllHeard(ask, answer.body.memories)
    BY <1>1, <1>3 DEF WalkInv, CallsInv, NumbersOK, AnswersInv, AnswersOK
  <1>6. CASE ask.op # "list" \/ result.error # None
    <2>1. x = NoWalk
      BY <1>2, <1>6 DEF WalkAfter
    <2>2. result.cursor = None
      BY <1>1, <1>6, ResultCursor, ErrorsEndWalks
    <2>3. Walks(u, x)
      BY <1>4, <2>1, <2>2, NoWalkWalks
    <2>4. QED
      BY <1>3, <2>3, WalksTurn
  <1>7. CASE ask.op = "list" /\ result.error = None
    <2> DEFINE body == answer.body
               ids == [i \in DOMAIN result.memories |-> result.memories[i].id]
               end == EndOfPage(ask, w)
               found == Len(body.memories)
    <2>1. /\ Readable(answer) /\ result.cursor = Cursor(ask, body)
          /\ ids = [i \in DOMAIN body.memories |-> body.memories[i].id]
      BY <1>1, <1>5, <1>7, ListResult
    <2>2. x = [w EXCEPT !.seen = w.seen \o ids, !.open = result.cursor # None,
                        !.complete = result.cursor = None]
      BY <1>2, <1>7 DEF WalkAfter
    <2>3. found \in Nat /\ ask.limit \in Nat \ {0}
      BY <1>5, <1>7, <2>1 DEF AllHeard, IsList, IsAsk
    <2> HIDE DEF ids, body, end
    <2>4. /\ DOMAIN x = {"open", "clean", "seen", "wanted", "complete"}
          /\ x.seen = w.seen \o ids /\ x.wanted = w.wanted /\ x.clean = w.clean
          /\ x.open <=> result.cursor # None
          /\ x.complete <=> result.cursor = None
      BY <1>5, <2>2 DEF Walks
    <2>5. Along(ask, w, ask.offset)
      BY <1>1, <1>3, <1>5, <1>7 DEF Walks
    <2>6. /\ result.cursor # None => result.cursor = ask.offset + found
          /\ result.cursor # None /\ provider = "mem0" => found = ask.limit
      BY <1>7, <2>1 DEF Cursor, HasMore
    <2>7. ASSUME w.clean
          PROVE  /\ x.seen = SubSeq(w.wanted, 1, end) /\ end = ask.offset + found
                 /\ end <= Len(w.wanted)
                 /\ result.cursor = None => x.seen = w.wanted
      <3>1. PICK all : all = w.wanted /\ all \in Seq(DOMAIN rows)
        BY <2>5, <2>7, Matches DEF Along, CallsInv
      <3>2. ask.offset <= Len(all) /\ w.seen = SubSeq(all, 1, ask.offset)
        BY <2>5, <2>7, <3>1 DEF Along
      <3>3. /\ ids = SubSeq(all, ask.offset + 1, end)
            /\ body.total \in {None, Len(all)}
        BY <1>1, <1>3, <1>5, <1>7, <2>1, <2>7, <3>1 DEF Walks, Continues, end, body
      <3>4. /\ Len(all) \in Nat /\ end \in ask.offset..Len(all) /\ ask.offset \in 0..Len(all)
            /\ end = Len(all) \/ end = ask.offset + ask.limit
        BY <1>5, <2>3, <3>1, <3>2 DEF end, EndOfPage
      <3>5. /\ w.seen \o ids = SubSeq(all, 1, end) /\ Len(ids) = end - ask.offset
            /\ SubSeq(all, 1, Len(all)) = all
        <4>1. PICK X, k, e : X = DOMAIN rows /\ k = ask.offset /\ e = end
          OBVIOUS
        <4>2. all \in Seq(X) /\ k \in 0..Len(all) /\ e \in k..Len(all)
          BY <3>1, <3>4, <4>1
        <4>3. /\ SubSeq(all, 1, k) \o SubSeq(all, k + 1, e) = SubSeq(all, 1, e)
              /\ Len(SubSeq(all, k + 1, e)) = e - k /\ SubSeq(all, 1, Len(all)) = all
          BY <4>2, PagesJoin
        <4>4. w.seen = SubSeq(all, 1, k) /\ ids = SubSeq(all, k + 1, e)
          BY <3>2, <3>3, <4>1
        <4>5. QED
          BY <4>1, <4>3, <4>4
      <3>6. Len(ids) = found
        <4>1. IsList(body.memories)
          BY <1>5, <2>1 DEF AllHeard, body
        <4>2. ids \in Seq(DOMAIN rows)
          BY <1>5, <3>1, <3>3, <3>4
        <4>3. DOMAIN ids = DOMAIN body.memories
          BY <2>1
        <4>4. PICK m, n : m = Len(ids) /\ n = Len(body.memories)
          OBVIOUS
        <4>5. m \in Nat /\ n \in Nat /\ 1..m = 1..n
          BY <4>1, <4>2, <4>3, <4>4 DEF IsList
        <4>6. m = n
          BY <4>5
        <4>7. QED
          BY <4>4, <4>6
      <3>7. end = ask.offset + found
        <4>1. PICK e, k, f : e = end /\ k = ask.offset /\ f = found
          OBVIOUS
        <4>2. k \in Nat /\ e \in k..Len(all) /\ Len(all) \in Nat
          BY <1>5, <3>4, <4>1
        <4>3. f = e - k
          BY <3>5, <3>6, <4>1
        <4>4. QED
          BY <4>1, <4>2, <4>3
      <3>8. ASSUME result.cursor = None PROVE end = Len(all)
        <4>1. ~HasMore(ask, body)
          BY <1>5, <1>7, <2>1, <2>3, <3>8, CallsAssumption DEF Cursor
        <4>2. CASE provider = "hindsight" /\ body.total # None
          <5>1. ~(ask.offset + found < Len(all))
            BY <3>3, <4>1, <4>2 DEF HasMore
          <5>2. QED
            BY <1>5, <2>3, <3>4, <3>7, <5>1
        <4>3. CASE ~(provider = "hindsight" /\ body.total # None)
          <5>1. found # ask.limit
            BY <4>1, <4>3 DEF HasMore
          <5>2. QED
            BY <1>5, <2>3, <3>4, <3>7, <5>1
        <4>4. QED
          BY <4>2, <4>3
      <3>9. QED
        BY <2>4, <3>1, <3>4, <3>5, <3>7, <3>8
    <2>8. ASSUME result.cursor # None PROVE Along(ask, x, result.cursor)
      <3>1. provider = "mem0" => result.cursor % ask.limit = 0
        BY <1>5, <2>3, <2>5, <2>6, <2>8, Multiples DEF Along
      <3>2. QED
        BY <2>4, <2>5, <2>6, <2>7, <2>8, <3>1 DEF Along
    <2>9. Walks(u, x)
      BY <1>4, <2>4, <2>7, <2>8 DEF Walks
    <2>10. QED
      BY <1>3, <2>9, WalksTurn
  <1>8. QED
    BY <1>6, <1>7

LEMMA WalkEnds ==
  ASSUME CallsInv, WalkInv, SameSetup, NEW c \in Callers,
         TimeOut(c) \/ \E ask : Refuse(c, ask)
  PROVE  WalkInv'
  <1>1. PICK u, w :
            /\ call' = [call EXCEPT ![c] = u] /\ walk' = [walk EXCEPT ![c] = w]
            /\ rows' = rows /\ alive' = alive
            /\ u.phase = "done" /\ u.result.cursor = None
            /\ w = NoWalk \/ w = walk[c]
    <2>1. CASE TimeOut(c)
      <3> DEFINE u == Done(call[c].ask, call[c].n, Rejected("Error"))
      <3>1. call' = [call EXCEPT ![c] = u] /\ walk' = [walk EXCEPT ![c] = NoWalk]
            /\ rows' = rows /\ alive' = alive
        BY <2>1 DEF TimeOut
      <3>2. u.phase = "done" /\ u.result.cursor = None
        BY DEF Done, Rejected, Nothing
      <3> HIDE DEF u
      <3>3. QED
        BY <3>1, <3>2
    <2>2. CASE \E ask : Refuse(c, ask)
      <3>1. PICK ask : Refuse(c, ask)
        BY <2>2
      <3> DEFINE u == Done(ask, 0, [Nothing EXCEPT !.error = Refusal(ask)])
      <3>2. call' = [call EXCEPT ![c] = u] /\ walk' = [walk EXCEPT ![c] = walk[c]]
            /\ rows' = rows /\ alive' = alive
        BY <3>1 DEF Refuse, WalkInv, AreWalks
      <3>3. u.phase = "done" /\ u.result.cursor = None
        BY DEF Done, Nothing
      <3> HIDE DEF u
      <3>4. QED
        BY <3>2, <3>3
    <2>3. QED
      BY <2>1, <2>2
  <1>2. Walks(u, w)
    <2>1. PICK v : v = call[c]
      OBVIOUS
    <2>2. w = walk[c] => Walks(v, w)
      BY <2>1 DEF WalkInv
    <2>3. QED
      BY <1>1, <2>2, NoWalkWalks DEF Walks
  <1>3. QED
    BY <1>1, <1>2, WalksTurn

LEMMA WalkStepOK ==
  ASSUME CallsInv, AnswersInv, WalkInv, [CallsNext]_callVars
  PROVE  WalkInv'
  <1>1. SameSetup
    BY StepKeeps
  <1>2. ASSUME rows' = rows, alive' = alive, call' = call, walk' = walk PROVE WalkInv'
    <2>1. ASSUME NEW c \in Callers PROVE Walks(call[c], walk[c])'
      <3>1. PICK u, w : u = call[c] /\ w = walk[c]
        OBVIOUS
      <3>2. Walks(u, w)
        BY <3>1 DEF WalkInv
      <3>3. Walks(u, w)' /\ u = call'[c] /\ w = walk'[c]
        BY <1>1, <1>2, <3>1, <3>2, WalksStay
      <3>4. QED
        BY <3>3
    <2>2. QED
      BY <1>2, <2>1 DEF WalkInv
  <1>3. CASE LoseLate \/ UNCHANGED callVars
    BY <1>2, <1>3 DEF LoseLate, callVars
  <1>4. CASE ServeLate
    <2>1. PICK request \in late : \E effect \in Effects(request) : Leaves(effect)
      BY <1>4 DEF ServeLate
    <2>2. PICK effect \in Effects(request) : Leaves(effect)
      BY <2>1
    <2>3. MemoriesAfter(request) /\ call' = call
      BY <1>4, <2>1, CarriedOut DEF Carries, CallsInv, ServeLate
    <2>4. /\ AreWalks(walk')
          /\ \A d \in Callers : \A u, w : u = call[d] /\ w = walk'[d] => Walks(u, w)'
      BY <1>1, <2>2, <2>3, WalksAside
    <2>5. ASSUME NEW d \in Callers PROVE Walks(call[d], walk[d])'
      <3>1. PICK u, w : u = call[d] /\ w = walk'[d]
        OBVIOUS
      <3>2. Walks(u, w)' /\ u = call'[d]
        BY <2>3, <2>4, <3>1
      <3>3. QED
        BY <3>1, <3>2
    <2>6. QED
      BY <2>4, <2>5 DEF WalkInv
  <1>5. QED
    BY <1>1, <1>3, <1>4, WalkBegins, WalkFollows, WalkServed, WalkQueued, WalkRejected,
       WalkReceived, WalkEnds
       DEF CallsNext

LEMMA WalkInvHolds == CallsSpec => []WalkInv
  <1>1. CallsInit => WalkInv
    BY NoWalkWalks DEF CallsInit, NoCall, WalkInv, AreWalks
  <1>2. CallsInv /\ AnswersInv /\ WalkInv /\ [CallsNext]_callVars => WalkInv'
    BY WalkStepOK
  <1>3. QED
    BY <1>1, <1>2, CallsInvHolds, AnswersInvHolds, PTL DEF CallsSpec

(* Whoever follows the cursors to the end while no memory comes or goes    *)
(* has read every memory the list lets through, once and in order, also    *)
(* from the provider that counts pages and the one that counts the total   *)
(* (provider.ts, list; mem0-provider.ts; hindsight-provider.ts).           *)
THEOREM WalksAreComplete == CallsSpec => []WalkComplete
  <1>1. WalkInv => WalkComplete
    BY DEF WalkInv, Walks, WalkComplete
  <1>2. QED
    BY <1>1, WalkInvHolds, PTL

-----------------------------------------------------------------------------
(* The outcomes of calls: what they reject with, and how long the answers  *)
(* and results of searches and lists are.                                  *)
Paged(ask) == ask.op \in {"search", "list"} /\ ask.limit # None

OutcomeOK(u) ==
    /\ u.phase = "served" /\ Readable(u.answer) /\ Paged(u.ask) /\ SentLimit(u.ask) # None =>
          Len(u.answer.body.memories) <= u.ask.limit
    /\ u.phase = "done" =>
          /\ provider # "handle" => u.result.error \in ProviderErrors \cup {None}
          /\ u.result.error = None /\ Paged(u.ask) => Len(u.result.memories) <= u.ask.limit

BoundsInv ==
    /\ Len(rows) <= MaxRows
    /\ lastIndex \in [DOMAIN ResolvePatterns(setup.filter) -> {0, 1}]
    /\ \A c \in Callers : OutcomeOK(call[c])

LEMMA SameOutcome ==
  ASSUME SameSetup, NEW u, OutcomeOK(u) PROVE OutcomeOK(u)'
  BY DEF SameSetup, provider, OutcomeOK, SentLimit

LEMMA OutcomesTurn ==
  ASSUME CallsInv, BoundsInv, SameSetup, NEW c \in Callers, NEW u,
         call' = [call EXCEPT ![c] = u], OutcomeOK(u)
  PROVE  \A d \in Callers : OutcomeOK(call[d])'
  <1>1. call'[c] = u /\ \A d \in Callers \ {c} : call'[d] = call[d]
    BY DEF CallsInv, NumbersOK
  <1>2. OutcomeOK(u)'
    BY SameOutcome
  <1>3. ASSUME NEW d \in Callers PROVE OutcomeOK(call[d])'
    <2>1. PICK w : w = call'[d]
      OBVIOUS
    <2>2. OutcomeOK(w)
      BY <1>1, <2>1 DEF BoundsInv
    <2>3. OutcomeOK(w)'
      BY <2>2, SameOutcome
    <2>4. QED
      BY <2>1, <2>3 DEF OutcomeOK
  <1>4. QED
    BY <1>3

(* A page is no longer than the limit that was sent.                       *)
LEMMA PageFits ==
  ASSUME RowsOK, NEW request, request.skip \in Nat, request.limit \in Nat
  PROVE  Len(Page(request)) <= request.limit
  <1> DEFINE all == Matching(request.filters)
             end == request.skip + request.limit
             last == IF end < Len(all) THEN end ELSE Len(all)
  <1>1. all \in Seq(DOMAIN rows)
    BY Matches
  <1>2. Page(request) = SubSeq(all, request.skip + 1, last)
    BY CallsAssumption DEF Page
  <1> HIDE DEF all
  <1>3. Len(all) \in Nat /\ end \in Nat /\ last \in Nat /\ last <= end /\ last <= Len(all)
    BY <1>1
  <1>4. CASE request.skip + 1 <= last
    <2>1. Len(Page(request)) = last - request.skip
      BY <1>1, <1>2, <1>3, <1>4
    <2>2. QED
      BY <1>3, <2>1
  <1>5. CASE ~(request.skip + 1 <= last)
    <2>1. Len(Page(request)) = 0
      BY <1>1, <1>2, <1>3, <1>5
    <2>2. QED
      BY <2>1
  <1>6. QED
    BY <1>4, <1>5

LEMMA EffectsFit ==
  ASSUME RowsOK, NEW p, NEW ask, IsAsk(p, ask), ask.offset \in Nat, NEW n, Paged(ask),
         SentLimit(ask) # None, NEW effect \in Effects(Request(ask, n))
  PROVE  Len(effect.answer.body.memories) <= ask.limit
  <1> DEFINE request == Request(ask, n)
             page == [i \in DOMAIN Page(request) |-> Raw(Page(request)[i])]
  <1>1. request.op = ask.op /\ ask.op \in {"search", "list"}
    BY RequestFields DEF Paged
  <1>2. request.skip \in Nat /\ request.limit = ask.limit /\ ask.limit \in Nat
    BY SkipsForward DEF Request, SentLimit, IsAsk, Paged
  <1> HIDE DEF request
  <1>3. effect = Effect(rows, alive, PageAnswer(request))
    BY <1>1, EffectOfPages DEF request
  <1>4. effect.answer.body.memories = page
    BY <1>3 DEF Effect, PageAnswer, Ok, Body
  <1>5. IsList(Page(request)) /\ Len(Page(request)) <= ask.limit
    BY <1>2, PageResult, PageFits
  <1>6. Len(page) = Len(Page(request))
    BY <1>5 DEF IsList
  <1>7. QED
    BY <1>4, <1>5, <1>6

LEMMA FilteredFits ==
  ASSUME lastIndex \in [DOMAIN ResolvePatterns(setup.filter) -> {0, 1}],
         NEW ask, NEW X, NEW memories \in Seq(X)
  PROVE  /\ Len(ApplyMetaFactFilter(ask, memories).kept) \in 0..Len(memories)
         /\ ApplyMetaFactFilter(ask, memories).last
               \in [DOMAIN ResolvePatterns(setup.filter) -> {0, 1}]
  <1> DEFINE contents == ContentsOf(memories)
             P == ResolvePatterns(setup.filter)
             result == FilterMetaFacts(memories, contents, setup.filter, lastIndex)
             filtered == provider = "atomicmemory" /\ ask.op \in {"search", "package", "asOf"}
  <1>1. CASE ~filtered \/ ~setup.filter.enabled
    <2>1. ApplyMetaFactFilter(ask, memories) = [kept |-> memories, last |-> lastIndex]
      BY <1>1 DEF ApplyMetaFactFilter, FilterMetaFacts
    <2>2. QED
      BY <2>1
  <1>2. CASE filtered /\ setup.filter.enabled
    <2>1. ApplyMetaFactFilter(ask, memories) = result
      BY <1>2 DEF ApplyMetaFactFilter
    <2>2. FilterBounded(result, Len(memories), P)
      BY <1>2, FilterKeepsBounds
    <2>3. QED
      BY <2>1, <2>2 DEF FilterBounded
  <1>3. QED
    BY <1>1, <1>2

LEMMA CutFits ==
  ASSUME NEW ask, IsAsk(provider, ask), Paged(ask), NEW X, NEW memories \in Seq(X),
         SentLimit(ask) # None => Len(memories) <= ask.limit
  PROVE  Len(Cut(ask, memories)) <= ask.limit
  <1>1. ask.limit \in Nat /\ Len(memories) \in Nat /\ ask.limit # None
    BY DEF IsAsk, Paged
  <1>2. CASE Len(memories) <= ask.limit
    BY <1>1, <1>2 DEF Cut
  <1>3. CASE Len(memories) > ask.limit
    <2>1. provider = "hindsight" /\ ask.op = "search"
      BY <1>1, <1>3 DEF SentLimit, Paged
    <2>2. Cut(ask, memories) = SubSeq(memories, 1, ask.limit)
      BY <1>1, <1>3, <2>1 DEF Cut
    <2>3. Len(SubSeq(memories, 1, ask.limit)) = ask.limit
      BY <1>1, <1>3
    <2>4. QED
      BY <1>1, <2>2, <2>3
  <1>4. QED
    BY <1>1, <1>2, <1>3

LEMMA ReadFits ==
  ASSUME lastIndex \in [DOMAIN ResolvePatterns(setup.filter) -> {0, 1}],
         NEW ask, IsAsk(provider, ask), Paged(ask), NEW body, IsList(body.memories),
         SentLimit(ask) # None => Len(body.memories) <= ask.limit
  PROVE  Len(Read(ask, body).memories) <= ask.limit
  <1> DEFINE raws   == body.memories
             mapped == Mapped(ask, raws)
             taken  == Cut(ask, mapped)
             passed == ApplyMetaFactFilter(ask, taken).kept
  <1>1. mapped \in Seq(ToSet(mapped)) /\ Len(mapped) = Len(raws)
    BY MapList
  <1>2. Read(ask, body).memories = passed
    BY DEF Read
  <1>3. ask.limit \in Nat
    BY DEF IsAsk, Paged
  <1> HIDE DEF raws, mapped
  <1>4. taken \in Seq(ToSet(mapped))
    BY <1>1, <1>3, CutList
  <1>5. Len(taken) <= ask.limit
    BY <1>1, CutFits DEF raws
  <1> HIDE DEF taken
  <1>6. Len(passed) \in 0..Len(taken)
    BY <1>4, FilteredFits
  <1>7. QED
    BY <1>2, <1>3, <1>4, <1>5, <1>6

LEMMA Wrapped ==
  ASSUME NEW e, e \in ProviderErrors \cup {"Error"}
  PROVE  Rejected(e).error # None /\ (provider # "handle" => Rejected(e).error \in ProviderErrors)
  <1>1. Rejected(e).error = WrapError(e)
    BY DEF Rejected, Nothing
  <1>2. "MemoryProviderError" \in ProviderErrors
    BY DEF ProviderErrors
  <1>3. provider # "handle" => WrapError(e) \in ProviderErrors
    BY <1>2 DEF WrapError
  <1>4. QED
    BY <1>1, <1>3, ErrorsRejected

LEMMA ResultFits ==
  ASSUME lastIndex \in [DOMAIN ResolvePatterns(setup.filter) -> {0, 1}],
         NEW ask, IsAsk(provider, ask), NEW answer, NEW n,
         Readable(answer) => IsList(answer.body.memories),
         Readable(answer) /\ Paged(ask) /\ SentLimit(ask) # None =>
            Len(answer.body.memories) <= ask.limit
  PROVE  OutcomeOK(Done(ask, n, Result(ask, answer)))
  <1> DEFINE fetched == Fetched(ask, answer)
             result  == Result(ask, answer)
             void == ask.op \in {"get", "delete"} /\ fetched.value = None
             u == Done(ask, n, result)
             Fits == /\ provider # "handle" => result.error \in ProviderErrors \cup {None}
                     /\ result.error = None /\ Paged(ask) => Len(result.memories) <= ask.limit
  <1>1. /\ fetched.error \in ProviderErrors \cup {"Error", None}
        /\ ~void /\ fetched.error = None => Readable(answer) /\ fetched.value = answer.body
    BY FetchedBody
  <1>2. /\ fetched.error # None => result = Rejected(fetched.error)
        /\ fetched.error = None /\ void => result = Nothing
        /\ fetched.error = None /\ ~void /\ BodyRefused(ask, fetched.value) =>
              result \in {Rejected("MemoryProviderError"), Rejected("Error")}
        /\ fetched.error = None /\ ~void /\ ~BodyRefused(ask, fetched.value) =>
              result = Read(ask, fetched.value)
    BY DEF Result
  <1>3. void => ~Paged(ask)
    BY DEF Paged
  <1>4. u.phase = "done" /\ u.ask = ask /\ u.result = result
    BY DEF Done
  <1> HIDE DEF fetched, result, void, u
  <1>5. ASSUME fetched.error # None PROVE Fits
    BY <1>1, <1>2, <1>5, Wrapped
  <1>6. ASSUME fetched.error = None, void PROVE Fits
    BY <1>2, <1>3, <1>6 DEF Nothing
  <1>7. ASSUME fetched.error = None, ~void, BodyRefused(ask, fetched.value) PROVE Fits
    <2>1. "MemoryProviderError" \in ProviderErrors
      BY DEF ProviderErrors
    <2>2. QED
      BY <1>2, <1>7, <2>1, Wrapped
  <1>8. ASSUME fetched.error = None, ~void, ~BodyRefused(ask, fetched.value) PROVE Fits
    <2>1. result = Read(ask, answer.body) /\ Readable(answer)
      BY <1>1, <1>2, <1>8
    <2>2. result.error = None
      BY <2>1 DEF Read
    <2>3. Paged(ask) => Len(result.memories) <= ask.limit
      BY <2>1, ReadFits
    <2>4. QED
      BY <2>2, <2>3
  <1>9. Fits
    BY <1>5, <1>6, <1>7, <1>8
  <1>10. QED
    BY <1>4, <1>9 DEF OutcomeOK, u, result

(* What the filter remembers stays in its bounds when an answer is read.   *)
LEMMA RemembersOn ==
  ASSUME CallsInv, AnswersInv, BoundsInv, NEW c \in Callers, Receive(c)
  PROVE  lastIndex' \in [DOMAIN ResolvePatterns(setup.filter) -> {0, 1}]
  <1>1. PICK ask, answer, result :
            ask = call[c].ask /\ answer = call[c].answer /\ result = Result(ask, answer)
    OBVIOUS
  <1> DEFINE mapped == Mapped(ask, answer.body.memories)
  <1>2. /\ call[c].phase = "served"
        /\ lastIndex' = IF result.error = None /\ answer.status = 200 /\ ask.op # "delete"
                        THEN ApplyMetaFactFilter(ask, mapped).last ELSE lastIndex
    BY <1>1 DEF Receive
  <1>3. NumbersOK /\ IsAsk(provider, ask)
    BY <1>1, <1>2 DEF CallsInv, NumbersOK
  <1>4. /\ ask.offset \in Nat /\ (Readable(answer) => AllHeard(ask, answer.body.memories))
        /\ DOMAIN lastIndex = DOMAIN ResolvePatterns(setup.filter)
    BY <1>1, <1>2 DEF AnswersInv, AnswersOK
  <1>5. result.error = None /\ answer.status = 200 /\ ask.op # "delete" => Readable(answer)
    BY <1>1, <1>3, <1>4, ResultHonest
  <1>6. ASSUME Readable(answer)
        PROVE  ApplyMetaFactFilter(ask, mapped).last
                  \in [DOMAIN ResolvePatterns(setup.filter) -> {0, 1}]
    <2>1. mapped \in Seq(ToSet(mapped))
      BY <1>4, <1>6, MapList DEF AllHeard
    <2> HIDE DEF mapped
    <2>2. QED
      BY <2>1, FilteredFits DEF BoundsInv
  <1> HIDE DEF mapped
  <1>7. QED
    BY <1>2, <1>5, <1>6 DEF BoundsInv

-----------------------------------------------------------------------------
(* The backend never stores more than it has room for. *)
LEMMA RowsFit ==
  ASSUME RowsOK, Len(rows) <= MaxRows, NEW request, Carries(request)
  PROVE  Len(rows') <= MaxRows
  <1>1. PICK effect \in Effects(request) : Leaves(effect)
    BY DEF Carries
  <1>2. rows' = effect.rows
    BY <1>1 DEF Leaves
  <1>3. CASE request.op = "ingest"
    <2>1. effect \in {Stored(request, k, namespace) :
                  k \in {j \in (IF request.mode = "facts" THEN {0, 2} ELSE {1}) :
                            Len(rows) + j <= MaxRows},
                  namespace \in NamespacesOf(request)}
      BY <1>3 DEF Effects
    <2>2. PICK k \in {0, 1, 2}, namespace \in NamespacesOf(request) :
              effect = Stored(request, k, namespace) /\ Len(rows) + k <= MaxRows
      BY <2>1
    <2> DEFINE row == NewRow(request, namespace)
    <2>3. rows' = rows \o [i \in 1..k |-> row]
      BY <1>2, <2>2 DEF Stored, Effect
    <2> HIDE DEF row
    <2>4. Grown(rows', rows, k, row)
      BY <2>3, GrownBy DEF RowsOK
    <2>5. Len(rows') = Len(rows) + k
      BY <2>4 DEF Grown, RowsOK, IsList
    <2>6. QED
      BY <2>2, <2>5
  <1>4. CASE request.op # "ingest"
    BY <1>2, <1>4, EffectsOfOthers DEF LeavesRows
  <1>5. QED
    BY <1>3, <1>4

LEMMA RowsBounded ==
  ASSUME CallsInv, Len(rows) <= MaxRows, [CallsNext]_callVars
  PROVE  Len(rows') <= MaxRows
  <1>1. ASSUME NEW request, Carries(request) PROVE Len(rows') <= MaxRows
    BY <1>1, RowsFit DEF CallsInv
  <1>2. ASSUME NEW c \in Callers, Serve(c) PROVE Len(rows') <= MaxRows
    BY <1>1, <1>2 DEF Serve, Carries
  <1>3. CASE ServeLate
    BY <1>1, <1>3 DEF ServeLate, Carries
  <1>4. ASSUME NEW c \in Callers, NEW ask, Begin(c, ask) \/ Refuse(c, ask) PROVE rows' = rows
    BY <1>4 DEF Begin, Refuse, Send
  <1>5. ASSUME NEW c \in Callers, Follow(c) \/ Queue(c) \/ Reject(c) \/ Receive(c) \/ TimeOut(c)
        PROVE  rows' = rows
    BY <1>5 DEF Follow, Send, Queue, Reject, Receive, TimeOut
  <1>6. CASE LoseLate \/ UNCHANGED callVars
    BY <1>6 DEF LoseLate, callVars
  <1>7. QED
    BY <1>2, <1>3, <1>4, <1>5, <1>6 DEF CallsNext

LEMMA RefusalsAreErrors ==
  ASSUME NEW ask
  PROVE  provider # "handle" => Refusal(ask) \in ProviderErrors \cup {None}
  BY DEF Refusal, ProviderErrors

(* What a turn of c leaves of the outcomes. *)
LEMMA OutcomeServed ==
  ASSUME CallsInv, AnswersInv, BoundsInv, SameSetup, NEW c \in Callers, Serve(c) \/ Reject(c)
  PROVE  \A d \in Callers : OutcomeOK(call[d])'
  <1>1. PICK ask, n : ask = call[c].ask /\ n = call[c].n
    OBVIOUS
  <1>2. call[c].phase = "sent"
    BY DEF Serve, Reject
  <1>3. PICK answer :
            /\ Answer(c, answer)
            /\ \/ \E effect \in Effects(call[c].request) : answer = effect.answer
               \/ answer = Ok(Garbled) \/ answer \in Errors
    BY DEF Serve, Reject
  <1> DEFINE u == [phase |-> "served", ask |-> ask, n |-> n, answer |-> answer]
  <1>4. call' = [call EXCEPT ![c] = u]
    BY <1>1, <1>3 DEF Answer
  <1>5. u.phase = "served" /\ u.ask = ask /\ u.answer = answer
    OBVIOUS
  <1> HIDE DEF u
  <1>6. call[c].request = Request(ask, n) /\ IsAsk(provider, ask) /\ RowsOK
    BY <1>1, <1>2 DEF CallsInv, CallOK, NumbersOK
  <1>7. ask.offset \in Nat
    BY <1>1, <1>2 DEF AnswersInv, AnswersOK
  <1>8. ASSUME Readable(answer), Paged(ask), SentLimit(ask) # None
        PROVE  Len(answer.body.memories) <= ask.limit
    <2>1. answer # Ok(Garbled)
      BY <1>8 DEF Readable, Ok
    <2>2. ASSUME answer \in Errors PROVE Len(answer.body.memories) = 0
      <3>1. answer.status \in {429, 500} \/ answer = Failure
        BY <2>2 DEF Errors
      <3>2. answer.status \in {429, 500} => ~Readable(answer)
        BY NoneAssumption DEF Readable, ThrowForStatus
      <3>3. Failure.body.memories = <<>>
        BY DEF Failure, Ok, Body
      <3>4. QED
        BY <1>8, <3>1, <3>2, <3>3
    <2>3. ask.limit \in Nat
      BY <1>6, <1>8 DEF IsAsk, Paged
    <2>4. ASSUME NEW effect \in Effects(Request(ask, n)), answer = effect.answer
          PROVE  Len(answer.body.memories) <= ask.limit
      BY <1>6, <1>7, <1>8, <2>4, EffectsFit
    <2>5. QED
      BY <1>3, <1>6, <2>1, <2>2, <2>3, <2>4
  <1>9. OutcomeOK(u)
    BY <1>5, <1>8 DEF OutcomeOK
  <1>10. QED
    BY <1>4, <1>9, OutcomesTurn

LEMMA OutcomeReceived ==
  ASSUME CallsInv, AnswersInv, BoundsInv, SameSetup, NEW c \in Callers, Receive(c)
  PROVE  \A d \in Callers : OutcomeOK(call[d])'
  <1>1. PICK ask, answer, n : ask = call[c].ask /\ answer = call[c].answer /\ n = call[c].n
    OBVIOUS
  <1> DEFINE u == Done(ask, n, Result(ask, answer))
  <1>2. call[c].phase = "served" /\ call' = [call EXCEPT ![c] = u]
    BY <1>1 DEF Receive
  <1>3. IsAsk(provider, ask)
    BY <1>1, <1>2 DEF CallsInv, NumbersOK
  <1>4. Readable(answer) => IsList(answer.body.memories)
    BY <1>1, <1>2 DEF AnswersInv, AnswersOK, AllHeard
  <1>5. Readable(answer) /\ Paged(ask) /\ SentLimit(ask) # None =>
            Len(answer.body.memories) <= ask.limit
    BY <1>1, <1>2 DEF BoundsInv, OutcomeOK
  <1>6. OutcomeOK(u)
    BY <1>3, <1>4, <1>5, ResultFits DEF BoundsInv
  <1> HIDE DEF u
  <1>7. QED
    BY <1>2, <1>6, OutcomesTurn

LEMMA OutcomesStepOK ==
  ASSUME CallsInv, AnswersInv, BoundsInv, [CallsNext]_callVars
  PROVE  \A d \in Callers : OutcomeOK(call[d])'
  <1> DEFINE Kept == \A d \in Callers : OutcomeOK(call[d])'
  <1>1. SameSetup
    BY StepKeeps
  <1>2. ASSUME NEW c \in Callers, NEW ask, NEW n, NEW pages, Send(c, ask, n, pages) PROVE Kept
    <2> DEFINE u == [phase |-> "sent", ask |-> ask, n |-> n, request |-> Request(ask, n)]
    <2>1. call' = [call EXCEPT ![c] = u] /\ u.phase = "sent"
      BY <1>2 DEF Send
    <2> HIDE DEF u
    <2>2. OutcomeOK(u)
      BY <2>1 DEF OutcomeOK
    <2>3. QED
      BY <1>1, <2>1, <2>2, OutcomesTurn
  <1>3. ASSUME NEW c \in Callers, NEW ask, Begin(c, ask) \/ Follow(c) PROVE Kept
    BY <1>2, <1>3 DEF Begin, Follow
  <1>4. ASSUME NEW c \in Callers, NEW ask, Refuse(c, ask) PROVE Kept
    <2> DEFINE u == Done(ask, 0, [Nothing EXCEPT !.error = Refusal(ask)])
    <2>1. call' = [call EXCEPT ![c] = u] /\ u.phase = "done" /\ u.result.error = Refusal(ask)
          /\ Refusal(ask) # None
      BY <1>4 DEF Refuse, Done, Nothing
    <2> HIDE DEF u
    <2>2. OutcomeOK(u)
      BY <2>1, RefusalsAreErrors DEF OutcomeOK
    <2>3. QED
      BY <1>1, <2>1, <2>2, OutcomesTurn
  <1>5. ASSUME NEW c \in Callers, TimeOut(c) PROVE Kept
    <2> DEFINE u == Done(call[c].ask, call[c].n, Rejected("Error"))
    <2>1. call' = [call EXCEPT ![c] = u] /\ u.phase = "done" /\ u.result = Rejected("Error")
      BY <1>5 DEF TimeOut, Done
    <2> HIDE DEF u
    <2>2. OutcomeOK(u)
      BY <2>1, Wrapped DEF OutcomeOK
    <2>3. QED
      BY <1>1, <2>1, <2>2, OutcomesTurn
  <1>6. CASE ServeLate \/ LoseLate \/ UNCHANGED callVars
    <2>1. call' = call
      BY <1>6 DEF ServeLate, LoseLate, callVars
    <2>2. ASSUME NEW d \in Callers PROVE OutcomeOK(call[d])'
      <3>1. PICK w : w = call[d]
        OBVIOUS
      <3>2. OutcomeOK(w)'
        BY <1>1, <3>1, SameOutcome DEF BoundsInv
      <3>3. QED
        BY <2>1, <3>1, <3>2 DEF OutcomeOK
    <2>3. QED
      BY <2>2
  <1>7. ASSUME NEW c \in Callers, Queue(c) PROVE Kept
    <2>1. PICK u : /\ u.phase = "served" /\ u.ask.op = "ingest"
                   /\ call' = [call EXCEPT ![c] = u]
      BY <1>7, QueueTells
    <2>2. OutcomeOK(u)
      BY <2>1 DEF OutcomeOK, Paged
    <2>3. QED
      BY <1>1, <2>1, <2>2, OutcomesTurn
  <1> HIDE DEF Kept
  <1>8. ASSUME NEW c \in Callers, Serve(c) \/ Reject(c) \/ Receive(c) PROVE Kept
    BY <1>1, <1>8, OutcomeServed, OutcomeReceived DEF Kept
  <1>9. Kept
    BY <1>3, <1>4, <1>5, <1>6, <1>7, <1>8 DEF CallsNext, Kept
  <1>10. QED
    BY <1>9 DEF Kept

LEMMA BoundsStepOK ==
  ASSUME CallsInv, AnswersInv, BoundsInv, [CallsNext]_callVars
  PROVE  BoundsInv'
  <1>1. Len(rows') <= MaxRows
    BY RowsBounded DEF BoundsInv
  <1>2. \A c \in Callers : OutcomeOK(call[c])'
    BY OutcomesStepOK
  <1>3. setup' = setup
    BY StepKeeps DEF SameSetup
  <1>4. (\E c \in Callers : Receive(c)) \/ lastIndex' = lastIndex
    BY DEF CallsNext, Begin, Refuse, Follow, Send, Serve, Queue, Reject, TimeOut, ServeLate, LoseLate,
           callVars
  <1>5. lastIndex' \in [DOMAIN ResolvePatterns(setup.filter) -> {0, 1}]
    BY <1>4, RemembersOn DEF BoundsInv
  <1>6. QED
    BY <1>1, <1>2, <1>3, <1>5 DEF BoundsInv

LEMMA BoundsInvHolds == CallsSpec => []BoundsInv
  <1>1. CallsInit => BoundsInv
    BY CallsAssumption DEF CallsInit, NoCall, BoundsInv, OutcomeOK
  <1>2. CallsInv /\ AnswersInv /\ BoundsInv /\ [CallsNext]_callVars => BoundsInv'
    BY BoundsStepOK
  <1>3. QED
    BY <1>1, <1>2, CallsInvHolds, AnswersInvHolds, PTL DEF CallsSpec

(* The parts of the state agree: ids name memories, requests were counted  *)
(* when they were sent, no answer is longer than the limit its caller set, *)
(* also where the client cuts what was recalled (hindsight-provider.ts,    *)
(* search), and the filter remembers a bit per pattern.                    *)
THEOREM CallsTypes == CallsSpec => []CallsTypeOK
  <1>1. CallsInv /\ AnswersInv /\ WalkInv /\ BoundsInv => CallsTypeOK
    <2> SUFFICES ASSUME CallsInv, AnswersInv, WalkInv, BoundsInv PROVE CallsTypeOK
      OBVIOUS
    <2>1. /\ setup \in Setups /\ alive \subseteq DOMAIN rows /\ Len(rows) <= MaxRows
          /\ \A i \in DOMAIN rows : rows[i].by \in 1..sentIngests
          /\ \A request \in late : request.op \in {"ingest", "delete"}
          /\ lastIndex \in [DOMAIN ResolvePatterns(setup.filter) -> {0, 1}]
      BY DEF CallsInv, NumbersOK, RowsOK, LateOK, BoundsInv
    <2>2. ASSUME NEW c \in Callers
          PROVE  /\ call[c].phase \in {"none", "sent", "served", "done"}
                 /\ \A m \in Delivered(c) : m.id \in DOMAIN rows
                 /\ walk[c].open => ~walk[c].complete
      <3>1. call[c].phase \in {"none", "sent", "served", "done"}
        BY DEF CallsInv, CallOK
      <3>2. walk[c].open => ~walk[c].complete
        BY DEF WalkInv, Walks
      <3>3. ASSUME NEW m \in Delivered(c) PROVE m.id \in DOMAIN rows
        <4>1. Resolved(c) /\ m \in ToSet(call[c].result.memories)
          BY DEF Delivered
        <4>2. QED
          BY <4>1 DEF AnswersInv, AnswersOK, AllHonest, Honest, Resolved, Ended
      <3>4. QED
        BY <3>1, <3>2, <3>3
    <2>3. ASSUME NEW c \in Callers, Resolved(c), call[c].ask.op \in {"search", "list"},
                 call[c].ask.limit # None
          PROVE  Len(call[c].result.memories) <= call[c].ask.limit
      BY <2>3 DEF Resolved, Ended, BoundsInv, OutcomeOK, Paged
    <2>4. QED
      BY <2>1, <2>2, <2>3 DEF CallsTypeOK
  <1>2. QED
    BY <1>1, CallsInvHolds, AnswersInvHolds, WalkInvHolds, BoundsInvHolds, PTL

(* A provider rejects with an error of its own hierarchy, whatever went    *)
(* wrong below (provider.ts, wrapError).                                   *)
THEOREM ProvidersWrapErrors == CallsSpec => []ErrorsAreProviderErrors
  <1>1. BoundsInv => ErrorsAreProviderErrors
    BY DEF BoundsInv, OutcomeOK, ErrorsAreProviderErrors, Ended
  <1>2. QED
    BY <1>1, BoundsInvHolds, PTL

===============================================================================
