------------------------------ MODULE MetaFacts ------------------------------
(***************************************************************************)
(* The meta-fact filter of the AtomicMemory provider.  A pattern is a      *)
(* record [family, global]: it matches the contents of one family of       *)
(* meta-facts at their start.  A regular expression with the flag g keeps  *)
(* a lastIndex between calls of test: after a match it starts the next     *)
(* test behind it, where an anchored pattern cannot match, and is back at  *)
(* 0 after that.  lastIndex is a sequence of 0s and 1s, one per pattern.   *)
(***************************************************************************)
EXTENDS Integers, Sequences, SequencesExt

CONSTANT
    Families        \* content |-> the families of meta-facts it belongs to

DefaultPatterns ==
    <<[family |-> "user said",  global |-> FALSE],
      [family |-> "term",       global |-> FALSE],
      [family |-> "name",       global |-> FALSE],
      [family |-> "involves",   global |-> FALSE],
      [family |-> "started",    global |-> FALSE]>>

(* The configuration of the filter: [enabled, patterns, mode], where       *)
(* patterns is <<>> when the application gives none.                       *)
ResolvePatterns(config) ==
    IF config.patterns = <<>> THEN DefaultPatterns
    ELSE IF config.mode = "extend" THEN config.patterns \o DefaultPatterns ELSE config.patterns

Tests(pattern, last, content) ==
    pattern.family \in Families[content] /\ (pattern.global => last = 0)

(* The pattern that drops the content, 0 when none does. *)
MatchedIndex(patterns, lastIndex, content) ==
    LET hits == {i \in DOMAIN patterns : Tests(patterns[i], lastIndex[i], content)}
    IN  IF hits = {} THEN 0 ELSE Min(hits)

(* Every pattern up to the matching one has been tested. *)
LastIndexAfter(patterns, lastIndex, content) ==
    LET hit == MatchedIndex(patterns, lastIndex, content)
    IN  [i \in DOMAIN patterns |->
            CASE i = hit -> IF patterns[i].global THEN 1 ELSE 0
              [] hit # 0 /\ i > hit -> lastIndex[i]
              [] OTHER -> 0]

FilterStep(patterns, done, item, content) ==
    [last |-> LastIndexAfter(patterns, done.last, content),
     kept |-> IF MatchedIndex(patterns, done.last, content) = 0 THEN Append(done.kept, item)
                                                                ELSE done.kept]

(* The items that are kept, and the lastIndex the patterns are left with; *)
(* contents[i] is the content of items[i].                                 *)
FilterMetaFacts(items, contents, config, lastIndex) ==
    IF ~config.enabled THEN [kept |-> items, last |-> lastIndex]
    ELSE FoldLeftDomain(LAMBDA done, i :
                            FilterStep(ResolvePatterns(config), done, items[i], contents[i]),
                        [kept |-> <<>>, last |-> lastIndex], items)
==============================================================================
