---------------------------- MODULE HybridSearch ----------------------------
(***************************************************************************)
(* Hybrid search over persistent memories (memory/search.go): a semantic   *)
(* and a keyword query, each a statement of its own, fused by reciprocal   *)
(* rank, filtered and cut to a page, while other requests write.           *)
(*                                                                         *)
(* Which rows a query finds depends on their content; here "found" says,   *)
(* for each memory as it is now, which of the two queries of the search    *)
(* under way finds it.  The order a query returns them in is any order:    *)
(* similarity and text rank are not modelled, nor are the contents the     *)
(* answer is made of.                                                      *)
(***************************************************************************)
EXTENDS Integers, Sequences, FiniteSets

CONSTANTS
  Memories,   \* memory ids
  Limits,     \* the page sizes asked for
  Offsets,    \* the offsets asked for
  MaxWrites   \* bound: writes while the search is under way

ASSUME HybridSearchAssumption ==
  /\ IsFiniteSet(Memories)
  /\ Limits \subseteq Nat \ {0} /\ Offsets \subseteq Nat /\ MaxWrites \in Nat

VARIABLES
  found,   \* by memory, the queries that find it; none once it is deleted,
           \* and none when no search is under way
  search,  \* the search under way
  writes   \* how many writes there have been since it began

vars == <<found, search, writes>>

Queries == {"semantic", "keyword"}
K == 60
Candidates(limit) == limit * 3   \* rows a query returns at most

FoundBy(q) == {m \in Memories : q \in found[m]}
Findable == {m \in Memories : found[m] # {}}

\* "ever" and "always" are history fields: by query, the memories it would have
\* found at some, at every moment since the search began.
NoSearch == [pc |-> "idle", limit |-> 1, offset |-> 0, embeds |-> TRUE, kept |-> {},
             semantic |-> <<>>, keyword |-> <<>>, merged |-> <<>>, page |-> <<>>,
             ever |-> {}, always |-> [q \in Queries |-> {}]]

NotFound == [m \in Memories |-> {}]

Init ==
  /\ found = NotFound
  /\ search = NoSearch
  /\ writes = 0

-----------------------------------------------------------------------------
(* Reciprocal rank fusion.  A score is a fraction, [num, den].             *)

Rank(list, m) ==
  IF \E i \in 1..Len(list) : list[i] = m
  THEN CHOOSE i \in 1..Len(list) : list[i] = m
  ELSE 0   \* not in the map

Reciprocal(rank) == [num |-> 1, den |-> K + rank]

Plus(x, y) == [num |-> x.num * y.den + y.num * x.den, den |-> x.den * y.den]

Score(a, b) ==
  IF a = 0 THEN Reciprocal(b)
  ELSE IF b = 0 THEN Reciprocal(a)
  ELSE Plus(Reciprocal(a), Reciprocal(b))

Higher(x, y) == x.num * y.den > y.num * x.den

RRFScore(semantic, keyword, m) == Score(Rank(semantic, m), Rank(keyword, m))

InList(list) == {list[i] : i \in 1..Len(list)}

\* The listings of a set without repetition.
Listings(set) ==
  {l \in [1..Cardinality(set) -> set] : InList(l) = set}

\* Faulty variant: a memory of both rankings is merged twice.
ReciprocalRankFusionTwice(semantic, keyword) == {semantic \o keyword}

\* Faulty variant: the two rankings are taken one after the other.
ReciprocalRankFusionAppended(semantic, keyword) ==
  {semantic \o SelectSeq(keyword, LAMBDA m : m \notin InList(semantic))}

\* Faulty variant: the ranks of the second list replace those of the first.
ReciprocalRankFusionReplaced(semantic, keyword) ==
  LET ranked(m) == IF m \in InList(keyword) THEN Rank(keyword, m) ELSE Rank(semantic, m) IN
  {l \in Listings(InList(semantic) \cup InList(keyword)) :
     \A i, j \in 1..Len(l) : i < j => ranked(l[i]) =< ranked(l[j])}

\* What reciprocalRankFusion may return: the ids of both lists by falling score.
\* Equal scores come in any order, as the ids come out of a map and sort.Slice
\* is not stable.
ReciprocalRankFusion(semantic, keyword) ==
  LET score(m) == RRFScore(semantic, keyword, m) IN
  {l \in Listings(InList(semantic) \cup InList(keyword)) :
     \A i, j \in 1..Len(l) : i < j => ~Higher(score(l[j]), score(l[i]))}

AtMost(a, b) == IF a < b THEN a ELSE b

\* applyFilters: those of the list that are kept, in its order.
Filter(list, kept) ==
  LET passed == {i \in 1..Len(list) : list[i] \in kept}
      Nth(n) == CHOOSE i \in passed : Cardinality({j \in passed : j =< i}) = n
  IN [n \in 1..Cardinality(passed) |-> list[Nth(n)]]

\* Faulty variant: the page ends at the limit, not at the offset plus the limit.
PageEndsAtLimit(list, offset, limit) ==
  LET total == Len(list)
      start == IF offset > total THEN total ELSE offset
  IN SubSeq(list, start + 1, AtMost(limit, total))

\* filtered[start:end]
Page(list, offset, limit) ==
  LET total == Len(list)
      end == AtMost(offset + limit, total)
      start == IF offset > total THEN total ELSE offset
  IN SubSeq(list, start + 1, end)

-----------------------------------------------------------------------------
(* The search.                                                             *)

\* A search whose types include none that is searched by meaning has no
\* embedding (needsSemantic).  Its queries may find anything that is stored.
Search(limit, offset) ==
  /\ search.pc = "idle"
  /\ found' \in [Memories -> SUBSET Queries]
  /\ \E embeds \in BOOLEAN :
       search' = [NoSearch EXCEPT !.pc = "semantic", !.limit = limit, !.offset = offset,
                                  !.embeds = embeds, !.ever = Findable',
                                  !.always = [q \in Queries |-> FoundBy(q)']]
  /\ UNCHANGED writes

\* The rows of a query: all it finds, in some order, or the first Candidates.
Results(q) ==
  LET n == Candidates(search.limit) IN
  {SubSeq(l, 1, AtMost(Len(l), n)) : l \in Listings(FoundBy(q))}

\* The query is sent without an embedding, too: PostgreSQL refuses a vector of
\* no dimensions, and the search ends there.
SemanticSearch ==
  /\ search.pc = "semantic"
  /\ search.embeds
  /\ \E l \in Results("semantic") :
       search' = [search EXCEPT !.pc = "keyword", !.semantic = l]
  /\ UNCHANGED <<found, writes>>

\* Faulty variant: the keyword query also returns deleted memories.
KeywordSearchDeleted ==
  /\ search.pc = "keyword"
  /\ \E l \in Listings(FoundBy("keyword") \cup {m \in Memories : found[m] = {}}) :
       search' = [search EXCEPT !.pc = "fuse",
                                !.keyword = SubSeq(l, 1, AtMost(Len(l), Candidates(search.limit)))]
  /\ UNCHANGED <<found, writes>>

KeywordSearch ==
  /\ search.pc = "keyword"
  /\ \E l \in Results("keyword") :
       search' = [search EXCEPT !.pc = "fuse", !.keyword = l]
  /\ UNCHANGED <<found, writes>>

\* Fusion, filters and the page.  "kept" is what the filters let through: all
\* without filters, any set by creation time, and nothing by tag, least confidence
\* or attestation, since the queries leave a memory's metadata empty.
Answer ==
  /\ search.pc = "fuse"
  /\ \E l \in ReciprocalRankFusion(search.semantic, search.keyword) :
       \E kept \in {Memories} \cup SUBSET InList(l) :
         search' = [search EXCEPT
                      !.pc = "done",
                      !.merged = l,
                      !.kept = kept,
                      !.page = Page(Filter(l, kept), search.offset, search.limit)]
  /\ UNCHANGED <<found, writes>>

\* What the page is cut from; its length is the total of the answer.
Filtered == Filter(search.merged, search.kept)

\* A query fails, and with it the search.
Fail ==
  /\ search.pc \in {"semantic", "keyword"}
  /\ search' = [search EXCEPT !.pc = "failed"]
  /\ UNCHANGED <<found, writes>>

\* Another request stores, rewrites or deletes a memory.
Write(m, by) ==
  /\ search.pc \in {"semantic", "keyword"}
  /\ found[m] # by
  /\ writes < MaxWrites
  /\ writes' = writes + 1
  /\ found' = [found EXCEPT ![m] = by]
  /\ search' = [search EXCEPT
                  !.ever = IF by = {} THEN @ ELSE @ \cup {m},
                  !.always = [q \in Queries |-> IF q \in by THEN @[q] ELSE @[q] \ {m}]]

-----------------------------------------------------------------------------

Next ==
  \/ \E limit \in Limits, offset \in Offsets : Search(limit, offset)
  \/ SemanticSearch \/ KeywordSearch \/ Answer \/ Fail
  \/ \E m \in Memories, by \in SUBSET Queries : Write(m, by)

Spec == Init /\ [][Next]_vars

-----------------------------------------------------------------------------
(* Properties.                                                             *)

Distinct(list) == \A i, j \in 1..Len(list) : list[i] = list[j] => i = j

\* Type invariant.  No list ever has a memory twice, although a memory can be in
\* both rankings (search.go:195-201), and no query returns more than it is asked
\* for.
TypeOK ==
  /\ found \in [Memories -> SUBSET Queries]
  /\ search.pc \in {"idle", "semantic", "keyword", "fuse", "done", "failed"}
  /\ \A list \in {search.semantic, search.keyword, search.merged, search.page} :
       InList(list) \subseteq Memories /\ Distinct(list)
  /\ \A list \in {search.semantic, search.keyword} : Len(list) =< Candidates(search.limit)
  /\ writes \in 0..MaxWrites

\* x is ahead of y in a ranking, where what is missing comes last.
Ahead(list, x, y) == Rank(list, x) # 0 /\ (Rank(list, y) = 0 \/ Rank(list, x) < Rank(list, y))
NotBehind(list, x, y) == Ahead(list, x, y) \/ Rank(list, x) = Rank(list, y)

\* Fusion respects what both rankings agree on: a memory ahead in one and not
\* behind in the other comes first (search.go:203-238).
AgreementIsKept ==
  \A i, j \in 1..Len(search.merged) :
    LET x == search.merged[i]
        y == search.merged[j]
    IN NotBehind(search.semantic, x, y) /\ NotBehind(search.keyword, x, y) /\ x # y => i < j

InBoth == InList(search.semantic) \cap InList(search.keyword)

\* Being found by both queries counts for more than being first in one, as long as
\* neither rank is beyond 61: two reciprocals at 61 make 2/121, the best of a single
\* ranking has 1/61, and from 62 on the two no longer outweigh it (k = 60,
\* search.go:183).  A page of at most 20 asks for no more ranks than that; the REST
\* API accepts limits up to 100 (memory_handlers.go:70), with 300 ranks.
BothBeatOne ==
  \A i, j \in 1..Len(search.merged) :
    LET x == search.merged[i]
        y == search.merged[j]
    IN /\ x \in InBoth /\ Rank(search.semantic, x) =< K + 1 /\ Rank(search.keyword, x) =< K + 1
       /\ y \notin InBoth
       => i < j

Done == search.pc = "done"
\* The two queries see the table at two moments (search.go:46, 51).  Still nothing
\* is returned that was not findable while the search ran, and nothing that one
\* query would have found all along is lost in the fusion, unless that query
\* had more than it returns.
SearchIsHonest ==
  Done =>
    /\ InList(search.page) \subseteq search.ever \cap search.kept
    /\ \A q \in Queries :
         \/ search.always[q] \subseteq InList(search.merged)
         \/ Len(IF q = "semantic" THEN search.semantic ELSE search.keyword)
              = Candidates(search.limit)

\* The page is the window of the list it is said to be (search.go:59-70), whatever
\* the offset; ties, which fall anew in every search, are all that may differ
\* between two pages of the same table: the scores in it are those of the memories
\* the window of any other order holds.
PageIsTheWindow ==
  LET score(m) == RRFScore(search.semantic, search.keyword, m)
      kept == Filtered
      Better(m) == {n \in InList(kept) : Higher(score(n), score(m))}
      NotWorse(m) == {n \in InList(kept) : ~Higher(score(m), score(n))}
  IN Done =>
       /\ Len(search.page) =
            (IF search.offset >= Len(kept) THEN 0 ELSE AtMost(search.limit, Len(kept) - search.offset))
       /\ \A i \in 1..Len(search.page) :
            search.offset + i \in
              (Cardinality(Better(search.page[i])) + 1)..Cardinality(NotWorse(search.page[i]))
=============================================================================
