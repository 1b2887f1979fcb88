----------------------------- MODULE Retrieval -----------------------------
(***************************************************************************)
(* SearchService.search: two retrievers run side by side and are fused by  *)
(* reciprocal rank, a reranker scores the candidates in batches, and the   *)
(* votes of earlier readers nudge the order of what is left.               *)
(*                                                                         *)
(* Chunks are those the caller may read and the filters let through, which *)
(* both retrievers ask of the database with the same clauses. A rank's     *)
(* share 1/(60+r) and tanh are integers of a common scale, so that two     *)
(* orders compare as they do in the code.                                  *)
(***************************************************************************)
EXTENDS Integers, Sequences, FiniteSets, SequencesExt, Listing

CONSTANTS
    Chunk, DocumentOf,  \* the readable chunks, and the document of each
    Depth,              \* bound: hits of one retriever, per_retriever_k
    Limits,             \* k of a request
    Pool,               \* candidates kept for each k: max(retrieve_k, 3 * k)
    MaxBatch,           \* reranker_max_batch_size
    MaxVotes,           \* bound: net votes of a document
    None

VARIABLES
    search,  \* the search being served
    answer   \* what the last one returned, from what the reranker left and the votes

vars == <<search, answer>>

Document == {DocumentOf[c] : c \in Chunk}
Asked == {TRUE, FALSE}
Lists == {s \in SeqOf(Chunk, Depth) : IsInjective(s)}
\* Nearest first, and by ts_rank_cd; a query without known words matches nothing.
VectorHits == Lists
KeywordHits == Lists

\* submit_feedback stores one vote up or down for the documents an answer cited, and
\* signals_for sums them up; nothing when they cannot be read, or were not asked for.
Signals == [Document -> [Asked -> -MaxVotes..MaxVotes]]

TypeOK ==
    /\ search \in [k : Limits, vector : Seq(Chunk), keyword : Seq(Chunk), found : Seq(Chunk),
                   stage : {"fused", "ranked"}] \cup {None}
    /\ answer \in [found : Seq(Chunk), hits : Seq(Chunk), signals : Signals] \cup {None}

Init == search = None /\ answer = None
-----------------------------------------------------------------------------
Clip(s, n) == SubSeq(s, 1, IF Len(s) < n THEN Len(s) ELSE n)

\* 1 / (60 + rank), exact up to rank 4 and in order beyond; nothing for a list without the
\* chunk.
Share(c, list) ==
    IF Contains(list, c) THEN (61 * 62 * 63 * 64) \div (60 + CHOOSE r \in DOMAIN list : list[r] = c)
    ELSE 0

\* Fault: a chunk counts where it was seen first.
RRFOnce(c, vector, keyword) ==
    IF Contains(vector, c) THEN Share(c, vector) ELSE Share(c, keyword)
RRF(c, vector, keyword) == Share(c, vector) + Share(c, keyword)

\* Merged as they are seen, the vector list first; a retriever that fails found nothing.
Fuse(vector, keyword) ==
    LET new == {i \in DOMAIN keyword : ~Contains(vector, keyword[i])}
        merged == vector \o Only(keyword, new)
    IN Sorted(merged, [i \in DOMAIN merged |-> -RRF(merged[i], vector, keyword)])

Search(k, vector, keyword) ==
    /\ search = None /\ answer = None
    /\ search' = [k |-> k, vector |-> vector, keyword |-> keyword,
                  found |-> Clip(Fuse(vector, keyword), Pool[k]), stage |-> "fused"]
    /\ UNCHANGED answer

Ranked(found) ==
    /\ search' = [search EXCEPT !.vector = <<>>, !.keyword = <<>>, !.found = found,
                                !.stage = "ranked"]
    /\ UNCHANGED answer

\* rerank=False, or the reranker that leaves the order alone.
NoRerank == search # None /\ search.stage = "fused" /\ Ranked(Clip(search.found, search.k))

Batch(s, b) ==
    SubSeq(s, (b - 1) * MaxBatch + 1, IF b * MaxBatch < Len(s) THEN b * MaxBatch ELSE Len(s))
Best(s, scores) == Sorted(s, [i \in DOMAIN s |-> -scores[s[i]]])
\* The replies of the batches, each best first, one after the other.
Scored(s, scores) ==
    [p \in DOMAIN s |-> LET b == (p - 1) \div MaxBatch + 1
                        IN  Best(Batch(s, b), scores)[p - (b - 1) * MaxBatch]]

\* Fault: the replies are taken as they come.
BatchesInTurn(s, scores) == Scored(s, scores)
\* Sorted again over all batches.
Reranked(s, scores) == Best(Scored(s, scores), scores)

Rerank(scores) ==
    /\ search # None /\ search.stage = "fused"
    /\ Ranked(Clip(Reranked(search.found, scores), search.k))

\* RerankerError ends the search.
RerankFails ==
    /\ search # None /\ search.stage = "fused"
    /\ search' = None
    /\ UNCHANGED answer

\* 2 * tanh(0.15 * n) in thousandths.
Squash == <<298, 583, 844, 1074, 1270, 1433, 1564, 1667, 1748, 1810, 1858, 1894>>
Shift(n) == IF n = 0 THEN 0
            ELSE IF n > 0 THEN Squash[IF n > 12 THEN 12 ELSE n]
            ELSE -Squash[IF n < -12 THEN 12 ELSE -n]

\* 0.15 of all votes and 0.45 of those on this question, which are among them.
Signal(signals, d) == 4 * signals[d][TRUE] + signals[d][FALSE]

\* Fault: the shift is not squashed.
Unsquashed(signals, d) == 300 * Signal(signals, d)
Moved(signals, d) == Shift(Signal(signals, d))

Nudged(hits, signals) ==
    Sorted(hits, [i \in DOMAIN hits |-> 1000 * i - Moved(signals, DocumentOf[hits[i]])])

Answer(signals) ==
    /\ search # None /\ search.stage = "ranked"
    /\ answer' = [found |-> search.found, hits |-> Nudged(search.found, signals),
                  signals |-> signals]
    /\ search' = None

\* The outcome is the caller's: the route's body, or the context of a prompt.
Return == answer # None /\ answer' = None /\ UNCHANGED search

Orders(s) == {f \in [ToSet(s) -> 1..Len(s)] : \A c, d \in ToSet(s) : c # d => f[c] # f[d]}

Next ==
    \/ \E k \in Limits, v \in VectorHits, w \in KeywordHits : Search(k, v, w)
    \/ NoRerank \/ RerankFails \/ Return
    \/ search # None /\ \E scores \in Orders(search.found) : Rerank(scores)
    \/ \E signals \in Signals : Answer(signals)

Spec == Init /\ [][Next]_vars
-----------------------------------------------------------------------------
Place(c, s) == CHOOSE i \in DOMAIN s : s[i] = c
Precedes(c, d, s) == Place(c, s) < Place(d, s)

\* c, which both retrievers found, weighs more than d: it is ahead of d in both lists, or d is
\* in one alone and not so far up there that its share outweighs two.
Ahead(c, d, vector, keyword) ==
    IF d \in ToSet(vector) \cap ToSet(keyword)
    THEN Precedes(c, d, vector) /\ Precedes(c, d, keyword)
    ELSE \A list, other \in {vector, keyword} :
            d \in ToSet(list) => Place(c, other) < 2 * Place(d, list) + 60

\* What both retrievers found comes before what one of them found, unless that is far ahead,
\* and of two that both found the one that is ahead in both lists comes first; one that
\* fails takes nothing away, and what the pool drops comes last.
AgreementWins(vector, keyword, found, pool) ==
    LET all == ToSet(vector) \cup ToSet(keyword)
        both == ToSet(vector) \cap ToSet(keyword)
    IN  /\ ToSet(found) \subseteq all /\ IsInjective(found)
        /\ ToSet(found) = all \/ Len(found) = pool
        /\ \A c \in both : \A d \in ToSet(found) \ {c} :
              Ahead(c, d, vector, keyword) => c \in ToSet(found) /\ Precedes(c, d, found)

\* However the reranker's batches fall, the k it leaves are its k best, in order.
BestAreLeft(found, k) ==
    \A scores \in Orders(found) :
        LET left == Clip(Reranked(found, scores), k)
        IN  /\ \A i \in DOMAIN left : \A c \in ToSet(found) :
                  scores[c] > scores[left[i]] => \E j \in 1..(i - 1) : left[j] = c
            /\ Len(left) = IF Len(found) < k THEN Len(found) ELSE k

\* Votes bring in nothing and drop nothing, let a hit pass only one whose document has less
\* of a name, and while they are about one document move no hit by more than a place.
VotesOnlyReorder(found, hits, signals) ==
    /\ ToSet(hits) = ToSet(found) /\ Len(hits) = Len(found)
    /\ Cardinality({d \in Document : Signal(signals, d) # 0}) <= 1 =>
          \A c \in ToSet(hits) : Place(c, hits) - Place(c, found) \in -1..1
    /\ \A c, d \in ToSet(hits) :
          Precedes(c, d, found) /\ Precedes(d, c, hits) =>
              Signal(signals, DocumentOf[d]) > Signal(signals, DocumentOf[c])

\* The order a reader sees follows the evidence: of the retrievers first, then of the
\* reranker, and of earlier readers only within a few places (retrievers/hybrid.py:64-95,
\* rerankers/tei.py:60-84, feedback.py:79-108; feedback.py:3-9 promises the last).
OrderFollowsEvidence ==
    /\ search # None /\ search.stage = "fused" =>
          /\ AgreementWins(search.vector, search.keyword, search.found, Pool[search.k])
          /\ BestAreLeft(search.found, search.k)
    /\ answer # None => VotesOnlyReorder(answer.found, answer.hits, answer.signals)
=============================================================================
