------------------------------- MODULE Search -------------------------------
(***************************************************************************)
(* Reading memlord while others write: hybrid search (search.py) with the  *)
(* tools retrieve_memory and recall_memory and the search page on top of   *)
(* it, search_by_tag, and the pages of list_memories.  A read makes        *)
(* several statements, each with a snapshot of its own, and a client that  *)
(* turns pages makes several requests.                                     *)
(*                                                                         *)
(* Readers do not disturb each other, so there is one, of one user, who    *)
(* may have joined or left any workspace before each request.  What the    *)
(* statements look at in a row, its text, tags and embedding, is a "doc";  *)
(* how a doc answers the query is given by constants.  Writers act in one  *)
(* step each: Memories and Tags show how they get there.                   *)
(***************************************************************************)
EXTENDS Integers, FiniteSets, Sequences, SequencesExt

CONSTANTS
    MemIds, WsIds, Docs, Times,
    TextRank,      \* ts_rank of a doc for the query, 0 if neither text nor tags match
    Distance,      \* cosine distance of a doc from the query
    MaxDistance,   \* 1 - similarity_threshold, by kind of search
    TagsOf,        \* the tags of a doc
    RawTags, Normal, Blank,  \* as in Memories
    Limit,         \* limit, n_results
    Window,        \* how many times the limit each statement fetches (4)
    K,             \* rrf_k (60)
    PageSize,
    None

ASSUME QueryAssumption ==
    /\ Times \subseteq Nat
    /\ TextRank \in [Docs -> Nat] /\ Distance \in [Docs -> Nat]
    /\ MaxDistance \in [{"retrieve", "recall", "page"} -> Nat]
    /\ None \notin Nat

ASSUME SizesAssumption == {Limit, Window, K, PageSize} \subseteq Nat \ {0}

ASSUME NormalAssumption == Normal \in [RawTags -> RawTags \cup {Blank}] /\ Blank \notin RawTags

VARIABLES
    memory,   \* [MemIds -> row, or None]
    request

vars == <<memory, request>>

MemoryRow == [ws: WsIds, doc: Docs, at: Times]
Live == {m \in MemIds : memory[m] # None}

(* The memories in the workspaces that get_accessible_workspace_ids found. *)
In(access) == {m \in Live : memory[m].ws \in access}

(* ORDER BY: any order that agrees with Before, equal elements as they come.*)
Orderings(S, Before(_, _)) ==
    {s \in SetToSeqs(S) : \A i, j \in DOMAIN s : i < j => ~Before(s[j], s[i])}

Slice(s, offset, n) == SubSeq(s, offset + 1, IF offset + n < Len(s) THEN offset + n ELSE Len(s))
Ids(s) == {x.id : x \in ToSet(s)}

Idle == [op |-> "idle"]
Searches == {"retrieve", "recall", "page"}
AtStep(op, step) == request # Idle /\ request.op \in op /\ request.step = step
Finish == request' = Idle

Init ==
    /\ memory = [m \in MemIds |-> None]
    /\ request = Idle

-----------------------------------------------------------------------------
(* hybrid_search *)

(* All workspaces that the user is a member of at the time, or a named one;*)
(* in recall_memory a period, if the query speaks of dates, up to the      *)
(* present as far as the clock goes.                                       *)
Periods == {{t \in Times : since <= t /\ t <= until} : since, until \in Times}

SearchBegin == \E op \in Searches, access \in SUBSET WsIds, period \in Periods :
    /\ request = Idle
    /\ op # "recall" => period = Times
    /\ request' = [op |-> op, access |-> access, period |-> period, text |-> <<>>, vec |-> <<>>,
                   answer |-> <<>>, dates |-> <<>>, step |-> "text"]
    /\ UNCHANGED memory

(* The columns that both statements select.                                *)
Wanted == {[id |-> m, ws |-> memory[m].ws, doc |-> memory[m].doc] :
              m \in {x \in In(request.access) : memory[x].at \in request.period}}

(* Full-text matches, best ts_rank first.                                  *)
TextSearch ==
    /\ AtStep(Searches, "text")
    /\ \E s \in Orderings({x \in Wanted : TextRank[x.doc] > 0},
                          LAMBDA x, y : TextRank[x.doc] > TextRank[y.doc]) :
          request' = [request EXCEPT !.text = Slice(s, 0, Window * Limit), !.step = "vec"]
    /\ UNCHANGED memory

RankIn(s, m) == IF \E i \in DOMAIN s : s[i].id = m
                THEN CHOOSE i \in DOMAIN s : s[i].id = m ELSE None

(* Mutant: a row that both statements found is shown as the first saw it.  *)
ShownAsText(text, vec, m) ==
    IF RankIn(text, m) # None THEN text[RankIn(text, m)] ELSE vec[RankIn(vec, m)]

(* bm25 contents | vec contents: the row of the later statement wins.      *)
Shown(text, vec, m) ==
    IF RankIn(vec, m) # None THEN vec[RankIn(vec, m)] ELSE text[RankIn(text, m)]

Hit(text, vec, m) ==
    [id |-> m, ws |-> Shown(text, vec, m).ws, doc |-> Shown(text, vec, m).doc,
     text |-> RankIn(text, m), vec |-> RankIn(vec, m),
     distance |-> IF RankIn(vec, m) = None THEN None ELSE Distance[vec[RankIn(vec, m)].doc]]

(* Mutant: the threshold also drops text matches.                          *)
HitsAllFar(text, vec, far) ==
    {h \in {Hit(text, vec, m) : m \in Ids(text) \cup Ids(vec)} :
        h.distance # None => h.distance <= far}

(* The threshold drops what only the vectors found.                        *)
Hits(text, vec, far) ==
    {h \in {Hit(text, vec, m) : m \in Ids(text) \cup Ids(vec)} :
        h.text = None => h.distance <= far}

(* Mutant: a memory that a statement did not find has rank 0 there.        *)
ScoreZero(h) ==
    LET rank(i) == IF i = None THEN 0 ELSE i
    IN  <<(K + rank(h.text)) + (K + rank(h.vec)), (K + rank(h.text)) * (K + rank(h.vec))>>

(* Reciprocal rank fusion, 1 / (K + text) + 1 / (K + vec), as fractions.   *)
Score(h) ==
    LET term(rank) == IF rank = None THEN <<0, 1>> ELSE <<1, K + rank>>
        a == term(h.text)
        b == term(h.vec)
    IN  <<a[1] * b[2] + b[1] * a[2], a[2] * b[2]>>

Above(x, y) == Score(x)[1] * Score(y)[2] > Score(y)[1] * Score(x)[2]

(* Mutant: all fused hits are returned.                                    *)
TopAll(s) == s

Top(s) == Slice(s, 0, Limit)

(* Nearest embeddings first, in a later snapshot; then the fusion.         *)
VectorSearch ==
    /\ AtStep(Searches, "vec")
    /\ \E s \in Orderings(Wanted, LAMBDA x, y : Distance[x.doc] < Distance[y.doc]) :
          LET vec == Slice(s, 0, Window * Limit) IN
          \E r \in Orderings(Hits(request.text, vec, MaxDistance[request.op]), Above) :
             request' = [request EXCEPT !.vec = vec, !.answer = Top(r), !.step = "enrich"]
    /\ UNCHANGED memory

(* Tags and dates are looked up by id, in later statements.                *)
WithDates ==
    [request EXCEPT !.step = "done", !.text = <<>>, !.vec = <<>>,
        !.dates = [i \in DOMAIN request.answer |->
                      LET m == request.answer[i].id
                      IN  IF m \in Live THEN memory[m].at ELSE None]]

(* retrieve_memory shows a memory that is gone by now with the present time.*)
Enrich ==
    /\ AtStep({"retrieve"}, "enrich")
    /\ request' = WithDates
    /\ UNCHANGED memory

(* Mutant: so do the others.                                               *)
EnrichWithDefault ==
    /\ AtStep({"recall", "page"}, "enrich")
    /\ request' = WithDates
    /\ UNCHANGED memory

(* created_map[r.id]: recall_memory and the search page end in a KeyError. *)
EnrichOrFail ==
    /\ AtStep({"recall", "page"}, "enrich")
    /\ IF Ids(request.answer) \subseteq Live THEN request' = WithDates ELSE Finish
    /\ UNCHANGED memory

-----------------------------------------------------------------------------
(* search_by_tag *)

(* A caller gives a list of tags.                                          *)
TagSearchBegin ==
  \E asked \in {S \in SUBSET RawTags : IsFiniteSet(S)}, operation \in {"AND", "OR"},
     access \in SUBSET WsIds :
    /\ request = Idle
    /\ \E t \in asked : Normal[t] # Blank
    /\ request' = [op |-> "tags", asked |-> asked, operation |-> operation, access |-> access,
                   answer |-> {}, step |-> "select"]
    /\ UNCHANGED memory

TagsAsked(asked) == {Normal[t] : t \in asked} \ {Blank}

(* Mutant: blank tags count.                                               *)
HasTagsCountingBlanks(doc, asked, operation) ==
    LET found == Cardinality(TagsOf[doc] \cap TagsAsked(asked))
    IN  IF operation = "AND" THEN found = Cardinality(asked) ELSE found > 0

(* AND compares the number of distinct tags found with the length of the   *)
(* list of normalised tags.                                                *)
HasTags(doc, asked, operation) ==
    LET found == Cardinality(TagsOf[doc] \cap TagsAsked(asked))
    IN  IF operation = "AND" THEN found = Cardinality({t \in asked : Normal[t] # Blank})
                             ELSE found > 0

TagSearch ==
    /\ AtStep({"tags"}, "select")
    /\ request' = [request EXCEPT !.step = "done", !.answer =
          {m \in In(request.access) : HasTags(memory[m].doc, request.asked, request.operation)}]
    /\ UNCHANGED memory

-----------------------------------------------------------------------------
(* list_memories: a client that turns pages until one comes back short.    *)
(* What the client and the table went through meanwhile is history.        *)

(* Two memories of the list have the same created_at.                      *)
Tied(list) == \E m, x \in list : m # x /\ memory[m].at = memory[x].at

(* The list goes from "before" to "after".                                 *)
Seen(q, before, after, tied) ==
    [q EXCEPT !.stayed = @ \cap after, !.shrunk = @ \/ ~(before \subseteq after),
              !.tied = @ \/ tied]

ListBegin == \E access \in SUBSET WsIds :
    /\ request = Idle
    /\ request' = [op |-> "list", page |-> 1, access |-> access, shown |-> {}, step |-> "rows",
                   stayed |-> In(access), shrunk |-> FALSE, tied |-> Tied(In(access))]
    /\ UNCHANGED memory

(* Mutant: pages are counted from zero.                                    *)
OffsetFromZero(page) == page * PageSize

Offset(page) == (page - 1) * PageSize

(* Newest first, LIMIT and OFFSET.                                         *)
ListRows ==
    /\ AtStep({"list"}, "rows")
    /\ \E s \in Orderings(In(request.access), LAMBDA x, y : memory[x].at > memory[y].at) :
          LET page == Slice(s, Offset(request.page), PageSize) IN
          request' = [request EXCEPT !.shown = @ \cup ToSet(page), !.page = @ + 1,
                         !.step = IF Len(page) < PageSize THEN "done" ELSE "next"]
    /\ UNCHANGED memory

(* The next page is a request of its own: the workspaces are read again.   *)
ListNext == \E access \in SUBSET WsIds :
    /\ AtStep({"list"}, "next")
    /\ request' = Seen([request EXCEPT !.access = access, !.step = "rows"],
                       In(request.access), In(access), Tied(In(access)))
    /\ UNCHANGED memory

Answered ==
    /\ AtStep(Searches \cup {"tags", "list"}, "done")
    /\ Finish
    /\ UNCHANGED memory

-----------------------------------------------------------------------------
(* Writers *)

(* What a listing has lived through is kept up to date by every write.     *)
Witness ==
    request' = IF request = Idle \/ request.op # "list" THEN request
               ELSE LET after == {m \in Live' : memory'[m].ws \in request.access}
                    IN  Seen(request, In(request.access), after,
                             \E m, x \in after : m # x /\ memory'[m].at = memory'[x].at)

(* The ids that the reader has seen; ids are not reused.                   *)
Known ==
    CASE request = Idle -> {}
      [] request.op \in Searches ->
             Ids(request.text) \cup Ids(request.vec) \cup Ids(request.answer)
      [] request.op = "tags" -> request.answer
      [] request.op = "list" -> request.shown

Store(m) ==
    /\ m \notin Live \cup Known
    /\ \E row \in MemoryRow : memory' = [memory EXCEPT ![m] = row]
    /\ Witness

Update(m) ==
    /\ m \in Live
    /\ \E d \in Docs : memory' = [memory EXCEPT ![m].doc = d]
    /\ Witness

Move(m) ==
    /\ m \in Live
    /\ \E w \in WsIds : memory' = [memory EXCEPT ![m].ws = w]
    /\ Witness

Delete(m) ==
    /\ m \in Live
    /\ memory' = [memory EXCEPT ![m] = None]
    /\ Witness

Next ==
    \/ SearchBegin \/ TextSearch \/ VectorSearch \/ Enrich \/ EnrichOrFail
    \/ TagSearchBegin \/ TagSearch
    \/ ListBegin \/ ListRows \/ ListNext
    \/ Answered
    \/ \E m \in MemIds : Store(m) \/ Update(m) \/ Move(m) \/ Delete(m)

Spec == Init /\ [][Next]_vars

-----------------------------------------------------------------------------
(* Properties *)

Rank == 1 .. Window * Limit
HitRow == [id: MemIds, ws: WsIds, doc: Docs, text: Rank \cup {None}, vec: Rank \cup {None},
           distance: Nat \cup {None}]

ReadRow == [id: MemIds, ws: WsIds, doc: Docs]

SearchRequest == [op: Searches, access: SUBSET WsIds, period: SUBSET Times, text: Seq(ReadRow),
                  vec: Seq(ReadRow), answer: Seq(HitRow), dates: Seq(Times \cup {None}),
                  step: {"text", "vec", "enrich", "done"}]
TagRequest == [op: {"tags"}, asked: SUBSET RawTags, operation: {"AND", "OR"},
               access: SUBSET WsIds, answer: SUBSET MemIds, step: {"select", "done"}]
ListRequest == [op: {"list"}, page: Nat, access: SUBSET WsIds, shown: SUBSET MemIds,
                stayed: SUBSET MemIds, shrunk: BOOLEAN, tied: BOOLEAN,
                step: {"rows", "next", "done"}]

TypeOK ==
    /\ memory \in [MemIds -> MemoryRow \cup {None}]
    /\ request \in SearchRequest \cup TagRequest \cup ListRequest \cup {Idle}
    /\ request # Idle /\ request.op \in Searches => Len(request.answer) <= Limit

Fused == AtStep(Searches, "enrich")

(* m is ranked before x by one of the statements and not after it by the   *)
(* other, which may have seen neither.                                     *)
Beats(m, x) ==
    LET before(s) == RankIn(s, m) # None /\ (RankIn(s, x) # None => RankIn(s, m) < RankIn(s, x))
        neither(s) == RankIn(s, m) = None /\ RankIn(s, x) = None
        text == request.text
        vec == request.vec
    IN  \/ before(text) /\ (before(vec) \/ neither(vec))
        \/ before(vec) /\ neither(text)

(* The fusion respects both rankings: what is shown comes after everything *)
(* that beats it, and nothing that beats it is dropped by the threshold or *)
(* the limit.                                                              *)
BetterComesFirst ==
    Fused => \A i \in DOMAIN request.answer, m \in MemIds :
                Beats(m, request.answer[i].id) => \E j \in 1 .. i - 1 : request.answer[j].id = m

(* A memory that matches the text or by a tag is left out only for others, *)
(* however far its embedding is; without a match, far memories are left    *)
(* out.                                                                    *)
TextHitsKept ==
    Fused => /\ \/ Ids(request.text) \subseteq Ids(request.answer)
                \/ Len(request.answer) = Limit
             /\ \A h \in ToSet(request.answer) :
                   \/ h.id \in Ids(request.text)
                   \/ Distance[h.doc] <= MaxDistance[request.op]

(* Each hit is one memory as it was at one moment, in a workspace of the   *)
(* caller: when it was updated or moved while the query was embedded, the  *)
(* similarity is still that of the content that is shown.                  *)
ShownAsScored ==
    Fused => \A h \in ToSet(request.answer) :
                /\ h.ws \in request.access
                /\ h.distance # None => h.distance = Distance[h.doc]

(* Dates are read again by id after the search, in which they were compared *)
(* with the period: a recall or a search page that is answered gives every *)
(* hit its own date, in the period that was asked for, and none a made-up  *)
(* one.                                                                    *)
DatedInPeriod ==
    AtStep({"recall", "page"}, "done")
        => \A i \in DOMAIN request.answer : request.dates[i] \in request.period

(* search_by_tag: with OR, the memories with one of the tags; with AND,    *)
(* only memories with all of them, and every such memory unless the caller *)
(* gave two spellings of one tag.                                          *)
TagSearchMeans ==
    [][TagSearch => \A m \in In(request.access) :
          LET asked == {t \in request.asked : Normal[t] # Blank}
              has == TagsOf[memory[m].doc] \cap TagsAsked(asked)
              found == m \in request'.answer
          IN  IF request.operation = "OR" THEN found = (has # {})
              ELSE /\ found => has = TagsAsked(asked)
                   /\ (has = TagsAsked(asked) /\ \A t, u \in asked : Normal[t] = Normal[u] => t = u)
                         => found]_vars

(* A client that turns all the pages sees every memory that was there all  *)
(* the time, also while others store memories, move them in or update them,*)
(* unless a memory left the list meanwhile or two have the same time.      *)
NothingSkipped ==
    AtStep({"list"}, "done") /\ ~request.shrunk /\ ~request.tied
        => request.stayed \subseteq request.shown

=============================================================================
