---------------------------- MODULE PublishSearch ----------------------------
(***************************************************************************)
(* Reading the directory while it changes: a visitor pages through the     *)
(* search, newest first, with the cursor of each page, or asks discover    *)
(* for the records that fit its tags best.                                 *)
(*                                                                         *)
(* A search reads the store once per page.  The file store sorts and pages *)
(* what it has loaded; Firestore answers a query for one record more than  *)
(* the page.  Discover runs one such query per tag there, and the records  *)
(* may change between them.  Firestore's queries are external.             *)
(***************************************************************************)
EXTENDS Naturals, FiniteSets, Sequences

CONSTANTS
    Backends,
    PublishIds,       \* publish ids, in the order of their strings
    Times, Tags,
    Score,            \* discover_score of each id, for the visit's seed
    PageSizes,        \* page sizes, after clamping
    MaxTags,          \* DISCOVER_MAX_TAGS
    Window,           \* PUBLISH_SEARCH_WINDOW_LIMIT
    Candidates,       \* DISCOVER_CANDIDATE_LIMIT
    AnyTag,           \* a search without a tag
    NoRecord, FirstPage, End,
    MaxChanges        \* bound: changes of the directory during a visit

ASSUME SearchBounds ==
    /\ Backends \subseteq {"file", "firestore"}
    /\ PublishIds \subseteq Nat /\ IsFiniteSet(PublishIds) /\ Times \subseteq Nat
    /\ Score \in [PublishIds -> Nat]
    /\ PageSizes \subseteq Nat \ {0} /\ Window \in Nat \ {0} /\ Candidates \in Nat \ {0}
    /\ MaxTags \in Nat /\ MaxChanges \in Nat
    /\ AnyTag \notin Tags

(* What search and discover look at; listed: neither deleted nor hidden.   *)
Record == [created : Times, tags : SUBSET Tags, listed : BOOLEAN]
Version == [id : PublishIds, created : Times, tags : SUBSET Tags]
SearchCursor == [created : Times, id : PublishIds, seen : 1 .. Window - 1]

ASSUME MarkersAreFresh ==
    /\ NoRecord \notin Record
    /\ FirstPage # End /\ {FirstPage, End} \intersect SearchCursor = {}

VARIABLES
    backend, records,
    mode,             \* what the visitor does: search or discover
    query,            \* its tags; AnyTag alone for a search without one
    want,             \* discover: how many records it asks for
    cursor,           \* of the next page; End after the last
    pages,            \* history: what each page has shown
    todo, found,      \* discover: tags to query for, and what was found
    result,           \* discover: what was answered
    cut,              \* history: ids left out by a limit of candidates
    steady,           \* history: ids that have not changed since the start
    changes           \* changes so far, against MaxChanges

visit == <<mode, query, want, cursor, pages, todo, found, result, cut>>
searchVars == <<backend, records, visit, steady, changes>>

SearchTypeOK ==
    /\ backend \in Backends
    /\ records \in [PublishIds -> Record \union {NoRecord}]
    /\ mode \in {"none", "search", "discover", "answered"}
    /\ query \in Seq(Tags \union {AnyTag})
    /\ want \in PageSizes \union {0}
    /\ cursor \in SearchCursor \union {FirstPage, End}
    /\ pages \in Seq(SUBSET Version)
    /\ todo \in Seq(Tags \union {AnyTag})
    /\ found \subseteq Version
    /\ result \subseteq Version
    /\ cut \subseteq PublishIds
    /\ steady \subseteq PublishIds
    /\ changes \in 0 .. MaxChanges

SearchInit ==
    /\ backend \in Backends
    /\ records \in [PublishIds -> {NoRecord} \union
                       [created : Times, tags : SUBSET Tags, listed : {TRUE}]]
    /\ mode = "none"
    /\ query = <<>>
    /\ want = 0
    /\ cursor = FirstPage
    /\ pages = <<>>
    /\ todo = <<>>
    /\ found = {}
    /\ result = {}
    /\ cut = {}
    /\ steady = PublishIds
    /\ changes = 0

-----------------------------------------------------------------------------
(* publish, delete, hide and restore, as far as a search can see them; who *)
(* may do them is in PublishRecord.                                        *)
Change(id, r) ==
    /\ mode # "none"
    /\ changes < MaxChanges
    /\ changes' = changes + 1
    /\ records[id] # r
    /\ records' = [records EXCEPT ![id] = r]
    /\ steady' = steady \ {id}
    /\ UNCHANGED <<backend, visit>>

Publish(id, created, tags) ==
    Change(id, [created |-> created, tags |-> tags,
                listed |-> records[id] = NoRecord \/ records[id].listed])

Unlist(id) ==
    /\ records[id] # NoRecord
    /\ Change(id, [records[id] EXCEPT !.listed = FALSE])

Relist(id) ==
    /\ records[id] # NoRecord
    /\ Change(id, [records[id] EXCEPT !.listed = TRUE])

-----------------------------------------------------------------------------
(* publish_record_matches_tag                                              *)
Matches(tags, tag) == tag = AnyTag \/ tag \in tags

AsVersion(id) == [id |-> id, created |-> records[id].created, tags |-> records[id].tags]

Listed(tag) ==
    {AsVersion(id) : id \in {i \in PublishIds : /\ records[i] # NoRecord
                                         /\ records[i].listed
                                         /\ Matches(records[i].tags, tag)}}

(* compare_publish_records_newest_first                                    *)
Newer(v, w) ==
    \/ v.created > w.created
    \/ v.created = w.created /\ v.id > w.id

(* The first n in that order.                                              *)
Newest(S, n) == {v \in S : Cardinality({w \in S : Newer(w, v)}) < n}

(* Mutant: the cursor's own record is shown again.                         *)
OlderInclusive(v, c) ==
    \/ v.created < c.created
    \/ v.created = c.created /\ v.id <= c.id

(* Mutant: records of the cursor's time are skipped.                       *)
OlderByTime(v, c) == v.created < c.created

(* publish_record_is_older_than_cursor                                     *)
OlderThanCursor(v, c) ==
    \/ v.created < c.created
    \/ v.created = c.created /\ v.id < c.id

OrderedTail(tag, c) == {v \in Listed(tag) : c = FirstPage \/ OlderThanCursor(v, c)}

SeenBefore(c) ==
    IF c = FirstPage THEN 0 ELSE IF c.seen < Window THEN c.seen ELSE Window

(* Mutant: a page is not cut at the end of the window.                     *)
PageLimitUncut(limit, before) == limit

PageLimit(limit, before) == IF limit < Window - before THEN limit ELSE Window - before

(* Mutant: a cursor is given out at the end of the window.                 *)
HasMoreAtEnd(extra, seen) == extra

HasMore(extra, seen) == extra /\ seen < Window

(* page_from_ordered_tail                                                  *)
PageFromTail(S, limit, before) ==
    LET size == PageLimit(limit, before)
        candidates == Newest(S, size + 1)
        page == Newest(candidates, size)
        seen == before + Cardinality(page)
        last == CHOOSE v \in page : \A w \in page \ {v} : Newer(w, v)
    IN  [page |-> page,
         next |-> IF HasMore(Cardinality(candidates) > size, seen)
                  THEN [created |-> last.created, id |-> last.id, seen |-> seen]
                  ELSE End]

(* FilePublishStore::search                                                *)
FileSearch(tag, limit, c) == PageFromTail(OrderedTail(tag, c), limit, SeenBefore(c))

(* Firestore: the query firestore_search_query_body, for limit + 1.        *)
RunQuery(tag, limit, c) == Newest(OrderedTail(tag, c), limit + 1)

(* FirestorePublishStore::search                                           *)
FirestoreSearch(tag, limit, c) ==
    LET size == PageLimit(limit, SeenBefore(c))
    IN  IF size = 0 THEN [page |-> {}, next |-> End]
        ELSE PageFromTail(RunQuery(tag, size, c), size, SeenBefore(c))

StoreSearch(tag, limit, c) ==
    IF backend = "file" THEN FileSearch(tag, limit, c)
    ELSE FirestoreSearch(tag, limit, c)

-----------------------------------------------------------------------------
Browse(tag) ==
    /\ mode = "none"
    /\ mode' = "search"
    /\ query' = <<tag>>
    /\ UNCHANGED <<backend, records, want, cursor, pages, todo, found, result, cut, steady,
                   changes>>

(* search_publish_records of the next page.                                *)
Search(limit) ==
    LET answer == StoreSearch(query[1], limit, cursor) IN
    /\ mode = "search"
    /\ cursor # End
    /\ pages' = Append(pages, answer.page)
    /\ cursor' = answer.next
    /\ UNCHANGED <<backend, records, mode, query, want, todo, found, result, cut, steady,
                   changes>>

(* normalize_discover_tags: no tag twice, and not too many.                *)
Queries ==
    {q \in UNION {[1 .. n -> Tags] : n \in 0 .. MaxTags} :
        \A i, j \in DOMAIN q : q[i] = q[j] => i = j}

(* discover_publish_records, with normalized tags.                         *)
Discover(tags, limit) ==
    /\ mode = "none"
    /\ mode' = "discover"
    /\ query' = tags
    /\ want' = limit
    /\ todo' = IF tags = <<>> THEN <<AnyTag>> ELSE tags
    /\ UNCHANGED <<backend, records, cursor, pages, found, result, cut, steady, changes>>

Asked == {query[i] : i \in DOMAIN query}
Overlap(v) == Cardinality(v.tags \intersect Asked)

(* FilePublishStore::discover loads the store once.                        *)
Collect ==
    LET matching == {v \in Listed(AnyTag) : Asked = {} \/ Overlap(v) > 0}
        size == Candidates * (IF query = <<>> THEN 1 ELSE Len(query))
    IN  /\ mode = "discover" /\ backend = "file" /\ todo # <<>>
        /\ found' = Newest(matching, size)
        /\ cut' = {v.id : v \in matching \ found'}
        /\ todo' = <<>>
        /\ UNCHANGED <<backend, records, mode, query, want, cursor, pages, result,
                       steady, changes>>

(* FirestorePublishStore::discover: one search per tag; what was found     *)
(* first of an id is replaced by what is found later.                      *)
CollectTag ==
    LET page == FirestoreSearch(todo[1], Candidates, FirstPage).page
        ids == {v.id : v \in page}
    IN  /\ mode = "discover" /\ backend = "firestore" /\ todo # <<>>
        /\ found' = page \union {v \in found : v.id \notin ids}
        /\ cut' = cut \union ({v.id : v \in Listed(todo[1])} \ ids)
        /\ todo' = SubSeq(todo, 2, Len(todo))
        /\ UNCHANGED <<backend, records, mode, query, want, cursor, pages, result,
                       steady, changes>>

(* Mutant: the tags do not count.                                          *)
RanksAboveByScore(v, w) == Score[v.id] > Score[w.id]

(* The order of rank_discover_records.                                     *)
RanksAbove(v, w) ==
    \/ Overlap(v) > Overlap(w)
    \/ /\ Overlap(v) = Overlap(w)
       /\ \/ Score[v.id] > Score[w.id]
          \/ /\ Score[v.id] = Score[w.id]
             /\ \/ v.created > w.created
                \/ v.created = w.created /\ v.id < w.id

(* rank_discover_records, and the answer.                                  *)
Rank ==
    LET matching == {v \in found : Asked = {} \/ Overlap(v) > 0} IN
    /\ mode = "discover" /\ todo = <<>>
    /\ result' = {v \in matching :
                     Cardinality({w \in matching : RanksAbove(w, v)}) < want}
    /\ mode' = "answered"
    /\ found' = {}
    /\ UNCHANGED <<backend, records, query, want, cursor, pages, todo, cut, steady,
                   changes>>

SearchNext ==
    \/ \E id \in PublishIds, created \in Times, tags \in SUBSET Tags : Publish(id, created, tags)
    \/ \E id \in PublishIds : Unlist(id) \/ Relist(id)
    \/ \E tag \in Tags \union {AnyTag} : Browse(tag)
    \/ \E limit \in PageSizes : Search(limit)
    \/ \E tags \in Queries, limit \in PageSizes : Discover(tags, limit)
    \/ Collect
    \/ CollectTag
    \/ Rank

SearchSpec == SearchInit /\ [][SearchNext]_searchVars

-----------------------------------------------------------------------------
Shown == UNION {pages[i] : i \in DOMAIN pages}

(* Whatever is published or withdrawn between two pages, each page goes on *)
(* below the one before: no version of a record is shown twice, and all    *)
(* that is shown comes newest first.                                       *)
PagesDescend ==
    \A i, j \in DOMAIN pages :
        i < j => \A v \in pages[i], w \in pages[j] : Newer(v, w)

(* A visitor that has followed the cursors to the end, within the window,  *)
(* has seen every record that was listed all along and did not change,     *)
(* though other records have come and gone between its pages.              *)
SearchIsComplete ==
    mode = "search" /\ cursor = End /\ Cardinality(Shown) < Window =>
        \A id \in steady :
            records[id] # NoRecord /\ records[id].listed
                /\ Matches(records[id].tags, query[1]) => AsVersion(id) \in Shown

(* The pages that follow one another never show more than the window.      *)
WindowIsKept == Cardinality(Shown) <= Window

(* Discover answers with the best: a record that fits, did not change and  *)
(* was not beyond the newest candidates is left out only for as many       *)
(* others as were asked for, each of which has as many of the tags, also   *)
(* when records change between the queries for the tags.                   *)
DiscoverFindsBest ==
    mode = "answered" =>
        \A id \in steady \ cut :
            LET v == AsVersion(id) IN
            records[id] # NoRecord /\ records[id].listed =>
                \/ Asked # {} /\ Overlap(v) = 0
                \/ v \in result
                \/ /\ Cardinality(result) = want
                   /\ \A w \in result : Overlap(w) >= Overlap(v)

=============================================================================
