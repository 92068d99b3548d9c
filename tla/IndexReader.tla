---------------------------- MODULE IndexReader ----------------------------
(***************************************************************************)
(* The queries of security_events/sqlite_reader.py, over an index that     *)
(* keeps the promise of IndexView while they are made.  A query opens the  *)
(* database, reads one snapshot of it and closes it; a list that is longer *)
(* than the limit is read page by page, each page a query with the next    *)
(* offset.                                                                 *)
(***************************************************************************)
EXTENDS IndexView, FiniteSets, SequencesExt

CONSTANTS
    Category,     \* the category of each event
    NoFilter      \* in place of a category or an event

ASSUME ReaderAssumption == Events \subseteq Nat /\ IsFiniteSet(Events)

VARIABLES
    asked,        \* the filters of the list being read
    offset,       \* where its next page begins
    seen,         \* the events on its pages so far
    lasting       \* history: matching events in the index since its
                  \* first page, while that is not damaged or rebuilt

index == <<view, cutoff, damaged>>
pages == <<asked, offset, seen, lasting>>
readerVars == <<index, pages>>

Filters == [category : {NoFilter} \cup {Category[e] : e \in Events},
            since : {NoFilter} \cup Events, until : {NoFilter} \cup Events]

\* since is inclusive and until exclusive.
Where(rows, f) ==
    {e \in rows : /\ f.category \in {NoFilter, Category[e]}
                  /\ f.since = NoFilter \/ e >= f.since
                  /\ f.until = NoFilter \/ e < f.until}

\* ORDER BY timestamp_epoch DESC
NewestFirst(rows) ==
    CHOOSE s \in [1 .. Cardinality(rows) -> rows] : \A i, j \in DOMAIN s : i < j => s[i] > s[j]

\* Mutants: the oldest events first; an offset that count ignores.
QueryOldestFirst(f, limit, from) ==
    LET rows == Reverse(NewestFirst(Where(view, f)))
    IN  SubSeq(rows, from + 1, Min({from + limit, Len(rows)}))

CountAll(f, from) == Cardinality(Where(view, f))

\* Every row is a well-formed event: those that are not, a list leaves out and
\* a count does not.
Query(f, limit, from) ==
    LET rows == NewestFirst(Where(view, f))
    IN  SubSeq(rows, from + 1, Min({from + limit, Len(rows)}))

\* Which rows an offset skips is not specified: the query has no order.
Count(f, from) == Max({0, Cardinality(Where(view, f)) - from})

Groups(rows) ==
    [c \in {Category[e] : e \in rows} |-> Cardinality({e \in rows : Category[e] = c})]

\* count_by takes the times and no other filter.
Times(f) == [f EXCEPT !.category = NoFilter]

CountBy(f, from) ==
    LET rows == Where(view, Times(f))
    IN  {Groups(r) : r \in {r \in SUBSET rows : Cardinality(r) = Count(Times(f), from)}}

ReaderInit ==
    /\ ViewInit
    /\ asked \in Filters /\ offset = 0 /\ seen = {} /\ lasting = {}

\* The first page, or the next one.
Begin ==
    /\ offset = 0
    /\ offset' = 1
    /\ seen' = Range(Query(asked, 1, 0))
    /\ lasting' = Where(view, asked)
    /\ UNCHANGED <<index, asked>>

More ==
    /\ offset > 0 /\ Query(asked, 1, offset) # <<>>
    /\ offset' = offset + 1
    /\ seen' = seen \cup Range(Query(asked, 1, offset))
    /\ UNCHANGED <<index, asked, lasting>>

End ==
    /\ offset > 0 /\ Query(asked, 1, offset) = <<>>
    /\ offset' = 0 /\ seen' = {}
    /\ UNCHANGED <<index, asked, lasting>>

Index ==
    /\ \/ (Add \/ Expire \/ Prune) /\ lasting' = lasting \cap view'
       \/ (Damage \/ Rebuild) /\ lasting' = {}
    /\ UNCHANGED <<asked, offset, seen>>

ReaderNext == Begin \/ More \/ End \/ Index

ReaderSpec == ReaderInit /\ [][ReaderNext]_readerVars
-----------------------------------------------------------------------------
\* A list read page by page, while others insert and prune, has shown every
\* event that was in the index all the time: pages are cut from the newest
\* end and events leave at the oldest (ORDER BY timestamp_epoch DESC).  Not
\* so when the index is rebuilt meanwhile.
PagingMissesNothing == [][End => lasting \subseteq seen]_readerVars

\* While a list is read: count is the length of what query lists, and the
\* groups of count_by, whose rows are an unordered choice when there is an
\* offset, add up to the count for the same times.
QueriesAgree ==
    offset > 0 => \A from \in 0 .. Cardinality(Events) :
        /\ Len(Query(asked, Cardinality(Events), from)) = Count(asked, from)
        /\ \A by \in CountBy(asked, from) : FoldFunction(+, 0, by) = Count(Times(asked), from)
=============================================================================
