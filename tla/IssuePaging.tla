----------------------------- MODULE IssuePaging -----------------------------
(***************************************************************************)
(* Reading the list of issues page by page while jobs insert new ones.     *)
(*                                                                         *)
(* GET /issues/list orders issues by created_at, newest first, and cuts a  *)
(* page out by offset and limit, anew for every request.  A reader asks    *)
(* for some page, or for none in particular, and from there goes on to the *)
(* next until a page is empty or refused.  Meanwhile every insertion in    *)
(* front of where it is moves the rest of the list by one.                 *)
(*                                                                         *)
(* An issue is named by its created_at, which the worker takes before the  *)
(* insert: rows may appear in another order.  No two are equal.            *)
(***************************************************************************)
EXTENDS Integers, FiniteSets

CONSTANTS
    Issues,       \* the values of created_at
    Readers,      \* the callers of ListIssues
    FirstPages,   \* the values of page they begin with
    AskedSizes,   \* the values of page_size they send
    Absent,       \* a parameter that is not sent
    DefaultSize,  \* 20
    MaxSize,      \* 100
    Ints          \* how many values an int has: 2^64

ASSUME StampsAssumption == Issues \subseteq Int /\ IsFiniteSet(Issues)

ASSUME AskedAssumption ==
    /\ Absent \notin Int
    /\ FirstPages \subseteq Int \cup {Absent} /\ AskedSizes \subseteq Int \cup {Absent}

ASSUME SizesAssumption == MaxSize \in Nat \ {0} /\ DefaultSize \in 1 .. MaxSize

ASSUME IntsAssumption == Ints \in Nat /\ 2 * MaxSize < Ints

VARIABLES
    table,   \* the issues with a row
    first,   \* first[r]: the page reader r begins with
    page,    \* page[r]: the page it asks for next, 0 once it is through
    size,    \* size[r]: the page_size it sends
    begun,   \* begun[r]: the table as it was when the reader started
    seen,    \* seen[r]: the issues it was shown
    shown    \* shown[r]: how many rows that were

vars == <<table, first, page, size, begun, seen, shown>>

-----------------------------------------------------------------------------
(***************************************************************************)
(* From the request to the statement: the decoder's defaults, the service's*)
(* corrections, and the repository's product, which wraps.                 *)
(***************************************************************************)
PageNumber(p) == IF p = Absent \/ p < 1 THEN 1 ELSE p

PageSize(n) ==
    IF n = Absent \/ n < 1 THEN DefaultSize ELSE IF n > MaxSize THEN MaxSize ELSE n

AsInt(x) == LET u == x % Ints IN IF 2 * u < Ints THEN u ELSE u - Ints

\* Mutants of Offset: pages count from 0; the page is forgotten.
OffsetFromZero(p, n) == AsInt(p * n)
OffsetOfFirst(p, n)  == 0

Offset(p, n) == AsInt((p - 1) * n)

\* Mutant of Limit: one row more, to see whether there is a next page.
LimitAndOne(n) == n + 1

Limit(n) == n

\* The rows of rows that come before i.
Newer(rows, i) == {j \in rows : j > i}

\* OFFSET and LIMIT.
Cut(offset, limit) ==
    {i \in table : /\ Cardinality(Newer(table, i)) >= offset
                   /\ Cardinality(Newer(table, i)) < offset + limit}

-----------------------------------------------------------------------------
Init ==
    /\ table \in SUBSET Issues
    /\ first \in [Readers -> FirstPages]
    /\ page  = [r \in Readers |-> PageNumber(first[r])]
    /\ size  \in [Readers -> AskedSizes]
    /\ begun = [r \in Readers |-> table]
    /\ seen  = [r \in Readers |-> {}]
    /\ shown = [r \in Readers |-> 0]

CreateIssue(i) ==
    /\ i \notin table
    /\ table' = table \cup {i}
    /\ UNCHANGED <<first, page, size, begun, seen, shown>>

ListIssues(r) ==
    /\ page[r] # 0
    /\ LET n      == PageSize(size[r])
           offset == Offset(page[r], n)
           rows   == Cut(offset, Limit(n))
       IN  /\ offset >= 0
           /\ page'  = [page EXCEPT ![r] = IF rows = {} THEN 0 ELSE @ + 1]
           /\ seen'  = [seen EXCEPT ![r] = @ \cup rows]
           /\ shown' = [shown EXCEPT ![r] = @ + Cardinality(rows)]
    /\ UNCHANGED <<table, first, size, begun>>

\* PostgreSQL takes no negative OFFSET: the request is answered 400.
ListIssuesRefused(r) ==
    /\ page[r] # 0
    /\ Offset(page[r], PageSize(size[r])) < 0
    /\ page' = [page EXCEPT ![r] = 0]
    /\ UNCHANGED <<table, first, size, begun, seen, shown>>

Next ==
    \/ \E i \in Issues : CreateIssue(i)
    \/ \E r \in Readers : ListIssues(r) \/ ListIssuesRefused(r)

Spec == Init /\ [][Next]_vars

-----------------------------------------------------------------------------
(***************************************************************************)
(* Properties.                                                             *)
(***************************************************************************)
\* Every variable has its type.  A reader asks for no more pages than there are
\* issues, and one that is empty, although the list grows while it reads, and
\* although the page it begins with may wrap to the front of the list.
TypeOK ==
    /\ table \subseteq Issues
    /\ first \in [Readers -> FirstPages]
    /\ \A r \in Readers :
          page[r] \in {0} \cup PageNumber(first[r]) .. PageNumber(first[r]) + Cardinality(Issues)
    /\ size  \in [Readers -> AskedSizes]
    /\ begun \in [Readers -> SUBSET Issues]
    /\ seen  \in [Readers -> SUBSET Issues]
    /\ shown \in [Readers -> Nat]

\* Where the reader began: this many rows come before the first it was to see.
Skipped(r) == (PageNumber(first[r]) - 1) * PageSize(size[r])

\* No page that it may ask for has an offset beyond an int.
WithinInts(r) == 2 * (Skipped(r) + Cardinality(Issues) * MaxSize) < Ints

\* Whoever reads to the end has seen every issue there was from the page on that
\* it began with, wherever in the list issues were inserted meanwhile, and is
\* refused nothing on the way.
NothingMissed ==
    \A r \in Readers :
        page[r] = 0 /\ WithinInts(r) =>
            \A i \in begun[r] : Cardinality(Newer(begun[r], i)) >= Skipped(r) => i \in seen[r]

\* A reader is shown a row twice at most as often as issues were inserted,
\* wherever it began.
RepeatsAreInsertions ==
    \A r \in Readers :
        shown[r] - Cardinality(seen[r]) <= Cardinality(table \ begun[r])
=============================================================================
