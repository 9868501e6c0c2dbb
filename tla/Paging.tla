------------------------------- MODULE Paging -------------------------------
(***************************************************************************)
(* A client walks through a collection page by page, with the paginated    *)
(* searches every repository builds on findWithPagination, while documents *)
(* are inserted, updated and deleted.  A page and its total come from two  *)
(* queries, and documents that are equal in the sort key come in any       *)
(* order, another one in each query.                                       *)
(*                                                                         *)
(* The collection is a set of entries: a document and the fields it has.   *)
(* An update takes one entry of a document away and brings another one.    *)
(***************************************************************************)
EXTENDS Integers, Sequences, FiniteSets, Functions, SequencesExt

CONSTANTS
    Document,
    Fields,             \* what sort orders and search conditions see of a document
    FirstEntries,       \* the collection at the start
    CreatedAt,          \* of each document
    Order,              \* the sort orders clients may ask for, with createdAt among them
    KeyOf,              \* the sort key of each entry in every other order and direction
    Filter,             \* the search conditions, as the entries that meet them:
                        \* a condition that is left out or empty is met by all
    Takes,              \* the sizes of a page clients may ask for; 0: none given
    TakeLimit           \* of the PaginationPipe

Entry == Document \X Fields

Documents(entries) == {e[1] : e \in entries}

ASSUME PagingAssumption ==
    /\ FirstEntries \subseteq Entry
    /\ IsFiniteSet(FirstEntries)
    /\ \A d, e \in FirstEntries : d[1] = e[1] => d = e
    /\ CreatedAt \in [Document -> Int]
    /\ "createdAt" \in Order
    /\ KeyOf \in [Order \ {"createdAt"} -> [Entry -> Int]]
    /\ Takes \subseteq Nat
    /\ TakeLimit \in Nat \ {0}

VARIABLES
    collection,
    ever,               \* every document there has been
    walk,               \* order, filter and take of the walk
    pageStep,           \* where the client and the query are
    skip, items, total, \* of the page asked for or answered last
    shown,              \* how often each entry was on a page
    throughout,         \* history: the entries that were there all the time
    came, went,         \* history: the entries inserted and deleted since the walk began,
                        \* and those an update brought and took away
    between             \* history: the same, between the two queries of a search

walkVars == <<walk, pageStep, skip, items, total, shown>>
pagingHistory == <<throughout, came, went, between>>
pagingVars == <<collection, ever, walkVars, pagingHistory>>

NothingYet == [came |-> {}, went |-> {}]

PagingInit ==
    /\ collection = FirstEntries
    /\ ever = Documents(FirstEntries)
    /\ walk = [order |-> "createdAt", filter |-> {}, take |-> 0]
    /\ pageStep = "none"
    /\ skip = 0
    /\ items = <<>>
    /\ total = 0
    /\ shown = [e \in Entry |-> 0]
    /\ throughout = {}
    /\ came = {}
    /\ went = {}
    /\ between = NothingYet

Key(e) == IF walk.order = "createdAt" THEN CreatedAt[e[1]] ELSE KeyOf[walk.order][e]

Matching == collection \cap walk.filter

\* The pipe of the gateway: no take means the limit.
PaginationPipe(take) == IF take = 0 THEN TakeLimit ELSE take

\* The search conditions and the order stay the same from page to page.  A take above the
\* limit is refused.
BeginWalk(order, filter, take) ==
    /\ pageStep = "none"
    /\ walk' = [order |-> order, filter |-> filter, take |-> PaginationPipe(take)]
    /\ pageStep' = IF PaginationPipe(take) > TakeLimit THEN "refused" ELSE "find"
    /\ throughout' = collection
    /\ UNCHANGED <<collection, ever, skip, items, total, shown, came, went, between>>

\* All the ways the database may sort what matches.
Sorted == {seq \in SetToSeqs(Matching) :
              \A i, j \in 1..Len(seq) : i < j => Key(seq[i]) <= Key(seq[j])}

Smaller(m, n) == IF m < n THEN m ELSE n

\* Mutant: skip counts pages.
PageByNumber(seq) ==
    SubSeq(seq, (skip \div walk.take) + 1, Smaller((skip \div walk.take) + walk.take, Len(seq)))

\* skip and limit
Page(seq) == SubSeq(seq, skip + 1, Smaller(skip + walk.take, Len(seq)))

\* One of the searches of the repositories.
FindPage ==
    /\ pageStep = "find"
    /\ \E seq \in Sorted : items' = Page(seq)
    /\ pageStep' = "count"
    /\ UNCHANGED <<collection, ever, walk, skip, total, shown, pagingHistory>>

\* Mutant: the conditions are left out of the count.
CountCollection ==
    /\ pageStep = "count"
    /\ total' = Cardinality(collection)
    /\ pageStep' = "answered"
    /\ UNCHANGED <<collection, ever, walk, skip, items, shown, pagingHistory>>

\* countDocuments of the same conditions.
CountDocuments ==
    /\ pageStep = "count"
    /\ total' = Cardinality(Matching)
    /\ pageStep' = "answered"
    /\ UNCHANGED <<collection, ever, walk, skip, items, shown, pagingHistory>>

\* The client looks at the page, and asks for the next one if the total promises one.
NextPage ==
    /\ pageStep = "answered"
    /\ shown' = [e \in Entry |-> shown[e] + Cardinality({i \in DOMAIN items : items[i] = e})]
    /\ pageStep' = IF skip + walk.take < total THEN "find" ELSE "done"
    /\ skip' = skip + walk.take
    /\ between' = NothingYet
    /\ UNCHANGED <<collection, ever, walk, items, total, throughout, came, went>>

----------------------------------------------------------------------------

\* Entries go and come, and the history notes it.
Alter(gone, new) ==
    /\ collection' = (collection \ gone) \cup new
    /\ throughout' = throughout \ gone
    /\ came' = IF pageStep = "none" THEN came ELSE came \cup new
    /\ went' = IF pageStep = "none" THEN went ELSE went \cup gone
    /\ between' = IF pageStep = "count"
                  THEN [came |-> between.came \cup new, went |-> between.went \cup gone]
                  ELSE between
    /\ UNCHANGED walkVars

\* createdAt is the time of the insertion: nothing inserted before has a later one.
Insert(e) ==
    /\ e[1] \notin ever
    /\ \A d \in ever : CreatedAt[d] <= CreatedAt[e[1]]
    /\ Alter({}, {e})
    /\ ever' = ever \cup {e[1]}

\* save() of a document that was read and changed; createdAt stays what it is.
Update(e, fields) ==
    /\ fields # e[2]
    /\ Alter({e}, {<<e[1], fields>>})
    /\ UNCHANGED ever

Delete(e) ==
    /\ Alter({e}, {})
    /\ UNCHANGED ever

PagingNext ==
    \/ \E o \in Order, f \in Filter, t \in Takes : BeginWalk(o, f, t)
    \/ FindPage
    \/ CountDocuments
    \/ NextPage
    \/ \E e \in Entry : Insert(e)
    \/ \E e \in collection : Delete(e) \/ \E f \in Fields : Update(e, f)

PagingSpec == PagingInit /\ [][PagingNext]_pagingVars

----------------------------------------------------------------------------

Tied(d) == \E e \in (throughout \cup came \cup went) \ {d} : Key(e) = Key(d) /\ e \in walk.filter

Before(e, d) == e \in walk.filter /\ Key(e) <= Key(d)

\* A walk that has ended has shown every document that met the conditions all the time and
\* was not updated, and has shown it once: unless one that came before it was deleted, or
\* updated so that it comes later or meets the conditions no more, which makes the walk miss
\* documents; or one was inserted before it or updated so that it comes there, which makes
\* the walk repeat some; or its sort key is not its own.  What happens later in the order, or
\* to what does not meet the conditions, never matters; and with the default order, by
\* createdAt, insertions repeat nothing: only an update that makes an older document meet
\* the conditions does.
PagesCover ==
    pageStep = "done" =>
        \A d \in throughout \cap walk.filter : ~Tied(d) =>
            /\ shown[d] = 0 => \E e \in went : Before(e, d)
            /\ shown[d] > 1 =>
                  \E e \in came : /\ Before(e, d)
                                 /\ walk.order = "createdAt" => e[1] \in Documents(went)

\* The total that is answered with a page may contradict it, but by no more than what came
\* and went between the two queries: a page that is not full is the last one of that many
\* documents, and one that is not empty is not beyond them.
TotalFitsPage ==
    pageStep = "answered" =>
        /\ Len(items) < walk.take =>
              total <= skip + Len(items) + Cardinality(between.came \cap walk.filter)
        /\ Len(items) > 0 =>
              skip + Len(items) <= total + Cardinality(between.went \cap walk.filter)
=============================================================================
