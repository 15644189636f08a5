------------------------------ MODULE Listings ------------------------------
(***************************************************************************)
(* The listings: a client asks for page 1, 2, ... until the last_page that *)
(* the latest answer names, while rows enter and leave the listing: they   *)
(* are inserted, deleted, or change what the filter looks at.  TypeORM's   *)
(* getManyAndCount reads a page in one or two queries and counts in        *)
(* another.                                                                *)
(***************************************************************************)
EXTENDS Integers, FiniteSets

CONSTANTS
  Row,        \* keys, in the order of creation
  Limit,      \* rows to a page
  MaxChanges  \* bound on the rows that enter and leave

ASSUME RowAssumption   == Row \subseteq Nat /\ IsFiniteSet(Row)
ASSUME LimitAssumption == Limit \in Nat \ {0} /\ MaxChanges \in Nat

VARIABLES
  handler,   \* which listing it is
  listed,    \* the rows that it would list
  constant,  \* history: those that have been there from the start
  pc,        \* where the handler is, or "done" when the client is
  page,      \* the page asked for last
  ids,       \* the keys of its rows, until the rows are read
  got,       \* how many rows were read
  torn,      \* rows of this page left between the two queries
  seen,      \* the rows shown
  repeats,   \* history: how often a row was shown again
  entries,   \* history: rows that entered
  leaves     \* history: rows that left

vars == <<handler, listed, constant, pc, page, ids, got, torn, seen, repeats, entries, leaves>>
historyVars == <<constant, entries, leaves>>

-----------------------------------------------------------------------------
\* The handlers: what they sort by, created_at and issued_date or nothing, which
\* is the primary key, and whether they join, which makes TypeORM read the keys of
\* a page first.  They differ else in their filters.
ListAllBookings     == [newestFirst |-> TRUE, joins |-> TRUE]
GetBookingsByUserId == [newestFirst |-> TRUE, joins |-> TRUE]
ListInvoices        == [newestFirst |-> TRUE, joins |-> TRUE]
ListUsers           == [newestFirst |-> FALSE, joins |-> TRUE]
ListRooms           == [newestFirst |-> FALSE, joins |-> FALSE]
ListServices        == [newestFirst |-> FALSE, joins |-> FALSE]

Handler == {ListAllBookings, GetBookingsByUserId, ListInvoices, ListUsers, ListRooms, ListServices}

ListingTypeOK ==
  /\ handler \in Handler
  /\ constant \subseteq listed /\ listed \subseteq Row
  /\ pc \in {"ids", "rows", "count", "done"}
  /\ page \in Nat
  /\ ids \subseteq Row
  /\ got \in 0..Limit
  /\ torn \in BOOLEAN
  /\ seen \subseteq Row
  /\ repeats \in Nat /\ entries \in Nat /\ leaves \in Nat

Init ==
  /\ handler \in Handler
  /\ listed \in SUBSET Row /\ constant = listed
  /\ pc = "ids" /\ page = 0
  /\ ids = {} /\ got = 0 /\ torn = FALSE /\ seen = {}
  /\ repeats = 0 /\ entries = 0 /\ leaves = 0

-----------------------------------------------------------------------------
Before(x, y) == IF handler.newestFirst THEN x > y ELSE x < y
Earlier(x)   == {y \in listed : Before(y, x)}
Position(x)  == Cardinality(Earlier(x))

\* Mutants: pages counted from 0, pages that share a row, and take(page * limit).
SkipFromZero(p)    == p * Limit
SkipOverlapping(p) == (p - 1) * Limit - (IF p > 1 THEN 1 ELSE 0)
Skip(p)            == (p - 1) * Limit
TakeWithPage(p)    == p * Limit
Take(p)            == Limit

\* skip and take.
Rows(p) == {x \in listed : Skip(p) <= Position(x) /\ Position(x) < Skip(p) + Take(p)}

Show(rows) ==
  /\ got' = Cardinality(rows)
  /\ seen' = seen \cup rows
  /\ repeats' = repeats + Cardinality(rows \cap seen)

\* The first query: the keys of a page, which are its rows where nothing is joined.
ReadIds ==
  /\ pc = "ids"
  /\ page' = page + 1 /\ torn' = FALSE
  /\ IF handler.joins
     THEN ids' = Rows(page + 1) /\ pc' = "rows" /\ UNCHANGED <<got, seen, repeats>>
     ELSE Show(Rows(page + 1)) /\ pc' = "count" /\ UNCHANGED ids
  /\ UNCHANGED <<handler, listed, historyVars>>

\* The second query: the rows with these keys that are still in the listing.
ReadRows ==
  /\ pc = "rows"
  /\ Show(ids \cap listed)
  /\ torn' = ~(ids \subseteq listed)
  /\ ids' = {} /\ pc' = "count"
  /\ UNCHANGED <<handler, listed, page, historyVars>>

\* A page that is not full may be taken for the last one, without a query.
Totals ==
  {Cardinality(listed)} \cup
    (IF got < Limit /\ (got > 0 \/ page = 1) THEN {Skip(page) + got} ELSE {})

\* A mutant: Math.floor.
LastPageFloor(total) == total \div Limit
\* last_page: Math.ceil(total / limit).
LastPage(total)      == (total + Limit - 1) \div Limit

Count ==
  /\ pc = "count"
  /\ \E total \in Totals : pc' = IF page >= LastPage(total) THEN "done" ELSE "ids"
  /\ UNCHANGED <<handler, listed, page, ids, got, torn, seen, repeats, historyVars>>

-----------------------------------------------------------------------------
\* The services and their clients meanwhile.
Changes == pc # "done" /\ entries + leaves < MaxChanges

Enter(x) ==
  /\ Changes /\ x \notin listed
  /\ listed' = listed \cup {x}
  /\ entries' = entries + 1
  /\ UNCHANGED <<handler, constant, pc, page, ids, got, torn, seen, repeats, leaves>>

Leave(x) ==
  /\ Changes /\ x \in listed
  /\ listed' = listed \ {x} /\ constant' = constant \ {x}
  /\ leaves' = leaves + 1
  /\ UNCHANGED <<handler, pc, page, ids, got, torn, seen, repeats, entries>>

Next == ReadIds \/ ReadRows \/ Count \/ \E x \in Row : Enter(x) \/ Leave(x)

Spec == Init /\ [][Next]_vars

-----------------------------------------------------------------------------
\* A client that has paged to the end has missed no more of the rows that were there
\* all along than rows have left meanwhile: each that leaves moves one row over
\* the edge of a page.  The exception is a page torn between its two queries, which
\* is short, and may be taken for the last.
MissedExplained ==
  pc = "done" => Cardinality(constant \ seen) <= leaves \/ (torn /\ leaves > 0)

\* Rows are shown again no more often than rows have entered meanwhile.
RepeatsExplained == repeats <= entries

-----------------------------------------------------------------------------
(* The inductive invariant. *)

Read  == page * Limit
Taken == seen \cup ids

\* The rows that the pages read so far should have shown, and those to be shown again.
Passed == {x \in constant \ Taken : Position(x) < Read}
Again  == {x \in listed \cap Taken : Position(x) >= Read}

\* Once a page was not full, no page after it had a row that was there all along.
ListingIInv ==
  /\ ListingTypeOK
  /\ pc # "rows" => ids = {}
  /\ pc \in {"rows", "count"} => page > 0
  /\ torn => leaves > 0
  /\ pc = "rows" => Cardinality(ids) <= Limit /\ (ids \subseteq listed \/ leaves > 0)
  /\ pc # "done" => Cardinality(Passed) <= leaves
  /\ pc = "rows" /\ Cardinality(ids) < Limit => Cardinality(constant \ Taken) <= leaves
  /\ pc = "count" /\ got < Limit /\ ~torn => Cardinality(constant \ seen) <= leaves
  /\ Cardinality(Again) + repeats + Cardinality(ids \cap seen) <= entries
  /\ MissedExplained
=============================================================================
