------------------------------ MODULE ListPages ------------------------------
(***************************************************************************)
(* The keyset listings: tenants and tenant users in ascending order, audit *)
(* entries in descending order of (created_at, id).  A client follows      *)
(* next_cursor from page to page while rows are being inserted.            *)
(*                                                                         *)
(* Time is counted in the database's microseconds, PMicros of them to a    *)
(* millisecond.  Rows of one transaction share created_at; ids are random  *)
(* (uuid), so a later row may have the smaller id.  The cursor carries     *)
(* Date.toISOString(), that is, the millisecond.                           *)
(***************************************************************************)
EXTENDS Integers, FiniteSets

CONSTANTS
    PIds,      \* ids of rows, numbers in the order of uuids
    PMicros,   \* microseconds to a millisecond
    PLimits,   \* page sizes a client may ask for
    PMaxTime   \* bound on the clock

ASSUME PAssumption ==
    /\ PIds \subseteq Nat /\ PMicros \in Nat \ {0} /\ PMaxTime \in Nat
    /\ PLimits \subseteq Nat \ {0}

VARIABLES
    pNow,
    pRows,    \* the rows ever inserted
    pGone,    \* those removed again
    pList     \* the listing a client is following

pVars == <<pNow, pRows, pGone, pList>>

PNoCursor == [at |-> 0, id |-> 0, set |-> FALSE]

\* base: the rows when the listing began; seen: rows returned so far; twice:
\* those returned by more than one page.
PIdle == [order |-> "none", limit |-> 0, cursor |-> PNoCursor, base |-> {},
          seen |-> {}, twice |-> {}, done |-> FALSE]

PInit == pNow = 0 /\ pRows = {} /\ pGone = {} /\ pList = PIdle

------------------------------------------------------------------------------
(* The order and the cursor *)

PLess(r, q) == r.at < q.at \/ (r.at = q.at /\ r.id < q.id)
PBefore(order, r, q) == IF order = "asc" THEN PLess(r, q) ELSE PLess(q, r)

\* encodeCursor of the last item: created_at has been read into a Date.
PCursor(r) == [at |-> r.at - (r.at % PMicros), id |-> r.id, set |-> TRUE]

PVisible == pRows \ pGone

\* MUTANT of PBeyond: the row of the cursor itself is taken again.
PBeyond_Inclusive(order, cursor) ==
    {r \in PVisible : cursor.set =>
        PBefore(order, cursor, r) \/ (cursor.at = r.at /\ cursor.id = r.id)}

\* (created_at, id) > or < the cursor, for a page that has one.
PBeyond(order, cursor) ==
    {r \in PVisible : cursor.set => PBefore(order, cursor, r)}

\* The first n rows of a set in the order of the listing.
PTake(order, rows, n) ==
    {r \in rows : Cardinality({q \in rows : PBefore(order, q, r)}) < n}
PLast(order, rows) == CHOOSE r \in rows : \A q \in rows \ {r} : PBefore(order, q, r)

------------------------------------------------------------------------------
(* Actions *)

PInsert(id) ==
    /\ \A r \in pRows : r.id # id
    /\ pRows' = pRows \cup {[at |-> pNow, id |-> id]}
    /\ UNCHANGED <<pNow, pGone, pList>>

\* A tenant is soft-deleted, a member removed; audit entries stay.
PRemove(r) ==
    /\ r \in PVisible /\ pList.order # "desc"
    /\ pGone' = pGone \cup {r}
    /\ UNCHANGED <<pNow, pRows, pList>>

PTick == pNow < PMaxTime /\ pNow' = pNow + 1 /\ UNCHANGED <<pRows, pGone, pList>>

\* The request without a cursor.
PStart(order, limit) ==
    /\ pList.order = "none"
    /\ pList' = [PIdle EXCEPT !.order = order, !.limit = limit, !.base = PVisible]
    /\ UNCHANGED <<pNow, pRows, pGone>>

\* findPage and findPageForTenant: limit + 1 rows are read, the last of them
\* only to tell whether there are more.
PPage ==
    LET l     == pList
        rows  == PTake(l.order, PBeyond(l.order, l.cursor), l.limit + 1)
        more  == Cardinality(rows) > l.limit
        items == PTake(l.order, rows, l.limit)
    IN  /\ l.order # "none" /\ ~l.done
        /\ pList' = [l EXCEPT !.seen = @ \cup items, !.twice = @ \cup (l.seen \cap items),
                       !.done = ~more,
                       !.cursor = IF more THEN PCursor(PLast(l.order, items)) ELSE @]
        /\ UNCHANGED <<pNow, pRows, pGone>>

PNext ==
    \/ \E id \in PIds : PInsert(id)
    \/ \E r \in pRows : PRemove(r)
    \/ PTick
    \/ \E order \in {"asc", "desc"}, limit \in PLimits : PStart(order, limit)
    \/ PPage

PSpec == PInit /\ [][PNext]_pVars

------------------------------------------------------------------------------
(* Properties *)

\* Rows and the listing have their shapes.
PTypeOK ==
    /\ pNow \in 0 .. PMaxTime
    /\ pRows \subseteq [at : 0 .. PMaxTime, id : PIds] /\ pGone \subseteq pRows
    /\ pList.base \cup pList.seen \subseteq [at : 0 .. PMaxTime, id : PIds]
    /\ pList.twice \subseteq pList.seen
    /\ pList.cursor.at <= pNow

\* An ascending listing that has come to its end returned every row that was
\* there all the while, however rows were inserted and removed between its
\* pages (findPage, and findPageForTenant of the tenant users).
PAscComplete ==
    (pList.order = "asc" /\ pList.done) => (pList.base \cap PVisible) \subseteq pList.seen

\* A descending listing never returns a row twice, though its cursor is cut to
\* the millisecond (findPageForTenant of the audit log).
PDescOnce == pList.order = "desc" => pList.twice = {}

\* What the listings get right at the edges of their pages.
PListingExact == PTypeOK /\ PAscComplete /\ PDescOnce

\* A listing that has come to its end (has_more is false) returned every row
\* that was there all the while.
PComplete == pList.done => (pList.base \cap PVisible) \subseteq pList.seen
===============================================================================
