------------------------------- MODULE Paging -------------------------------
(***************************************************************************)
(* A walk through one of the lists that answer page by page, while rows    *)
(* come and go: _page_slice of api/internal.py and the queries that use it *)
(* (my_modules, my_pending_requests, list_pages, module_health, my_files), *)
(* and the administrator's lists, which hand out another cursor.           *)
(* A row qualifies while the query's conditions hold of it.                *)
(***************************************************************************)
EXTENDS Integers, FiniteSets

CONSTANTS MaxId, Limit

ASSUME PagingAssumption == MaxId \in Nat /\ Limit \in Nat \ {0}

Ids == 1..MaxId    \* ULIDs; 0 is no cursor

VARIABLES
  matching,   \* the rows that qualify
  cursor,     \* the cursor of the next request
  walk,       \* "agent", "admin", or "over"
  stayed,     \* history: the rows that qualified all the time
  times,      \* history: how often a row was returned
  skipped     \* history: the rows whose id was a cursor of the admin's

pagingVars == <<matching, cursor, walk, stayed, times, skipped>>

\* The query: id > cursor, ordered by id.
Rest == {i \in matching : i > cursor}
Before(i) == {j \in Rest : j <= i}
Page == {i \in Rest : Cardinality(Before(i)) <= Limit}
HasMore == Page # Rest
LastOf(S) == CHOOSE i \in S : \A j \in S : j <= i

\* The row after the page, which the administrator's lists take as cursor.
LookAhead ==
  CHOOSE i \in Rest \ Page : \A j \in Rest \ Page : i <= j

Return ==
  times' = [i \in Ids |-> IF i \in Page THEN times[i] + 1 ELSE times[i]]

\* Mutant of FetchPage: the cursor of the administrator's lists.
FetchLookAhead ==
  /\ walk = "agent"
  /\ Return
  /\ IF HasMore THEN cursor' = LookAhead /\ UNCHANGED walk
     ELSE walk' = "over" /\ UNCHANGED cursor
  /\ UNCHANGED <<matching, stayed, skipped>>

\* _page_slice: the last row that is returned.
FetchPage ==
  /\ walk = "agent"
  /\ Return
  /\ IF HasMore THEN cursor' = LastOf(Page) /\ UNCHANGED walk
     ELSE walk' = "over" /\ UNCHANGED cursor
  /\ UNCHANGED <<matching, stayed, skipped>>

FetchAdminPage ==
  /\ walk = "admin"
  /\ Return
  /\ IF HasMore
     THEN cursor' = LookAhead /\ skipped' = skipped \cup {LookAhead}
          /\ UNCHANGED walk
     ELSE walk' = "over" /\ UNCHANGED <<cursor, skipped>>
  /\ UNCHANGED <<matching, stayed>>

\* A row is inserted, or begins to qualify.
Qualify(i) ==
  /\ walk # "over" /\ i \notin matching
  /\ matching' = matching \cup {i}
  /\ UNCHANGED <<cursor, walk, stayed, times, skipped>>

\* A row is deleted, or decided, or given away.
Leave(i) ==
  /\ walk # "over" /\ i \in matching
  /\ matching' = matching \ {i}
  /\ stayed' = stayed \ {i}
  /\ UNCHANGED <<cursor, walk, times, skipped>>

InitPaging ==
  /\ matching \in SUBSET Ids
  /\ cursor = 0 /\ walk \in {"agent", "admin"}
  /\ stayed = matching
  /\ times = [i \in Ids |-> 0] /\ skipped = {}

PagingStep ==
  \/ FetchPage \/ FetchAdminPage
  \/ \E i \in Ids : Qualify(i) \/ Leave(i)

SpecPaging == InitPaging /\ [][PagingStep]_pagingVars

-----------------------------------------------------------------------------
PagingTypeOK ==
  /\ matching \subseteq Ids /\ cursor \in Nat
  /\ walk \in {"agent", "admin", "over"}
  /\ stayed \subseteq matching /\ times \in [Ids -> Nat]
  /\ skipped \subseteq Ids

\* No walk returns a row twice, and it returns every row that qualified from
\* its beginning to its end, whatever else came and went; the
\* administrator's misses such a row at the page boundaries at most.
PagedOnce ==
  /\ \A i \in Ids : times[i] <= 1
  /\ walk = "over" => \A i \in stayed \ skipped : times[i] = 1
=============================================================================
