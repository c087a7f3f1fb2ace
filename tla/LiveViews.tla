----------------------------- MODULE LiveViews ------------------------------
(***************************************************************************)
(* What is made of the approvals events: the decision cache of the MCP     *)
(* process (mcp/app/decision_cache.py) and the pending badge of a browser  *)
(* tab (lib/hooks/useApprovalCount.ts), each fed by one event stream and   *)
(* by its own requests to the REST API, whose answers take their time.     *)
(*                                                                         *)
(* The requests themselves are as much of the approval pipeline as its     *)
(* readers see: committed statuses, changed by steps that publish and by   *)
(* steps that do not.                                                      *)
(***************************************************************************)
EXTENDS EventStream, FiniteSets

CONSTANTS
  Requests, Approvals,
  Final,   \* final statuses: "applied", "denied", "application_failed", ...
  MaxId,   \* bound: the highest id of an event that is nothing to the agent
  MaxElsewhere  \* bound: such events on the topics the client follows

Statuses == {"none", "pending"} \cup Final

\* Payloads of the approvals topic; outcome is Null in approval_pending.
About(r, outcome) == [req |-> r, outcome |-> outcome]
ApprovalNews == {About(r, o) : r \in Requests, o \in Final \cup {Null}}
Elsewhere == About(Null, Null)

ASSUME ViewsAssumption ==
  /\ Clients = {"mcp", "tab"} /\ Approvals \in Topics
  /\ \A c \in Clients : Approvals \in Feeds[c]
  /\ Whats = ApprovalNews \cup {Elsewhere}
  /\ Final \cap {"none", "pending"} = {} /\ Null \notin Final
  /\ Null \notin Requests /\ IsFiniteSet(Requests)
  /\ MaxId \in Nat /\ MaxElsewhere \in Nat
  /\ WireMax \in Nat \ {0} /\ MaxCuts \in Nat /\ MaxRestarts \in Nat

VARIABLES
  db,        \* the committed status of each request
  cache,     \* decision_cache._cache for the agent, Null until it exists
  fetch,     \* the rows a REST answer to status_of carries, or Null
  answers,   \* requests whose write answered pending, not yet noted
  count,     \* the badge
  refresh,   \* its REST request: "idle", "sent" or "back"
  counted,   \* what the server counted for it
  mine       \* the tab's own decision under way, or Null

mcpVars == <<cache, fetch, answers>>
tabVars == <<count, refresh, counted, mine>>
viewVars == <<mcpVars, tabVars>>
vars == <<busVars, streamVars, db, viewVars>>

Waits(r) == db[r] = "pending"
Waiting == Cardinality({r \in Requests : Waits(r)})

-----------------------------------------------------------------------------
(***************************************************************************)
(* The pipeline, as far as it is seen from outside.                        *)
(***************************************************************************)
\* A proposal that waits; the MCP tool that sent it gets its answer later.
Propose(r) ==
  /\ db[r] = "none"
  /\ db' = [db EXCEPT ![r] = "pending"]
  /\ Announce(Approvals, About(r, Null))
  /\ answers' = IF client = "mcp" THEN answers \cup {r} ELSE answers
  /\ UNCHANGED <<cache, fetch, tabVars>>

\* A proposal that a rule decides on arrival.
ArriveDecided(r, status) ==
  /\ db[r] = "none" /\ status \in {"applied", "denied"}
  /\ db' = [db EXCEPT ![r] = status]
  /\ Announce(Approvals, About(r, status))
  /\ UNCHANGED viewVars

\* Mutant of Decide: a decision that does not look whether the row waits.
DecideAgain(r, status) ==
  /\ db[r] # "none" /\ status \in Final \ {"expired"}
  /\ db' = [db EXCEPT ![r] = status]
  /\ Announce(Approvals, About(r, status))
  /\ UNCHANGED viewVars

\* The administrator decides.
Decide(r, status) ==
  /\ Waits(r) /\ status \in Final \ {"expired"}
  /\ db' = [db EXCEPT ![r] = status]
  /\ Announce(Approvals, About(r, status))
  /\ UNCHANGED viewVars

\* Sweeps, expiry and bulk approvals that fail publish nothing.
DecideSilently(r, status) ==
  /\ Waits(r) /\ status \in Final
  /\ db' = [db EXCEPT ![r] = status]
  /\ UNCHANGED <<busVars, streamVars, viewVars>>

\* Events of the other topics, and what other agents' requests cause, which
\* are nothing to this agent's cache.
Happen(t) ==
  /\ t # Approvals \/ client = "mcp"
  /\ counter < MaxId
  /\ Cardinality({ev \in log : ev.what = Elsewhere}) < MaxElsewhere
  /\ Announce(t, Elsewhere)
  /\ UNCHANGED <<db, viewVars>>

Pipeline ==
  \/ \E r \in Requests :
       \/ Propose(r)
       \/ \E s \in Final :
            ArriveDecided(r, s) \/ Decide(r, s) \/ DecideSilently(r, s)
  \/ \E t \in Topics : Happen(t)

-----------------------------------------------------------------------------
(***************************************************************************)
(* decision_cache.py, for one agent.                                       *)
(***************************************************************************)
NoEntries == [entry |-> [r \in Requests |-> Null], resync |-> FALSE]
Opened == IF cache = Null THEN NoEntries ELSE cache

\* _apply_event: a payload without an outcome means pending.
ApplyEvent(news) ==
  cache' = [Opened EXCEPT !.entry[news.req] =
              IF news.outcome = Null THEN "pending" ELSE news.outcome]

ReadAsCache ==
  /\ client = "mcp"
  /\ \E ev \in ToSet(wire) :
       /\ Take(ev)
       /\ \/ /\ ev.what = Resync
             /\ cache' = IF cache = Null THEN Null
                         ELSE [cache EXCEPT !.resync = TRUE]
          \/ /\ ev.what \in ApprovalNews
             /\ ApplyEvent(ev.what)
          \/ /\ ev.what = Elsewhere
             /\ UNCHANGED cache
  /\ UNCHANGED <<db, fetch, answers, tabVars>>

\* note_pending: the answer to a write is entered as it is.
NotePending(r) ==
  /\ r \in answers
  /\ answers' = answers \ {r}
  /\ cache' = [Opened EXCEPT !.entry[r] = "pending"]
  /\ UNCHANGED <<busVars, streamVars, db, fetch, tabVars>>

\* status_of finds no answer in the cache and asks the backend ...
Ask ==
  /\ client = "mcp" /\ fetch = Null
  /\ Opened.resync \/ \E r \in Requests : Opened.entry[r] = Null
  /\ fetch' = db
  /\ UNCHANGED <<busVars, streamVars, db, cache, answers, tabVars>>

\* ... and enters the rows it gets, or nothing if the backend fails.
Merge ==
  /\ fetch # Null
  /\ fetch' = Null
  /\ \/ cache' = [entry |-> [r \in Requests |->
                               IF fetch[r] = "none" THEN Opened.entry[r]
                               ELSE fetch[r]],
                  resync |-> FALSE]
     \/ UNCHANGED cache
  /\ UNCHANGED <<busVars, streamVars, db, answers, tabVars>>

\* The MCP process restarts.
RestartMcp ==
  /\ client = "mcp"
  /\ Forget
  /\ cache' = Null /\ fetch' = Null /\ answers' = {}
  /\ UNCHANGED <<db, tabVars>>

CacheStep ==
  RestartMcp \/ ReadAsCache \/ Ask \/ Merge \/ \E r \in Requests : NotePending(r)

-----------------------------------------------------------------------------
(***************************************************************************)
(* useApprovalCount.ts and RealtimeProvider.tsx, for one tab.              *)
(***************************************************************************)
\* refreshFromServer: one request at a time, and a second is absorbed.
Requested == IF refresh = "idle" THEN "sent" ELSE refresh

Less == IF count = 0 THEN 0 ELSE count - 1

\* The handler of the approvals channel.  Events are handed out by topic, and
\* no handler is registered for "*".
ReadAsTab ==
  /\ client = "tab"
  /\ \E ev \in ToSet(wire) :
       /\ Take(ev)
       /\ \/ /\ ev.topic # Approvals
             /\ UNCHANGED <<count, refresh>>
          \/ /\ ev.topic = Approvals /\ ev.what = Resync
             /\ refresh' = Requested
             /\ UNCHANGED count
          \/ /\ ev.topic = Approvals /\ ev.what # Resync
             /\ count' = IF ev.what.outcome = Null THEN count + 1 ELSE Less
             /\ UNCHANGED refresh
  /\ UNCHANGED <<db, mcpVars, counted, mine>>

\* The user navigates, or comes back to the tab.
Revisit ==
  /\ client = "tab" /\ refresh = "idle"
  /\ refresh' = "sent"
  /\ UNCHANGED <<busVars, streamVars, db, mcpVars, count, counted, mine>>

CountOnServer ==
  /\ refresh = "sent"
  /\ refresh' = "back" /\ counted' = Waiting
  /\ UNCHANGED <<busVars, streamVars, db, mcpVars, count, mine>>

ShowCount ==
  /\ refresh = "back"
  /\ refresh' = "idle" /\ counted' = 0
  /\ count' = counted \/ UNCHANGED count
  /\ UNCHANGED <<busVars, streamVars, db, mcpVars, mine>>

\* doDecision: the row goes and the badge with it; five seconds remain to undo
\* that before the request is sent.  (One decision at a time is modelled.)
DecideHere(r) ==
  /\ client = "tab" /\ mine = Null /\ Waits(r)
  /\ mine' = [req |-> r, answer |-> Null]
  /\ count' = Less
  /\ UNCHANGED <<busVars, streamVars, db, mcpVars, refresh, counted>>

Undo ==
  /\ mine # Null /\ mine.answer = Null
  /\ mine' = Null
  /\ count' = count + 1
  /\ UNCHANGED <<busVars, streamVars, db, mcpVars, refresh, counted>>

\* The backend decides and answers, or the tab gets an error.
Submit(status) ==
  /\ mine # Null /\ mine.answer = Null
  /\ \/ /\ Waits(mine.req) /\ status \in Final \ {"expired"}
        /\ db' = [db EXCEPT ![mine.req] = status]
        /\ Announce(Approvals, About(mine.req, status))
        /\ mine' = [mine EXCEPT !.answer = "done"]
     \/ /\ mine' = [mine EXCEPT !.answer = "failed"]
        /\ UNCHANGED <<busVars, streamVars, db>>
  /\ UNCHANGED <<mcpVars, count, refresh, counted>>

\* The answer arrives: the badge is fetched again, or the row put back.
Answered ==
  /\ mine # Null /\ mine.answer # Null
  /\ mine' = Null
  /\ \/ mine.answer = "done" /\ refresh' = Requested /\ UNCHANGED count
     \/ mine.answer = "failed" /\ count' = count + 1 /\ UNCHANGED refresh
  /\ UNCHANGED <<busVars, streamVars, db, mcpVars, counted>>

\* A change of the set of topics opens a new EventSource.
Reopen ==
  /\ client = "tab"
  /\ Forget
  /\ UNCHANGED <<db, viewVars>>

TabStep ==
  \/ Reopen \/ ReadAsTab \/ Revisit \/ CountOnServer \/ ShowCount
  \/ Undo \/ Answered
  \/ \E r \in Requests : DecideHere(r)
  \/ \E s \in Final : Submit(s)

-----------------------------------------------------------------------------
StreamStep ==
  /\ Begin \/ Replay \/ Subscribe \/ Forward \/ Eof \/ Cut \/ Connect
       \/ Restart
  /\ UNCHANGED <<db, viewVars>>

Init ==
  /\ client \in Clients
  /\ counter = 0 /\ ring = [t \in Topics |-> <<>>]
  /\ member = FALSE /\ queue = <<>>
  /\ phase = "none" /\ left = <<>> /\ wire = <<>> /\ last = Null
  /\ log = {} /\ handled = {} /\ covered = 0 /\ blind = {}
  /\ cuts = 0 /\ restarts = 0
  /\ db = [r \in Requests |-> "none"]
  /\ cache = Null /\ fetch = Null /\ answers = {}
  /\ count = 0 /\ counted = 0 /\ mine = Null
  /\ refresh = IF client = "tab" THEN "sent" ELSE "idle"

Next == Pipeline \/ CacheStep \/ TabStep \/ StreamStep

\* The event loop runs the stream whenever it can, and both clients read what
\* has arrived and reconnect for ever.
Fairness ==
  /\ WF_vars(StreamStep /\ cuts' = cuts /\ restarts' = restarts)
  /\ WF_vars(ReadAsCache \/ ReadAsTab)

Spec == Init /\ [][Next]_vars
FairSpec == Spec /\ Fairness

-----------------------------------------------------------------------------
\* Rings, queue and transport stay within their limits (bus.py _trim, publish).
TypeOK ==
  /\ client \in Clients /\ counter \in Nat
  /\ ring \in [Topics -> Seq(Event)]
  /\ \A t \in Topics : Len(ring[t]) <= RingMax
  /\ member \in BOOLEAN
  /\ queue \in Seq(Event) /\ Len(queue) <= QueueMax
  /\ phase \in {"none", "asked", "replay", "live", "over"}
  /\ left \in Seq(Event) /\ wire \in Seq(Event) /\ Len(wire) <= WireMax
  /\ last \in Nat \cup {Null}
  /\ db \in [Requests -> Statuses]
  /\ cache \in {Null} \cup
       [entry : [Requests -> Statuses \cup {Null}], resync : BOOLEAN]
  /\ fetch \in {Null} \cup [Requests -> Statuses]
  /\ answers \subseteq Requests
  /\ count \in Nat /\ counted \in Nat
  /\ refresh \in {"idle", "sent", "back"}
  /\ mine \in {Null} \cup [req : Requests, answer : {Null, "done", "failed"}]

\* The cache never tells an agent of a decision that was not made, or of
\* another than was made, whatever was replayed, restarted or answered late
\* (_apply_event, status_of).
CachedDecisionsTrue ==
  cache # Null =>
    \A r \in Requests :
      cache.entry[r] \in Final => db[r] = cache.entry[r]

-----------------------------------------------------------------------------
(***************************************************************************)
(* What the documentation says of the views.                               *)
(***************************************************************************)
Quiet ==
  /\ phase = "live" /\ member /\ queue = <<>> /\ wire = <<>>
  /\ blind = {} /\ fetch = Null /\ answers = {} /\ refresh = "idle"
  /\ mine = Null

\* "MCP decision cache observes admin approvals" (docs/phase5_smoke.md): when
\* all that was published has been read and nothing is under way, a request
\* whose decision was announced is not cached as pending.
CacheObserves ==
  (Quiet /\ cache # Null /\ ~ cache.resync) =>
    \A ev \in log :
      (ev.what \in ApprovalNews /\ ev.what.outcome # Null) =>
        cache.entry[ev.what.req] # "pending"

\* Every decision was announced: no request was expired or swept.
AllAnnounced ==
  \A r \in Requests :
    db[r] \in Final => \E ev \in log : ev.what = About(r, db[r])

\* "Pending badge updates live in both tabs" (docs/phase5_smoke.md): when all
\* that was published has been read and nothing is under way, and every
\* decision was announced, the badge shows the number of waiting requests.
BadgeUpdates ==
  (Quiet /\ client = "tab" /\ AllAnnounced) => count = Waiting
=============================================================================
