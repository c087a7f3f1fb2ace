# A verification development for pdash

pdash is a private dashboard whose content is proposed by AI agents and decided
by one administrator. An agent proposes a change (a module, an edit, a page, a
button press); approval rules or the administrator decide it; a decided change
is applied to the tables the dashboard is rendered from. The core of the
program is that pipeline: what may be decided by whom, what is applied, what is
announced, and what is left behind when something fails in the middle.

This directory holds TLA+ modules translated from the Python sources under
`src/`, TLC configurations that check them on small instances, and proofs
checked by TLAPS that hold for every instance. `PROJECT.json` maps each
definition to the lines it stands for.

## Inventory

| component | state | operations | what makes it correct |
|---|---|---|---|
| rule engine (`approval/engine.py`) | process-wide cache of enabled rules, a version | `decide`, `get_rule_cache`, `bump_rules_version` | the verdict is that of the most specific, most urgent, most cautious, newest matching rule; the cache is the committed table |
| lifecycle (`approval/lifecycle.py`) | `approval_requests.status`, `decided_by`, `execution_result` | `mark_*` | statuses move along `_ALLOWED`; a decided request stays decided, by the same decider |
| apply (`approval/apply.py`) | modules, pages, action targets, background tasks | `apply_request` and a handler per action | applied means that the content is there; failed means that nothing is; an action is fired at most once |
| submission (`api/internal.py`, `approval/orchestrator.py`) | requests, stored responses | six write endpoints | one request per idempotency key; the decision is that of a rule |
| decisions (`api/approval_requests.py`) | requests, rules | approve, deny, bulk, sweep | a loop meets only pending rows; a half-done request is never committed; decisions are announced |
| rules API (`api/approval_rules.py`) | rules | create, update, delete, revoke with reversal | the cache is dropped with each change; reversal touches only what the rule did |
| expiry (`approval/expiry.py`) | requests | `expire_stale_pending` | only pending rows expire |
| sessions (`db.py`, `events/publish.py`) | the write lock, events queued on a session | begin, commit, rollback | what is announced is committed |
| event bus, SSE (`events/bus.py`, `api/events.py`) | rings, subscriber queues | publish, subscribe, replay | a subscriber gets each event once, in order, or is told to resynchronise |
| MCP decision cache (`mcp/app/decision_cache.py`) | status per request, last event id | `status_of`, `note_pending`, stream reader | a cached status is never older than one that was shown, and converges |
| pending badge (`lib/hooks/useApprovalCount.ts`, `RealtimeProvider.tsx`) | a count, a REST request under way | count events, refresh, decide with undo | it shows the number of waiting requests |
| registration (`api/internal_bootstrap.py`, `services/agent_registration.py`) | registrations, their requests, keys | register, decide, poll and claim, expire | both tables agree; one key per approval; names stay distinct; polling ends |
| agents (`api/agents.py`, `api/internal_auth.py`) | name, status, current key | create, rename, rotate, enable, disable, revoke; resolve, check | what was revoked or rotated loses its force in a bounded time |
| MCP gateway (`mcp/app/auth.py`, `idem.py`, `backend.py`, `tools.py`) | key cache, derived idempotency keys | tool calls, with time-outs and lost answers | a repeated call has one effect; the answer given to the agent is true |
| rate limit (`services/rate_limit.py`) | a token bucket per agent and class | charge a read, charge a write | a window serves no more than bucket and refill, but for a millisecond per call |
| login and sessions (`auth/`, `api/auth.py`) | failures per address in memory, signed cookies | login, screenshot cookie, replaced secrets | guesses keep their distance; writes need a recent login |
| page access (`api/page_agent_access.py`) | approval rules of one shape | set a level, read it back | the level shown is the one the agent meets |
| module edits (`api/modules.py`, `services/etag.py`, `approval/apply.py`) | versions and fields of a module | ten writers | an ETag stands for one state; nothing unseen is overwritten |
| file store (`services/files.py`, `api/files.py`) | inbox and store on disk, the files table | drop, register, compare and move, delete | what is served was reviewed; disk and table agree |
| lists (`_page_slice` and its callers) | a cursor | fetch page by page | a walk misses no row that stayed |

The components of the pipeline meet in four places: the tables, written under one lock; the rule
cache, a module global that no transaction protects; background asyncio tasks,
which outlive the transaction that starts them; and the events, queued until a
commit. The hard behaviours are where a transaction and one of the other three
disagree, and where a loop over rows (a sweep, a bulk call, a reversal) fails in
the middle. The `hazards` of `PROJECT.json` list them with their lines.

## Modules

    RuleEngine                      the matcher and its order
      ApprovalBase                  constants, tables, transaction, cache
        ApplyRequest                approval/apply.py
          SubmitRequest             api/internal.py, orchestrator.py
            AdminDecisions          approval_rules.py, approval_requests.py
              ApprovalPipeline      admin routes, jobs, commit/rollback/crash,
                                    Spec, the properties
    Lifecycle                       the abstract status machine
    EventBus                        events/bus.py
      EventStream                   api/events.py and a connection
        LiveViews                   decision_cache.py, useApprovalCount.ts
    Subscription                    what a subscriber is promised; EventStream implements it
      PageAccess                    page_agent_access.py, over the same rules
    Enrolment                       the abstract promise of registration
    AgentAccess                     agents, registrations, keys; implements it
      Gateway                       a tool call from the MCP process to the commit
    RateLimit                       services/rate_limit.py
    Sessions                        auth/, api/auth.py
    FileStore                       services/files.py, api/files.py
    Paging                          _page_slice and the lists
    ModuleEdits                     every writer of a module row, and ETags
    MCRuleEngine, MCPipeline, MCLive,
    MCAccess, MCWorkspace           instances for TLC
    RuleEngineProofs                theorems on the matcher
      RuleTableProofs               sort and scan, the panel, edited tables
      ApprovalPipelineProofs        two inductive invariants, the theorems
    LiveViewsProofs                 theorems on the stream and its readers
    AgentAccessProofs, GatewayProofs
                                    theorems on those modules
      EntranceProofs                on RateLimit and Sessions, and on MCAccess
    WorkspaceProofs                 on FileStore, Paging and ModuleEdits,
                                    and on MCWorkspace

**How the state corresponds.** `reqs`, `rules`, `mods`, `pages`, `tgts`, `idem`
are the tables as the transaction that holds the lock sees them. `disk` is their
committed content. `tx` is the handler in progress: `idle`, `open` with the rows
its loops have left (`sweep`, `bulk`, `undo`), or `abort` when an exception is on
its way to `get_session`. `cache` is `engine._cache` (loaded version and content
in one), `jobs` the asyncio tasks of `_ASYNC_JOBS`, `outbox` the events on the
session, `heard` the events published, `fired` counts effects outside the
process. `phantom` is a history variable: the cache was filled from rules that
were then rolled back.

**How steps correspond.** A handler without a loop is one action, followed by
`Commit` or `Rollback`; this is the grain the write lock gives, and a crash can
come between them. A handler with a loop is an opening action and one action per
row. Background jobs wait for the lock like any handler (`RunJob`) or give up
when `busy_timeout` passes (`LoseJob`). `Crash` ends the process: tables return
to `disk`; cache, jobs and queued events are gone; the outside world and what was
announced stay.

**How content is abstracted.** A module's content is the number of the request
that wrote it last; a page or module that a request creates has the request's
number as its id (the provisional id of `proposed_payload`). A proposal is a
record with the fields that apply and the engine look at. `created_at` orders rows
as their ids do and is not kept apart. The allowlist of iframe sources may have
changed since a proposal was validated, so applying iframe content may fail
(either outcome). A target is reached or not (`ok`, `failed`, either outcome);
`deaf` targets are `agent_message` targets that name no agent, whose insert fails
at the flush and poisons the session.

**Event delivery** has its own modules. The pipeline ends where an event is
published after a commit (`heard`); `LiveViews` begins there, with a small pipeline
of committed statuses (`db`) that are changed by steps that publish and by steps
that do not. `ring` and `queue` are `EventBus._ring` and a subscriber's
`asyncio.Queue`; `member` is its registration; `counter` is the id counter. `phase`
is where the generator `_stream` stands: `asked` (the request is there), `replay`
(handing out `left`), `live`, `over` (it has forwarded a resync). `wire` is what was
sent and not read; a stream with a full `wire` waits, and its queue fills. `last` is
`_last_event_id` of the MCP process, or what the browser's `EventSource` remembers.
`cache`, `fetch` and `answers` are the cache of one agent, the rows of a REST answer
on their way, and pending answers that the tool has not noted yet; `count`,
`refresh`, `counted` and `mine` are the badge, its REST request, what the server
counted for it, and the tab's own decision within its five seconds. `log`,
`handled`, `covered` and `blind` are history.

One subscriber is followed, of a kind that the initial state chooses. Subscribers
do not touch each other, except that a resync for one takes an id; such gaps look to
the others like events on topics they do not follow, which `Happen` publishes. A
stream notices a dead connection within the second between its polls; a client
waits longer than that before it comes back, so the old stream is gone by then.

**Registration and agents** (`AgentAccess`). `regs` is
`agent_registration_requests`, `asks` the `register_agent` request of each, in the
same rows as the pipeline's but followed only as far as registration sees them.
Deadlines are counted down; a row past its own stays until `_expire_stale`,
`expire_stale_pending` or a poll looks at it. A failing application
(`ApplyError`) leaves the registration waiting, as in the code. `handed` is history.

**A call** (`Gateway`) has a record in the MCP process (`calls`) and one in the
backend (`jobs`), because either goes on without the other: the tool gives up after
`backend_timeout_s`, the handler does not. The stages are those at which the code
awaits: the key's resolution, its answer, the request; the agent's check in a session
of its own, the lock. A handler that runs is one step: it replays a stored answer,
executes and stores, or raises and is rolled back. A restart of the backend before a
commit looks like a raise and a lost answer, and has no action. The times `KeyTTL`,
`IdemTTL`, `Timeout`, `BusyTimeout` are in ticks.

**The bucket** (`RateLimit`) is a row with grains of a token and a time. `_consume_in_session`
refills up to one reading of the clock, to the microsecond (`now_dt`), and stores another in
whole milliseconds (`utcnow_iso`), so that the row's time is up to a millisecond before the
moment the grains were counted for, and the next refill credits that part again (`Truncated`,
`Readings`). Refusals write the row too. The bound
"capacity and refill" by itself does not hold of the program, nor does it with one millisecond
for the whole window (TLC refutes both on the instance), and `BucketBound` states the slack per
call that was counted, `charged`. At the sustained ten reads per second that is at most 1% of
the refill; refused calls, which may come faster, add theirs.

**Logins** (`Sessions`) hold the write lock while they wait out their delay, because
`get_session` runs `BEGIN IMMEDIATE` before the handler begins; `busy_timeout` (5 s)
is shorter than two of the delays, so that another writer, of whatever kind, may
fail meanwhile (`MissLock` for logins). Cookies are records, never withdrawn.

**Files** (`FileStore`). Rows are transactional and files are not, so `AbortFiles`
returns the rows and leaves the files. The comparison of the hash, the move and
the commit are three steps, with writers of the inbox between them. Inbox and store
are on one file system, where `shutil.move` renames; across two it copies and
unlinks, which the mutant `CopyAndUnlink` shows to lose a concurrent write.

**Lists** (`Paging`). Rows are ULIDs and may be inserted in any place of the order, which covers
clocks that disagree. **Edits** (`ModuleEdits`). Each write has a number, a field holds
the number of the write it is from, and a client's ETag is a read it once made.
`stamp` orders the writes; `history`, `torn` and `wrote` are history. `RevokeRule` is the
reversal of all a rule has decided, on arrival or later, again at each further revocation: it
brings back deleted modules and pages and takes away created ones.

**Page access** (`PageAccess`) is over the rules of `RuleEngine`; ids of the rules that a
level makes are fresh and in any order of the actions. `EditRule` sets any field that
`update_rule` sets; of a built-in rule only the priority and the switch.

## What the runs check

`rule_engine` builds every table of up to three rules over two actions, one
module, three owner scopes, three outcomes and two priorities, with every query.
`VerdictIsScan`: the declarative verdict equals the sort-and-scan of the code.
`CautionPrevails`: auto_approve never beats an at least as specific and as urgent
denial or prompt. Three rules cover each pairwise tie with a third between them;
agent, module type, module and page enter the key alike, so one of them stands
for all. A second scene of the run has the panel of a page with one more rule beside
it (`MaxOthers`), while rules are edited, field by field, and deleted: a rule of the panel may be
moved to another scope, and the other rule onto the page. A panel can be set twice with the ids
there are (`MaxRuleId`). `PanelHolds`: a level that is
shown is what the agent gets on that page, unless a rule with two narrowings or
more says otherwise. The code does not look at such rules (a rule for this agent and
one module of the page outranks the panel), so the exception is part of the statement.

`content` has two agents, a seeded log stream one of them owns, one built-in rule
(agents may update what is theirs), proposals that create, append, move and
delete, rule drafts with and without a sweep, two requests, one more rule and bulk
calls of two. Two requests are what it takes for a loop to fail after a success,
for a sweep to meet its handler's own row, and for one request to invalidate
another. It checks:

- `SelectedStillPending`: rows chosen by a loop are pending when it reaches them.
- `CacheCoherent`, `DecidedByCommittedRule`: the cache is the table, and
  decisions on arrival are those of committed, enabled rules, with the one
  exception that `phantom` marks.
- `DecisionsAnnounced`: a committed decision by the administrator, or by a rule
  on arrival, was announced.
- `ContentHasCause`: content with a provisional id exists exactly when its request
  was applied; what a module holds was written by a decided request about it.
- `StuckOnlyInBulk`: a half-done request is committed only by a bulk call, and only
  for a queued append or an action whose target was gone or off.
- `ImplementsLifecycle`: the committed rows refine `Lifecycle`, the machine of
  `_ALLOWED` as seen by readers, with the decider added.

`outside` has an action target that changes between synchronous, asynchronous,
off and deaf, page creations that collide on their slug, and two jobs per request
(a request whose scheduling was rolled back can schedule a second one).

- `EventsTruthful`: whatever was announced is committed, with that status, for good.
- `OneRequestPerKey`: one committed request per agent, endpoint and key.
- `ResultMeansFired`: a recorded result means that the target was reached.

`delivery` follows one request over a queue of two, rings of two, one event in the
transport, one cut (or one client that starts over) and one restart of the backend,
with one event that is nothing to the agent. Three events overflow a queue of two;
a ring of two loses its oldest to the third; a cut and a restart can be combined in
either order.

- `NothingElseLost`: while a stream runs, an event that was neither read nor is on
  its way is covered by a resync, or is behind one and left to the next replay, or
  fell into one of two holes. `blind` collects exactly these: what is published
  between a replay and the subscription after it (or before the first
  subscription), and what lies at or below the id a reconnecting client names
  though it has not read it, because an overflow dropped it and the connection was
  cut before the resync, or because the ids are those of an earlier process. So
  these are all the holes there are, and ring trimming and overflow add none.
- `ReadInOrder`: nothing is read twice, or before what was published earlier.
- `ImplementsSubscription`: the client may take the stream for a `Subscription`. That module
  knows nothing of rings, queues and ids to resume from, only what was published, read,
  excused by a start-over, lost in a hole, or is due. Each event is read after those
  before it, and when it is read each earlier event is accounted for: a gap the client
  sees is one it was told of, is about to be told of, or one of the two holes. An overflow
  ends the subscription, and what it drops is due from that step until the start-over
  is read or the connection ends. Coming back, the client either is told to start over, with
  all it misses due at once, or writes off a prefix of what it has not read, and nothing
  older than what it has read is left open. An event becomes a hole only between a
  replay and its subscription or by being passed off as read in this way.
- `CachedDecisionsTrue`: the cache holds no decision that the tables do not, in spite
  of replays, late answers and restarts.
- `CaughtUp` (liveness): in the end every event is read, or covered, or in a hole.
- `TypeOK`, with the limits of rings, queue and transport.

`access` has four scenes, one in each initial state, that share no table but `agents`:
two clients that enrol under names of which one is stripped to the other, next to an
agent the administrator may create or rename; two calls of one agent, whose key is rotated and
whose status changes; a bucket for two calls that is full after six
ticks, with two ticks to the millisecond that is stored, over twelve ticks and six charges in a
window; two logins from one address
with up to three failures, of which the last two carry a delay. Every deadline is one
tick, except a session's lifetime of two: each can pass, or not, before each other
step. `MaxPending` is never reached here: it only refuses.

- `ClaimFollowsDecision`: a registration is where its decision put it, or has expired.
- `NamesDistinct`: no two agents have one name; two live registrations share one only
  where approval has stripped it.
- `ImplementsEnrolment`: the committed registrations implement `Enrolment`: one key,
  new, after an approval, and no second one.
- `PollingEnds` (liveness): a waiting or approved registration does not stay so.
- `StaleKeyWindow`: a rotated or revoked key opens calls for at most the cache's TTL
  and one time-out.
- `RevocationTakesHold`: nothing is done for an agent longer than `busy_timeout` after
  it was disabled or revoked.
- `RetrySafe`: one idempotency key of an agent has one effect, whatever is lost or late. All
  calls of the instance are of one tool, by which the code files keys and answers too.
- `EnvelopeTruth`: what the tool says became of the call did; an answer of refusal
  means that this call left nothing.
- `BucketBound`: the calls a window serves are paid for by a full bucket, what the window
  brings, and less than a millisecond's refill for each call counted in it. Twelve ticks are
  enough to empty and fill the bucket twice, six charges to collect twice the slack a call costs.
- `AttemptsSpaced`, `WritesByAdmin`: see the theorems below.

`workspace` has three scenes: two places, two files and two contents in the inbox and the
store; a walk over up to five rows by two; and the edits of one module with two fields of data and a
column, two proposals and four writes. Two files are what it takes for a sweep that
applies one after the other, and for a rollback to undo both; five rows by two have a
boundary in the middle of what is left; four writes are a read, a proposal, an edit over it, and
the decision.

- `ServedIsReviewed`: what is served is what the row and the request say, unless somebody
  wrote to the inbox between the comparison and the move.
- `DiskFollowsRows`: between transactions a missing blob or one without a row comes from
  a rollback or from a removal that failed; nothing repairs either.
- `NothingVanishes`: the last copy of a dropped file goes only by an overwrite or deletion
  in the inbox, by the deletion of the file, or when a leftover is replaced.
- `PagedOnce`: no row twice, and none missed that was there all along.
- `VersionIdentifiesState`: one ETag, one state of the fields.
- `NoBlindOverwrite`: an edit with an ETag that is done at once replaces what its client read.
- `OnlyNamedFields`: what an edit does not name stays, except for a proposal that waited.

Deadlock is not checked in these runs: ids run out, and then the model may stop.

Six runs refute what the repository says of itself; each has a finding with the
quoted line and the trace.

- `cache_from_disk` (`CacheIsFromDisk`): the cache can hold a rule that was rolled
  back, and the next proposal is decided by it.
- `left_approved` (`NeverLeftApproved`): a queued append is left approved, never
  applied and never failed.
- `failed_trace` (`FailedLeavesNoTrace`): a failed update leaves its first fields.
- `executed_pending` (`ExecutedOnlyApplied`): a background action runs for a request
  that is pending.
- `cache_observes` (`CacheObserves`): the note of a pending answer overwrites the
  decision that the stream has delivered.
- `badge_updates` (`BadgeUpdates`): a REST count that is older than the events shown
  replaces them. The same formula fails in other ways that the trace does not show: a
  proposal that a rule decides takes one from a badge it was never added to, a
  decision of the tab is subtracted by the tab and by its event, and an event that the
  server had counted is counted again. The property asks only about behaviours in
  which each decision was announced; sweeps and expiry are not.

Disagreements with the documentation that no run is spent on, because a checked property
states them as its exception:

- `src/mcp/app/settings.py:34` says that revocation propagates within the cache's TTL.
  For a disabled agent it is faster (`RevocationTakesHold`); for a rotated key it is the
  TTL and the time the last resolution was under way (`StaleKeyWindow`).
- `src/docs/agent_onboarding.md:84` says that data and config are merged onto the stored
  document. They are merged onto the document of the moment the proposal arrives; when it is
  applied later, the merged document replaces the stored one (`OnlyNamedFields`).
- The administrator's lists give the id of the first row they did not return as the cursor
  of a query for greater ids: they skip a row at each boundary, which is what the docstring
  of `_page_slice` warns of (`skipped` in `PagedOnce`).
- `register_request` rejects names that would "dead-end", but compares them unstripped, and
  approval strips: the second of two such registrations ends in `agent.name_taken` at
  its claim (`NamesDistinct`). Its way out of approved, a denial, is not reachable,
  since its request is decided; the deadline ends it.
- A write tool turns any 403 into `denied` and any 500 into `unknown`; a key whose claim's answer
  is lost is lost, as `Enrolment` hands it out once. A derived idempotency key is reused for
  60 s, so the calls A, B, A within that time leave the state of B.

Fairness: `delivery` assumes some for `CaughtUp`, and `access` for `PollingEnds`: time passes,
and each client goes on polling `claim_registration` until it has its answer, as the tool's
description tells it to. Nothing else is forced there: no decision, no expiry by the
administrator. In `delivery`: the stream (one
generator and its `EventSource` or `_consume_stream` at the other end) takes a step
whenever it can, as the event loop and the reconnecting loops of both clients do;
cuts, restarts and the client's forgetting are not part of it. The reader takes
what has arrived. Neither fairness condition forces REST requests, proposals or
decisions. The pipeline itself promises no progress: a pending request waits for a
person, and nothing in the application calls the expiry.

## What is proved

Each theorem holds for every value of the constants that satisfies
the named assumptions of its modules (`RuleEngineAssumption`, `PipelineAssumption`,
`PageAccessAssumption`, `MCRuleEngineAssumption`, `BusAssumption`, `ViewsAssumption`,
`AgentAccessAssumption`, `GatewayAssumption`, `RateLimitAssumption`, `SessionsAssumption`,
`MCAccessAssumption`, `FilesAssumption`, `PagingAssumption`, `EditsAssumption`), which TLC
evaluates on every run of them. Every invariant and every action property of the passing runs is
proved, and so are the refinements.

*On the matcher* (`RuleEngineProofs`): the sort key is total and asymmetric on the
rules of a table, a non-empty set of matches has exactly one first member
(the least in each part of the key in turn, `NatMin`), the verdict is sound, and caution wins
(`CautionTheorem`, the formula that `CautionPrevails` checks).

*On the rule table in use* (`RuleTableProofs`): a table is finite because its ids were given out
(`TableFinite`), and each bucket can be sorted (`SortedExists`: the number of rules that come no
later is a rule's place; the key is transitive). So the scan meets the first member of the matches
and `ScanTheorem` follows from `FirstUnique`: `Decide`, which every other module uses, is what the
code computes. `ShownTheorem`: a managed rule of the level matches the query with two narrowings, so
whatever wins has two; if the panel manages it, it names the agent and the page, and its outcome is
the level's. `TableInv` (ids distinct and below `NextId`, so that a new set of rules takes none
that is in use) carries both, and caution, to every table that creation, edits, deletions and levels
lead to: `VerdictAlwaysScan`, `CautionAlways`, `PanelAlwaysHolds`.

*On the pipeline* (`ApprovalPipelineProofs`): `Invariant` proves `Spec => []Inv`,
where `Inv` has these parts, each needed for a reason:

- `TypeOK`.
- `RulesOK`: rule ids are distinct and minted, in the tables, on disk and in the
  cache (else "the rule with that id" is not one rule), and `CacheCoherent`.
- `Settled`: between handlers the tables are the committed ones, so that what a
  handler reads first is committed.
- `RowsOK`: committed rows stay; an uncommitted row belongs to a handler with
  nothing left to do; a loop has one verdict per row and reverses applied requests
  only; a job's row exists and outlives a rollback; and `SelectedStillPending`.
- `ContentKept`: the module or page an applied request is about exists, in the
  handler's tables and on disk. Reversal needs it: it writes to that row.

From it follow `TypeCorrect`, `LoopsMeetPending`, `CacheTheorem`, and the action
property `DecisionsBacked`. Its proof: an arrival happens only with the lock free, so
the tables are the committed ones; without a phantom the cache, or the table it is
loaded from, is the set of enabled committed rules; the verdict is one of them by
`DecideSound`.

The induction goes by action, grouped by what a step can do to the rules
(`RulesStep`), to the rows and loops (`RowsStep`), and to content (`ContentStep`).

`HistoryInvariant` proves `Spec => []History` on top of `Inv`. Most of the properties the
runs check are about committed rows; `History` says the same of the handler's tables, so that a
commit keeps it, and of the committed ones, so that a rollback does:

- `Growing`: a committed row is in the handler's tables too, with its proposal, and with its decision if it
  has one; a row has a decider from the moment it is decided; ids were minted, so
  the row that a submission adds is new.
- `EventsOK`: queued events are true of the handler's rows, published ones of the
  committed rows. A decided event names a decision, which is final by `Growing`.
- `KeysOK`: rows of one agent, endpoint and key are one, and their response is stored, in the
  tables and on disk; without the stored response a second submission would add a second row.
- `AnnouncedOK`: what is to be announced was published, or is in the queue of this handler.
- `StuckOK`, `FiredOK`, `CausesOK`: `StuckOnlyInBulk`, `ResultMeansFired` and
  `ContentHasCause` for both tables.

What is stored, announced or half decided is left open in the tables of a transaction that is on
its way to a rollback (`tx # Aborting`): there a row may be unstored, unannounced or half
decided, and it is gone before anyone reads it. The proof does not repeat the actions in each
part: `StepKinds` sorts the steps into those that leave the rows alone (`Still`), expire some
(`Expired`), record a job's result (`JobDone`) or turn one row (`Turned`, with
what `AttemptEffect` says an application does), next to `Commit`, `Rollback` and `Crash`, and each
part is kept by each kind. From `History` follow `EventsTheorem`, `AnnouncedTheorem`,
`KeysTheorem`, `StuckTheorem`, `FiredTheorem`, `CausesTheorem` and the refinement
`LifecycleTheorem`: only a commit changes the committed rows, and from one commit to the next a row
moves along the abstract machine (`ReachableStatuses`).

*On event delivery* (`LiveViewsProofs`): `LiveInvariant` proves `Spec => []LiveInv`, for any
topics, subscribers and requests and any size of rings, queue and transport. What is on its way to
the client is one sequence, `Ahead`: transport, then replay, then queue; most lemmas are about it
(`HandedOn`: forwarding moves an event within it; `TakeIsHead`, `Published`: reading takes its head,
publishing extends its end or, when the queue is full, drops the oldest of the queue and puts a
resync at the end). The parts:

- `LogOK`: ids are given out once, and only what was published is handled.
- `RingsOK`, `NewestKept`: a followed ring holds events of the log, in order, and what it no longer
  holds is older than all it does. So "the ring's oldest id is at most one past the last id" means
  that nothing was missed, which is what `replay_since` relies on.
- `StageOK`: outside a connection nothing is on its way.
- `Numbers`: ids rise along `Ahead` and lie above all that was handled, but for the resync that
  opens a replay; that resync is there only when the rings do not reach back. `ReadInOrder` follows.
- `Resyncs`: a later resync stands for more than an earlier one, so dropping the earlier one of a
  queue that overflows twice loses nothing.
- `Position`: a client that has handled more than the last id it would name finds that the rings
  do not reach back to that id, and is told to start over.
- `NothingElseLost` itself: each event is known to the client, on its way, behind a resync and
  left to the next replay, or in one of the holes that `blind` collects.

`ViewsInv` says that what is told of a decision, in an event of the log or an answer under way, is
committed (`Told`); decisions are final (`Decided`), so `CachedDecisionsTrue` is kept by late
answers and late events alike. That a replay is sorted (`Sorted`) is proved by counting: the number
of events up to one is its place (`Ranked`). From it follow `LiveTyped`, `LossesAnnounced`,
`OrderedReading` and `CacheTruthful`.

`SubscriptionImplemented` proves the refinement, from `LiveInv` and `HolesOK` (a hole was
published), with a lemma for each abstract action: `SubPublishes` shows that publishing beside,
into or over a queue is `Publish`, where on overflow all that is dropped becomes due because the
resync is the newest of all; `SubReads` gets the guard of `Handle` from
`NothingElseLost` and `Numbers` (what is neither known, nor in a hole, nor due would have to be
on its way and older than the head of it); `SubResumes` gets the guard of `Resume` from `Position`;
the rest are a stutter (`SubStutter`), `Subscribe`, `HangUp` and `Restart`.

*On registration* (`AgentAccessProofs`): `AccessInv` says of the two tables, for any pair
of them, that each registration agrees with its request and that a waiting registration
has the name it was asked for under (`Registers`); that keys handed out are used up
and belong to claimed registrations (`Handing`); and that employed agents have
distinct names (`Staff`). `Registers` is stated for a pair of tables because
`Register` first sweeps, then inserts, then settles: the lemmas on the sweep and on `Settle`
are applied to the tables in between. That a waiting registration has the name of its
request is what makes a stripped name recognizable in `NamesDistinct`. From it follow `DecisionsReachRegistrations`,
`NamesStayDistinct`, and `EnrolmentImplemented`: each step moves each registration along the
stages of `Enrolment` or not at all, and hands out a key exactly when one is claimed
(`Proceeds`), so the refinement that TLC checks in `access` holds for all values.

*On a call's way to its effect* (`GatewayProofs`): `CallsInv` says of each call and its request
that a request belongs to a call that was sent and keeps its key (`Follows`); that effects, stored
rows and answers go together (`Recorded`); that a minted key, also one that is only remembered
in `chosen`, stands for the agent and the arguments of the call it is named after (`Minted`,
`Chosen`); that what was told is so (`Truthful`); and that whoever relies on a key or an agent
counts at least as long as it has been invalid (`Clocked`). `RetrySafe` is inductive only with
`Recorded`: a request that runs found no stored row, so no call with its key had an effect.
`EnvelopeTruth` needs `Minted`: a call with the same key has the same arguments. `Clocked` is
where the bounds come from: `resolved` answers count their own wait, cached keys the TTL that is
left, checked requests their wait for the lock. From it follow `StaleKeyWindowHolds` and the action
property `RevocationTakesHoldHolds`. The specification is `SpecCalls`: any agents, any calls,
no enrolment of new ones.

*On edits* (`WorkspaceProofs`): `EditsInv` says that versions only grow (`Dated`: no read is
newer than its row, and one with the row's version shows the row's document or the module is
torn), that no entry has a number not yet given out (`Numbered`), and that a proposal's document
consists of its own new entry and of what was written before it came (`Based`). `Dated` gives
`ETagStandsForState` and `NoBlindOverwrites`; `Based` gives `OthersFieldsStay`, which names
exactly what a proposal that waited may bring back.

*On files* (`WorkspaceProofs`): `FilesInv` holds of the tables, of the transaction under way
(what was compared is what the inbox holds, unless it was swapped), and of the tables
that a rollback would return to (`Returnable`), without which `AbortFiles` could
not be shown to keep it. `ServedWasReviewed` and `DiskMatchesTable` follow, and the action property
`BytesKept`: each step is looked at for the bytes it can take from the inbox or the store, and only
overwrites, deletions and a registration applied again over a left-over take the last copy.
`WorkspaceTyped` joins the three components of `MCWorkspace`.

*On logins* (`EntranceProofs`): `LoginInv` needs `DelayStands`: the delay that the holder of the
lock computed is still the one to wait. That is where the lock matters; without it
(the mutant `DelayFirst`) the statement fails. `OnlyAdminWrites`, `GuessesKeepTheirDistance`.

*On the bucket* (`EntranceProofs`): the calls of a window and what was left in the bucket when
it was last counted never exceed capacity, the refill until then and the slack of the charges
(`Accounted`: up to the time the row carries, which the next refill starts from, and up to the
clock, since that time can be ahead). `TruncatedBound` is what one cut can take. `RateLimitHolds`
follows, for any capacity, cost and precision of the stored time.

*On the entrance as a whole* (`EntranceProofs`): `EntranceInv` holds the invariants of the four
components side by side; the calls' one only in their scene, since it speaks of agents, who come
and go in the enrolment. `EntranceTyped` follows.

*On lists* (`WorkspaceProofs`): rows up to the cursor that stayed were returned once, the others
not at all (`Behind`); `WalkIsComplete` follows for any number of rows and any page size.

The assumptions on constants are those of the code's defaults: delays grow with failures,
a bucket pays for one call, stripping twice is stripping once; a key that an agent chooses is not
one that the gateway minted.

Model-checked only: `CaughtUp` and `PollingEnds`. They are out of the prover's reach, as all
liveness under fairness and `ENABLED` is. So would be induction over data and RECURSIVE
operators; no module declares one, and nothing here needs the former.

## Not modelled

`PROJECT.json` names the reason for each component. Inside the modelled ones:

- In the pipeline: `register_file`, `register_agent` and `delete_page` as requests of its own
  instance (they have their modules), `agent_message` targets that name an agent,
  `application_count`, the activity log.
- In event delivery: topic names and their validation, the wire format, keep-alive comments,
  several agents in one cache (they share the resync flag's setting and nothing else), the
  tab's bulk decisions, and more than one decision of a tab under way at a time.
- In registration: the claim token (a client knows its own and no other), descriptions, and
  that a name of blanks only fails at approval (it does in `Approvable`, but no such name is
  in the instance).
- In the gateway: reads, which have no effect; which types and pages an agent's permissions
  name; `note_pending` (in `LiveViews`), which `propose_page`, `fire_action` and
  `append_log` do not call.
- In sessions: the CSRF token, argon2, `signing_secret_override`.
- In the file store: path validation, MIME types, sizes and limits (a refusal is a
  registration that does not happen), an inbox and a store on two file systems.
- In edits: moving modules between pages, which writes a column like the others.
- The bucket's clock is assumed not to go back; the code reads the wall clock. The two readings
  in `_consume_in_session`, one line apart, are taken to be less than two ticks apart.
- `validate_module`, `render_page`, module schemas, screenshots as pictures, seeds, migrations
  and the command line run no state machine of their own: they compute, render, or run once.

Left for whoever continues: what views owe after a resync; whether an action may fire again after a crash between the effect
and the commit, which the repository does not say.
