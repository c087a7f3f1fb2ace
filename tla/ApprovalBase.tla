---------------------------- MODULE ApprovalBase ----------------------------
(***************************************************************************)
(* The approval pipeline of the pdash backend: what its parts share.       *)
(*                                                                         *)
(* Agents propose changes to the dashboard; the rule engine or the         *)
(* administrator decides each proposal; a decided proposal is applied.     *)
(*                                                                         *)
(* Every handler that writes runs in one transaction opened by BEGIN       *)
(* IMMEDIATE (db.get_session), so handlers take turns: tx is the handler   *)
(* that holds the write lock.  The variables reqs, rules, mods, pages,     *)
(* tgts and idem are the tables as that handler sees them; disk is what    *)
(* has been committed, what every reader sees, and what a rollback or a    *)
(* restart returns to.  A handler that loops (a sweep over the pending     *)
(* requests, a bulk decision, the reversal of a rule) takes one step per   *)
(* row.  The rule cache, the background jobs and the outside world are not *)
(* transactional: a rollback leaves them as they are.                      *)
(***************************************************************************)
EXTENDS RuleEngine, FiniteSets

CONSTANTS
  Targets,      \* action targets: webhooks, scripts, ...
  Slugs,        \* page slugs
  Keys,         \* idempotency keys an agent may send
  LogStream,    \* the module type append_log writes to
  Iframe,       \* the module type whose content an allowlist restricts
  Proposals,    \* what agents may propose in this instance
  Drafts,       \* rules the administrator may write in this instance
  Patches,      \* forms the administrator may give a target
  InitRules, InitMods, InitPages, InitTgts,   \* the seeded tables
  Seeded,       \* rule ids the seeds have taken
  MaxRequests, MaxRules,   \* bounds: requests minted, rules ever created
  BulkSize,     \* bound: decisions in one bulk call
  MaxJobs       \* bound: background jobs scheduled for one request

Requests == 1..MaxRequests

UpdateActions == {"update_module_data", "update_module_config",
                  "update_module_meta", "update_module_capability"}
ActionTypes == UpdateActions \cup
  {"create_module", "delete_module", "create_page", "fire_action_button"}

\* A proposed payload.  "lines" marks the payload append_log stores, which
\* has no "id" field; "edits" says the patch has a field besides page_id.
Proposal ==
  [action : ActionTypes, target : Modules \cup Targets \cup {Null},
   page : Pages \cup {Null}, mtype : MTypes \cup {Null},
   slug : Slugs \cup {Null}, edits : BOOLEAN, lines : BOOLEAN]

\* Each action's payload has the fields its endpoint requires.
WellFormed(p) ==
  /\ p.lines => p.action = "update_module_data"
  /\ p.action \in UpdateActions \cup {"delete_module"} => p.target \in Modules
  /\ p.action = "create_module" => p.page \in Pages /\ p.mtype \in MTypes
  /\ p.action = "create_page" => p.slug \in Slugs
  /\ p.action = "fire_action_button" => p.target \in Targets

\* A rule as the administrator drafts it; "sweep" is apply_to_pending.
Draft ==
  [agent : Agents \cup {Wild}, action : Actions, mtype : MTypes \cup {Wild},
   module : Modules \cup {Wild}, page : Pages \cup {Wild},
   owner : OwnerScopes, outcome : Outcomes, priority : Nat,
   enabled : BOOLEAN, sweep : BOOLEAN]

\* The content of a module is named by the request that last wrote it.
Module ==
  [live : BOOLEAN, page : Pages, owner : Agents \cup {Null}, mtype : MTypes,
   writer : Requests \cup {Null}]
Page == [live : BOOLEAN, slug : Slugs, owner : Agents \cup {Null},
         home : BOOLEAN]

\* A "deaf" target is an agent_message target that names no agent; the others
\* are webhooks, scripts and remote tools.
Target == [live : BOOLEAN, enabled : BOOLEAN, async : BOOLEAN, deaf : BOOLEAN]

RowStatuses == {"pending", "approved", "applied", "application_failed",
                "denied", "expired"}
ExecResults == {"none", "queued", "ok", "failed"}

Deciders == [who : {"admin", "system"}, rule : {Null}]
              \cup [who : {"rule", "sweep"}, rule : Nat]
NoOne == [who |-> "none", rule |-> Null]
Admin == [who |-> "admin", rule |-> Null]
Expiry == [who |-> "system", rule |-> Null]

\* A row of approval_requests.  exec is execution_result, "none" while
\* executed_at is empty.
Request ==
  [status : RowStatuses, agent : Agents, key : Keys, prop : Proposals,
   by : Deciders \cup {NoOne}, exec : ExecResults]

\* The endpoint a proposal comes in by, as the idempotency table names it.
Tools == {"propose-module", "append-log", "update-module", "delete-module",
          "propose-page", "fire-action"}
ToolOf(p) ==
  CASE p.action = "create_module" -> "propose-module"
    [] p.lines -> "append-log"
    [] p.action \in UpdateActions /\ ~ p.lines -> "update-module"
    [] p.action = "delete_module" -> "delete-module"
    [] p.action = "create_page" -> "propose-page"
    [] p.action = "fire_action_button" -> "fire-action"

\* A row of request_idempotency.
StoredResponse ==
  [agent : Agents, tool : Tools, key : Keys, req : Requests]
Stored(row, r) ==
  [agent |-> row.agent, tool |-> ToolOf(row.prop), key |-> row.key, req |-> r]

\* Events of topic "approvals".
Event == [kind : {"approval_decided", "approval_pending"}, req : Requests,
          status : RowStatuses]
Decided(r, status) ==
  [kind |-> "approval_decided", req |-> r, status |-> status]
Pending(r) == [kind |-> "approval_pending", req |-> r, status |-> "pending"]

\* A module or page a request creates gets the request's own number as its
\* provisional id: ids are never minted twice.
ASSUME PipelineAssumption ==
  /\ MaxRequests \in Nat /\ MaxRules \in Nat /\ BulkSize \in Nat
  /\ MaxJobs \in Nat /\ Seeded \in 0..MaxRules
  /\ Actions = ActionTypes
  /\ Requests \subseteq Modules \cap Pages
  /\ Proposals \subseteq Proposal /\ \A p \in Proposals : WellFormed(p)
  /\ Drafts \subseteq Draft
  /\ Patches \subseteq {t \in Target : t.live}
  /\ Null \notin Nat \cup Drafts
  /\ Null \notin Request \cup Module \cup Page
  /\ InitRules \subseteq Rule
  /\ \A rl \in InitRules : rl.id \in 1..Seeded
  /\ \A rl, other \in InitRules : rl.id = other.id => rl = other
  /\ InitMods \in [Modules -> Module \cup {Null}]
  /\ InitPages \in [Pages -> Page \cup {Null}]
  /\ InitTgts \in [Targets -> Target]
  /\ \A r \in Requests : InitMods[r] = Null /\ InitPages[r] = Null
  /\ \A m \in Modules : InitMods[m] # Null => InitMods[m].writer = Null

VARIABLES
  reqs,     \* approval_requests: a row for each request, or Null
  rules,    \* approval_rules: a set of rules
  mods,     \* modules: a row for each module id, or Null
  pages,    \* pages: a row for each page id, or Null
  tgts,     \* action_targets
  idem,     \* request_idempotency: stored responses
  disk,     \* the committed tables
  tx,       \* the handler in its transaction
  cache,    \* engine._cache: the enabled rules, or NoCache
  jobs,     \* jobs[r]: asyncio tasks waiting to fire for request r
  fired,    \* effects on the outside world per agent and key: 0, 1 or many
  outbox,   \* events queued until commit (publish_after_commit)
  heard,    \* events published so far
  minted,   \* how many request and rule ids have been minted
  phantom   \* history: the cache was filled from a rolled-back rule table

tables == <<reqs, rules, mods, pages, tgts, idem>>
vars == <<reqs, rules, mods, pages, tgts, idem, disk, tx, cache, jobs, fired,
          outbox, heard, minted, phantom>>

-----------------------------------------------------------------------------
Verdicts == {"approve", "deny"}

\* tx.phase: "idle", no handler; "open", a handler with loops left to run in
\* sweep, bulk and undo; "abort", an exception is on its way to get_session.
Transaction ==
  [phase : {"idle", "open", "abort"}, sweep : SUBSET Requests,
   bulk : SUBSET (Requests \X Verdicts), undo : SUBSET Requests]
Open(sweep, bulk, undo) ==
  [phase |-> "open", sweep |-> sweep, bulk |-> bulk, undo |-> undo]
Closing == Open({}, {}, {})
Idle == [Closing EXCEPT !.phase = "idle"]
Aborting == [Closing EXCEPT !.phase = "abort"]

NoLock == tx.phase = "idle"

Committed ==
  [reqs |-> reqs, rules |-> rules, mods |-> mods, pages |-> pages,
   tgts |-> tgts, idem |-> idem]

ModLive(m) == mods[m] # Null /\ mods[m].live
PageLive(p) == pages[p] # Null /\ pages[p].live

\* Mutant of IsPending: a decision that only looks for a finished one.
IsUnapplied(r) == reqs[r] # Null /\ reqs[r].status # "applied"

IsPending(r) == reqs[r] # Null /\ reqs[r].status = "pending"

\* Mutant of Queue: a sweep that selects before the handler's row is flushed.
QueueUnflushed(action, own) ==
  {r \in Requests : IsPending(r) /\ reqs[r].prop.action = action}

\* The rows of one action that a sweep selects: the pending ones, where the
\* handler's own row is no longer pending.
Queue(action, own) ==
  {r \in Requests \ own : IsPending(r) /\ reqs[r].prop.action = action}

-----------------------------------------------------------------------------
(***************************************************************************)
(* The engine: what a handler reads through the cache, and what it leaves  *)
(* there.                                                                  *)
(***************************************************************************)
NoCache == Null

\* get_rule_cache: a miss reads the rule table as this transaction sees it.
RuleBook == IF cache = NoCache THEN Enabled(rules) ELSE cache
Consult == cache' = RuleBook

\* Mutant of Invalidate: a handler that forgets bump_rules_version.
KeepCache == UNCHANGED <<cache, phantom>>

\* bump_rules_version
Invalidate == cache' = NoCache /\ phantom' = FALSE

ByRule(verdict) == [who |-> "rule", rule |-> verdict.rule]
BySweep(verdict) == [who |-> "sweep", rule |-> verdict.rule]
=============================================================================
