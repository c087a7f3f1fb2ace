-------------------------- MODULE ApprovalPipeline --------------------------
(***************************************************************************)
(* The whole approval pipeline: the agents' endpoints, the administrator's *)
(* decisions and rules, what else writes the same tables, the background   *)
(* jobs, and the ways a transaction ends.                                  *)
(***************************************************************************)
EXTENDS AdminDecisions

\* expire_stale_pending: rows share one time to live, so the oldest go first.
Expire ==
  /\ NoLock
  /\ \E cutoff \in Requests :
       /\ IsPending(cutoff)
       /\ reqs' = [r \in Requests |->
                     IF r <= cutoff /\ IsPending(r)
                     THEN Turn(reqs[r], Expiry, "expired") ELSE reqs[r]]
  /\ tx' = Closing
  /\ Unapplied
  /\ UNCHANGED <<rules, tgts, idem, disk, cache, outbox, heard, minted,
                 phantom>>

\* pages.create_page, on an id of its own.
AdminCreatePage(p, slug) ==
  /\ NoLock
  /\ p \notin Requests /\ pages[p] = Null
  /\ ~ SlugTaken(slug)
  /\ pages' = [pages EXCEPT ![p] = [live |-> TRUE, slug |-> slug,
                                    owner |-> Null, home |-> FALSE]]
  /\ tx' = Closing
  /\ UNCHANGED <<reqs, rules, mods, tgts, idem, disk, cache, jobs, fired,
                 outbox, heard, minted, phantom>>

\* pages.delete_page: the modules on the page stay.
AdminDeletePage(p) ==
  /\ NoLock
  /\ PageLive(p) /\ ~ pages[p].home
  /\ pages' = [pages EXCEPT ![p].live = FALSE]
  /\ tx' = Closing
  /\ UNCHANGED <<reqs, rules, mods, tgts, idem, disk, cache, jobs, fired,
                 outbox, heard, minted, phantom>>

\* modules.delete_module
AdminDeleteModule(m) ==
  /\ NoLock
  /\ ModLive(m)
  /\ mods' = [mods EXCEPT ![m].live = FALSE]
  /\ tx' = Closing
  /\ UNCHANGED <<reqs, rules, pages, tgts, idem, disk, cache, jobs, fired,
                 outbox, heard, minted, phantom>>

\* action_targets.patch_target: the switch, the mode and the configuration.
PatchTarget(t) ==
  /\ NoLock
  /\ tgts[t].live
  /\ \E form \in Patches : tgts' = [tgts EXCEPT ![t] = form]
  /\ tx' = Closing
  /\ UNCHANGED <<reqs, rules, mods, pages, idem, disk, cache, jobs, fired,
                 outbox, heard, minted, phantom>>

\* action_targets.delete_target
DeleteTarget(t) ==
  /\ NoLock
  /\ tgts[t].live
  /\ tgts' = [tgts EXCEPT ![t].live = FALSE]
  /\ tx' = Closing
  /\ UNCHANGED <<reqs, rules, mods, pages, idem, disk, cache, jobs, fired,
                 outbox, heard, minted, phantom>>

AdminStep ==
  \/ Expire
  \/ \E p \in Pages, slug \in Slugs : AdminCreatePage(p, slug)
  \/ \E p \in Pages : AdminDeletePage(p)
  \/ \E m \in Modules : AdminDeleteModule(m)
  \/ \E t \in Targets : PatchTarget(t) \/ DeleteTarget(t)

-----------------------------------------------------------------------------
\* Mutant of RunJob: the job checks the switch and gives up on a target that
\* is off, but still records a result.
RunJobIfOn(r) ==
  LET t == tgts[reqs[r].prop.target]
  IN  /\ NoLock
      /\ jobs[r] > 0
      /\ jobs' = [jobs EXCEPT ![r] = @ - 1]
      /\ IF t.enabled THEN Dispatch(reqs[r].agent, reqs[r].key)
         ELSE UNCHANGED fired
      /\ \E x \in {"ok", "failed"} : reqs' = [reqs EXCEPT ![r].exec = x]
      /\ tx' = Closing
      /\ UNCHANGED <<rules, mods, pages, tgts, idem, disk, cache, outbox,
                     heard, minted, phantom>>

\* _run of _fire_action_async: a transaction of its own, which dispatches and
\* then records the result on the row, whatever the row's status is by then.
\* A deaf target poisons the job's session.
RunJob(r) ==
  /\ NoLock
  /\ jobs[r] > 0
  /\ jobs' = [jobs EXCEPT ![r] = @ - 1]
  /\ \/ /\ ~ tgts[reqs[r].prop.target].deaf
        /\ Dispatch(reqs[r].agent, reqs[r].key)
        /\ \E x \in {"ok", "failed"} : reqs' = [reqs EXCEPT ![r].exec = x]
        /\ tx' = Closing
     \/ /\ tgts[reqs[r].prop.target].deaf
        /\ tx' = Aborting
        /\ UNCHANGED <<reqs, fired>>
  /\ UNCHANGED <<rules, mods, pages, tgts, idem, disk, cache, outbox, heard,
                 minted, phantom>>

\* The job's BEGIN IMMEDIATE waits busy_timeout for the lock, then the task
\* dies and nothing takes note.
LoseJob(r) ==
  /\ ~ NoLock
  /\ jobs[r] > 0
  /\ jobs' = [jobs EXCEPT ![r] = @ - 1]
  /\ UNCHANGED tables
  /\ UNCHANGED <<disk, tx, cache, fired, outbox, heard, minted, phantom>>

JobStep == \E r \in Requests : RunJob(r) \/ LoseJob(r)

-----------------------------------------------------------------------------
(***************************************************************************)
(* get_session: the end of a transaction; and the end of the process.      *)
(***************************************************************************)
Reload ==
  /\ reqs' = disk.reqs
  /\ rules' = disk.rules
  /\ mods' = disk.mods
  /\ pages' = disk.pages
  /\ tgts' = disk.tgts
  /\ idem' = disk.idem

Commit ==
  /\ tx = Closing
  /\ disk' = Committed
  /\ heard' = heard \cup outbox
  /\ outbox' = {}
  /\ tx' = Idle
  /\ UNCHANGED tables
  /\ UNCHANGED <<cache, jobs, fired, minted, phantom>>

\* Mutant of Rollback: the queued events are published all the same.
RollbackPublishing ==
  /\ tx.phase = "abort"
  /\ Reload
  /\ heard' = heard \cup outbox
  /\ outbox' = {}
  /\ tx' = Idle
  /\ phantom' = (phantom \/ (rules # disk.rules /\ cache # NoCache))
  /\ UNCHANGED <<disk, cache, jobs, fired, minted>>

\* The cache is a module global: what was read inside the transaction stays.
Rollback ==
  /\ tx.phase = "abort"
  /\ Reload
  /\ outbox' = {}
  /\ tx' = Idle
  /\ phantom' = (phantom \/ (rules # disk.rules /\ cache # NoCache))
  /\ UNCHANGED <<disk, cache, jobs, fired, heard, minted>>

Crash ==
  /\ Reload
  /\ tx' = Idle
  /\ cache' = NoCache
  /\ jobs' = [r \in Requests |-> 0]
  /\ outbox' = {}
  /\ phantom' = FALSE
  /\ UNCHANGED <<disk, fired, heard, minted>>

EndStep == Commit \/ Rollback \/ Crash

Init ==
  /\ reqs = [r \in Requests |-> Null]
  /\ rules = InitRules
  /\ mods = InitMods
  /\ pages = InitPages
  /\ tgts = InitTgts
  /\ idem = {}
  /\ disk = Committed
  /\ tx = Idle
  /\ cache = NoCache
  /\ jobs = [r \in Requests |-> 0]
  /\ fired = [u \in Agents \X Keys |-> 0]
  /\ outbox = {}
  /\ heard = {}
  /\ minted = [reqs |-> 0, rules |-> Seeded]
  /\ phantom = FALSE

Next == AgentStep \/ RuleStep \/ DecideStep \/ AdminStep \/ JobStep \/ EndStep

Spec == Init /\ [][Next]_vars

-----------------------------------------------------------------------------
(***************************************************************************)
(* What holds.                                                             *)
(***************************************************************************)
Tables ==
  [reqs : [Requests -> Request \cup {Null}], rules : SUBSET Rule,
   mods : [Modules -> Module \cup {Null}],
   pages : [Pages -> Page \cup {Null}], tgts : [Targets -> Target],
   idem : SUBSET StoredResponse]

\* The types of all that the pipeline keeps, on disk and in memory.
TypeOK ==
  /\ reqs \in [Requests -> Request \cup {Null}]
  /\ rules \subseteq Rule
  /\ mods \in [Modules -> Module \cup {Null}]
  /\ pages \in [Pages -> Page \cup {Null}]
  /\ tgts \in [Targets -> Target]
  /\ idem \subseteq StoredResponse
  /\ disk \in Tables
  /\ tx \in Transaction
  /\ cache \in (SUBSET Rule) \cup {NoCache}
  /\ jobs \in [Requests -> 0..MaxJobs]
  /\ fired \in [Agents \X Keys -> 0..2]
  /\ outbox \subseteq Event /\ heard \subseteq Event
  /\ minted \in [reqs : 0..MaxRequests, rules : 0..MaxRules]
  /\ phantom \in BOOLEAN

\* The rows a sweep or a bulk decision selected before its first step are
\* still pending when the loop comes to them, whatever the handler and the
\* rows before them did (_apply_to_pending, bulk_decide): otherwise
\* mark_approved or mark_denied would raise in mid-loop.
SelectedStillPending ==
  /\ \A r \in tx.sweep : IsPending(r)
  /\ \A v \in tx.bulk : IsPending(v[1])

\* The cache a decision is read from is the table of enabled rules as the
\* deciding transaction sees it, unless a transaction that changed the rules
\* and consulted them was rolled back (bump_rules_version, get_rule_cache).
CacheCoherent == ~ phantom => cache \in {NoCache, Enabled(rules)}

\* A step in which a proposal is decided on arrival.
Arrives(r) == reqs[r] = Null /\ reqs'[r] # Null /\ reqs'[r].by # NoOne

\* The verdict on request r was that of a committed, enabled rule.
BackedByRule(r) ==
  \E rl \in disk.rules :
    /\ rl.id = reqs'[r].by.rule
    /\ rl.enabled /\ rl.action = reqs'[r].prop.action
    /\ rl.outcome = IF reqs'[r].status = "denied" THEN "deny"
                    ELSE "auto_approve"

\* A proposal decided on arrival was decided by a rule that was committed,
\* enabled, of its action, and of the matching outcome, again unless the
\* cache is a phantom (submit_request).
DecidedByCommittedRule ==
  [][\A r \in Requests : (Arrives(r) /\ ~ phantom) => BackedByRule(r)]_vars

\* Whatever was announced is committed: a decided event carries the status the
\* row has and keeps (publish_after_commit, _publish_approval_decided).
EventsTruthful ==
  \A e \in heard :
    /\ disk.reqs[e.req] # Null
    /\ e.kind = "approval_decided" => disk.reqs[e.req].status = e.status

\* Committed decisions of the administrator, or of a rule on arrival, are
\* announced.  Silent by the code: sweeps, expiry, failed applications; and an
\* action that a bulk call left applied but not run.
DecisionsAnnounced ==
  \A r \in Requests :
    LET row == disk.reqs[r]
    IN  (row # Null /\ row.by.who \in {"admin", "rule"}
           /\ (row.status = "denied"
                 \/ (row.status = "applied"
                       /\ row.prop.action # "fire_action_button"))) =>
          Decided(r, row.status) \in heard

\* A module or page with a provisional id exists exactly when the request that
\* carried the id was applied; and whatever a module holds was written by a
\* decided request about that module (apply.py, provisional ids).
ContentHasCause ==
  \A r \in Requests :
    LET row == disk.reqs[r]
        created(action) == row # Null /\ row.prop.action = action
                             /\ row.status = "applied"
    IN  /\ disk.mods[r] # Null <=> created("create_module")
        /\ disk.pages[r] # Null <=> created("create_page")
        /\ \A m \in Modules :
             (disk.mods[m] # Null /\ disk.mods[m].writer = r) =>
                /\ row # Null
                /\ row.status \in {"applied", "application_failed"}
                /\ m = r \/ row.prop.target = m

\* A request is committed half-decided only by a bulk call, and only if it is
\* a queued append or an action whose target was gone or off.
StuckOnlyInBulk ==
  \A r \in Requests :
    LET row == disk.reqs[r]
    IN  (row # Null /\ (row.status = "approved"
                          \/ (row.status = "applied" /\ row.exec = "none"
                                /\ row.prop.action = "fire_action_button"))) =>
          /\ row.by = Admin
          /\ row.prop.lines \/ row.prop.action = "fire_action_button"

\* One committed request per agent, endpoint and idempotency key, whatever
\* was rolled back or lost in between (_cached_or_none, _agent_idem.save).
OneRequestPerKey ==
  \A r, s \in Requests :
    (disk.reqs[r] # Null /\ disk.reqs[s] # Null
       /\ Stored(disk.reqs[r], 0) = Stored(disk.reqs[s], 0)) => r = s

\* A recorded result of an action means that the action was dispatched, in the
\* request or in a job that outlived it (mark_executed, _fire_action_async).
ResultMeansFired ==
  \A r \in Requests :
    LET row == disk.reqs[r]
    IN  (row # Null /\ row.exec \in {"ok", "failed"}) =>
          fired[<<row.agent, row.key>>] > 0

\* The committed rows implement the status machine of lifecycle.py.
L == INSTANCE Lifecycle WITH
       NoDecider <- NoOne,
       status <- [r \in Requests |->
                    IF disk.reqs[r] = Null THEN "created"
                    ELSE disk.reqs[r].status],
       decider <- [r \in Requests |->
                     IF disk.reqs[r] = Null THEN NoOne
                     ELSE disk.reqs[r].by]
ImplementsLifecycle == L!Spec

-----------------------------------------------------------------------------
(***************************************************************************)
(* What the repository says of the program and the code does not do: each  *)
(* is refuted by a run of its own.                                         *)
(***************************************************************************)
\* "Reload the rule cache from disk" (engine._load_cache): a proposal decided
\* on arrival was decided by a committed rule, with no exception.
CacheIsFromDisk == [][\A r \in Requests : Arrives(r) => BackedByRule(r)]_vars

\* "Failures raise ApplyError; callers translate those into a
\* mark_application_failed call" (apply.py): no committed request is left
\* approved and neither applied nor failed.
NeverLeftApproved ==
  \A r \in Requests :
    disk.reqs[r] # Null => disk.reqs[r].status # "approved"

\* "atomic apply of an approved request" (approval/__init__.py): a request
\* whose application failed left nothing behind in any module.
FailedLeavesNoTrace ==
  \A m \in Modules :
    (disk.mods[m] # Null /\ disk.mods[m].writer # Null) =>
      disk.reqs[disk.mods[m].writer].status # "application_failed"

\* "Status stays applied; we set executed_at and execution_result"
\* (lifecycle.mark_executed): only an applied request has been executed.
ExecutedOnlyApplied ==
  \A r \in Requests :
    (disk.reqs[r] # Null /\ disk.reqs[r].exec # "none") =>
      disk.reqs[r].status = "applied"
=============================================================================
