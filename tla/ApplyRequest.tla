---------------------------- MODULE ApplyRequest ----------------------------
(***************************************************************************)
(* approval/apply.py: a decided request is carried out.                    *)
(*                                                                         *)
(* Each operator changes the tables for a request r whose row the caller   *)
(* has marked approved, and says in out how the attempt ended: the status  *)
(* and execution result the row is left with, and whether an exception     *)
(* other than ApplyError came out of it.  A "raised" exception leaves the  *)
(* session usable, a "poisoned" one (a failed flush) does not.             *)
(*                                                                         *)
(* A payload was validated when it was proposed.  Of the validation that   *)
(* apply.py repeats, the iframe allowlist can have changed since, and      *)
(* whether it has is left open here.                                       *)
(***************************************************************************)
EXTENDS ApprovalBase

Outcome == [status : {"approved", "applied", "application_failed"},
            exec : ExecResults, fault : {"none", "raised", "poisoned"}]
Applied == [status |-> "applied", exec |-> "none", fault |-> "none"]
Executed(x) == [Applied EXCEPT !.exec = x]
Failed == [Applied EXCEPT !.status = "application_failed"]
Raised(status) == [status |-> status, exec |-> "none", fault |-> "raised"]
Poisoned(status) == [Raised(status) EXCEPT !.fault = "poisoned"]

-----------------------------------------------------------------------------
\* Mutant of ApplyCreateModule: the page is looked at after the insert.
ApplyCreateThenCheck(r, row, out) ==
  /\ row.prop.action = "create_module"
  /\ out = IF PageLive(row.prop.page) THEN Applied ELSE Failed
  /\ mods' = [mods EXCEPT ![r] =
                [live |-> TRUE, page |-> row.prop.page, owner |-> row.agent,
                 mtype |-> row.prop.mtype, writer |-> r]]
  /\ UNCHANGED <<pages, jobs, fired>>

ApplyCreateModule(r, row, out) ==
  /\ row.prop.action = "create_module"
  /\ \/ /\ PageLive(row.prop.page)
        /\ out = Applied
        /\ mods' = [mods EXCEPT ![r] =
                      [live |-> TRUE, page |-> row.prop.page,
                       owner |-> row.agent, mtype |-> row.prop.mtype,
                       writer |-> r]]
     \/ /\ ~ PageLive(row.prop.page) \/ row.prop.mtype = Iframe
        /\ out = Failed
        /\ UNCHANGED mods
  /\ UNCHANGED <<pages, jobs, fired>>

\* A patch that moves the module to a page that is gone fails after its other
\* fields are written; the payload of a queued append has no id to look up.
ApplyUpdateModule(r, row, out) ==
  LET m == row.prop.target
      page == row.prop.page
      written == IF row.prop.edits
                 THEN [mods EXCEPT ![m].writer = r] ELSE mods
  IN  /\ row.prop.action \in UpdateActions
      /\ \/ /\ row.prop.lines
            /\ out = Raised("approved")
            /\ UNCHANGED mods
         \/ /\ ~ row.prop.lines
            /\ ModLive(m) => mods[m].mtype = Iframe /\ row.prop.edits
            /\ out = Failed
            /\ UNCHANGED mods
         \/ /\ ~ row.prop.lines /\ ModLive(m)
            /\ page # Null => PageLive(page)
            /\ out = Applied
            /\ mods' = IF page = Null THEN written
                       ELSE [written EXCEPT ![m].page = page]
         \/ /\ ~ row.prop.lines /\ ModLive(m)
            /\ page # Null /\ ~ PageLive(page)
            /\ out = Failed
            /\ mods' = written
      /\ UNCHANGED <<pages, jobs, fired>>

\* The direct path of append_log, on a module its route has just found live.
ApplyAppendLog(r, row, out) ==
  /\ row.prop.lines
  /\ out = Applied
  /\ mods' = [mods EXCEPT ![row.prop.target].writer = r]
  /\ UNCHANGED <<pages, jobs, fired>>

ApplyDeleteModule(row, out) ==
  LET m == row.prop.target
  IN  /\ row.prop.action = "delete_module"
      /\ \/ /\ ModLive(m)
            /\ out = Applied
            /\ mods' = [mods EXCEPT ![m].live = FALSE]
         \/ /\ ~ ModLive(m)
            /\ out = Failed
            /\ UNCHANGED mods
      /\ UNCHANGED <<pages, jobs, fired>>

\* The slug column is UNIQUE, and deleted pages keep their rows.
SlugTaken(slug) == \E q \in Pages : pages[q] # Null /\ pages[q].slug = slug

ApplyCreatePage(r, row, out) ==
  /\ row.prop.action = "create_page"
  /\ \/ /\ ~ SlugTaken(row.prop.slug)
        /\ out = Applied
        /\ pages' = [pages EXCEPT ![r] =
                       [live |-> TRUE, slug |-> row.prop.slug,
                        owner |-> row.agent, home |-> FALSE]]
     \/ /\ SlugTaken(row.prop.slug)
        /\ out = Poisoned("approved")
        /\ UNCHANGED pages
  /\ UNCHANGED <<mods, jobs, fired>>

-----------------------------------------------------------------------------
\* dispatch_target, on a target that reaches outside: one more effect there,
\* counted up to 2.
Dispatch(agent, key) ==
  fired' = [fired EXCEPT ![<<agent, key>>] = IF @ = 0 THEN 1 ELSE 2]

\* apply_request has marked the row applied before the target is looked at, so
\* an ApplyError raised here makes mark_application_failed raise in its turn.
ApplyFireAction(r, row, out) ==
  LET t == tgts[row.prop.target]
      armed == t.live /\ t.enabled
  IN  /\ row.prop.action = "fire_action_button"
      /\ \/ /\ ~ armed
            /\ out = Raised("applied")
            /\ UNCHANGED <<jobs, fired>>
         \/ /\ armed /\ t.async
            /\ jobs[r] < MaxJobs
            /\ out = Executed("queued")
            /\ jobs' = [jobs EXCEPT ![r] = @ + 1]
            /\ UNCHANGED fired
         \/ /\ armed /\ ~ t.async /\ ~ t.deaf
            /\ \E x \in {"ok", "failed"} : out = Executed(x)
            /\ Dispatch(row.agent, row.key)
            /\ UNCHANGED jobs
         \/ /\ armed /\ ~ t.async /\ t.deaf
            /\ out = Poisoned("applied")
            /\ UNCHANGED <<jobs, fired>>
      /\ UNCHANGED <<mods, pages>>

\* apply_request
Apply(r, row, out) ==
  \/ ApplyCreateModule(r, row, out)
  \/ ApplyUpdateModule(r, row, out)
  \/ ApplyDeleteModule(row, out)
  \/ ApplyCreatePage(r, row, out)
  \/ ApplyFireAction(r, row, out)

Unapplied == UNCHANGED <<mods, pages, jobs, fired>>

\* mark_approved, and what apply_request and its caller make of the attempt.
Settle(row, decider, out) ==
  [row EXCEPT !.status = out.status, !.by = decider,
              !.exec = IF out.exec = "none" THEN @ ELSE out.exec]

\* mark_denied, mark_expired
Turn(row, decider, status) ==
  [row EXCEPT !.status = status, !.by = decider]
=============================================================================
