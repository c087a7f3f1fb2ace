--------------------------- MODULE AdminDecisions ---------------------------
(***************************************************************************)
(* The administrator's side: api/approval_rules.py, which writes the rules *)
(* and reverses what they did, and api/approval_requests.py, which decides *)
(* requests one by one, in bulk, and by sweeping the queue through a new   *)
(* rule.                                                                   *)
(***************************************************************************)
EXTENDS SubmitRequest

FromDraft(d, id) ==
  [id |-> id, agent |-> d.agent, action |-> d.action, mtype |-> d.mtype,
   module |-> d.module, page |-> d.page, owner |-> d.owner,
   outcome |-> d.outcome, priority |-> d.priority, enabled |-> d.enabled,
   builtin |-> FALSE]

\* _create_rule_from_draft, and the sweep if the draft asks for one.
AddRule(d, own) ==
  /\ minted.rules < MaxRules
  /\ rules' = rules \cup {FromDraft(d, minted.rules + 1)}
  /\ minted' = [minted EXCEPT !.rules = @ + 1]
  /\ Invalidate
  /\ tx' = IF d.sweep THEN Open(Queue(d.action, own), {}, {}) ELSE Closing

CreateRule(d) ==
  /\ NoLock
  /\ AddRule(d, {})
  /\ Unapplied
  /\ UNCHANGED <<reqs, tgts, idem, disk, outbox, heard>>

ChangeRules(table) ==
  /\ rules' = table
  /\ Invalidate
  /\ Unapplied
  /\ UNCHANGED <<reqs, tgts, idem, disk, outbox, heard, minted>>

\* A patch may switch a rule on or off and change its priority, and rewrite
\* anything but the action of a rule that is not built in.
Rescoped(rl) ==
  IF rl.builtin THEN {}
  ELSE {FromDraft(d, rl.id) : d \in {e \in Drafts : e.action = rl.action}}

Priorities(rl) == {rl.priority} \cup {d.priority : d \in Drafts}

UpdateRule(rl) ==
  /\ NoLock
  /\ \E new \in {rl} \cup Rescoped(rl), on \in BOOLEAN, n \in Priorities(rl) :
       ChangeRules((rules \ {rl})
                     \cup {[new EXCEPT !.enabled = on, !.priority = n]})
  /\ tx' = Closing

DeleteRule(rl) ==
  /\ NoLock
  /\ ~ rl.builtin
  /\ ChangeRules(rules \ {rl})
  /\ tx' = Closing

\* The applied requests the rule decided, at once or in a sweep.
AppliedBy(rl) ==
  {r \in Requests : /\ reqs[r] # Null /\ reqs[r].status = "applied"
                    /\ reqs[r].by.who \in {"rule", "sweep"}
                    /\ reqs[r].by.rule = rl.id}

\* Revoking disables the rule; reverse_decisions also walks the requests it
\* applied in the last 24 hours, which may be any of them.
RevokeRule(rl) ==
  /\ NoLock
  /\ ChangeRules((rules \ {rl}) \cup {[rl EXCEPT !.enabled = FALSE]})
  /\ \E recent \in SUBSET AppliedBy(rl) : tx' = Open({}, {}, recent)

\* _reverse_one: creations are deleted, deletions undone, the rest skipped.
ReverseOne(r) ==
  LET p == reqs[r].prop
  IN  /\ r \in tx.undo
      /\ mods' = CASE p.action = "create_module" ->
                        [mods EXCEPT ![r].live = FALSE]
                   [] p.action = "delete_module" ->
                        [mods EXCEPT ![p.target].live = TRUE]
                   [] OTHER -> mods
      /\ pages' = IF p.action = "create_page"
                  THEN [pages EXCEPT ![r].live = FALSE] ELSE pages
      /\ tx' = [tx EXCEPT !.undo = @ \ {r}]
      /\ UNCHANGED <<reqs, rules, tgts, idem, disk, cache, jobs, fired,
                     outbox, heard, minted, phantom>>

RuleStep ==
  \/ \E d \in Drafts : CreateRule(d)
  \/ \E rl \in rules : UpdateRule(rl) \/ DeleteRule(rl) \/ RevokeRule(rl)
  \/ \E r \in Requests : ReverseOne(r)

-----------------------------------------------------------------------------
\* The optional create_rule of an approve or deny body.
MaybeAddRule(d, own) ==
  \/ d = Null /\ tx' = Closing /\ UNCHANGED <<rules, cache, minted, phantom>>
  \/ d # Null /\ AddRule(d, own)

Approve(r, d) ==
  /\ NoLock
  /\ IsPending(r)
  /\ \E out \in Outcome :
       /\ Apply(r, reqs[r], out)
       /\ reqs' = [reqs EXCEPT ![r] = Settle(@, Admin, out)]
       /\ \/ /\ out.fault = "none"
             /\ outbox' = outbox \cup {Decided(r, out.status)}
             /\ MaybeAddRule(d, {r})
          \/ /\ out.fault # "none"
             /\ tx' = Aborting
             /\ UNCHANGED <<rules, cache, outbox, minted, phantom>>
  /\ UNCHANGED <<tgts, idem, disk, heard>>

Deny(r, d) ==
  /\ NoLock
  /\ IsPending(r)
  /\ reqs' = [reqs EXCEPT ![r] = Turn(@, Admin, "denied")]
  /\ outbox' = outbox \cup {Decided(r, "denied")}
  /\ MaybeAddRule(d, {r})
  /\ Unapplied
  /\ UNCHANGED <<tgts, idem, disk, heard>>

\* bulk_decide: a decision on each of some pending rows, one step per row.
\* Rows that are missing or not pending are skipped by the code and left out
\* of the body here.
OpenBulk ==
  /\ NoLock
  /\ \E body \in SUBSET ({r \in Requests : IsPending(r)} \X Verdicts) :
       /\ Cardinality(body) \in 1..BulkSize
       /\ \A v, w \in body : v[1] = w[1] => v = w
       /\ tx' = Open({}, body, {})
  /\ UNCHANGED tables
  /\ UNCHANGED <<disk, cache, jobs, fired, outbox, heard, minted, phantom>>

\* A raised exception is caught and the row keeps the status it had reached;
\* a poisoned session fails the whole call.
BulkApprove(r) ==
  /\ <<r, "approve">> \in tx.bulk
  /\ \E out \in Outcome :
       /\ Apply(r, reqs[r], out)
       /\ reqs' = [reqs EXCEPT ![r] = Settle(@, Admin, out)]
       /\ outbox' = IF out.fault = "none" /\ out.status = "applied"
                    THEN outbox \cup {Decided(r, "applied")} ELSE outbox
       /\ tx' = IF out.fault = "poisoned" THEN Aborting
                ELSE [tx EXCEPT !.bulk = @ \ {<<r, "approve">>}]
  /\ UNCHANGED <<rules, tgts, idem, disk, cache, heard, minted, phantom>>

\* Mutant of BulkDeny: the denial is not announced.
BulkDenyQuietly(r) ==
  /\ <<r, "deny">> \in tx.bulk
  /\ reqs' = [reqs EXCEPT ![r] = Turn(@, Admin, "denied")]
  /\ tx' = [tx EXCEPT !.bulk = @ \ {<<r, "deny">>}]
  /\ Unapplied
  /\ UNCHANGED <<rules, tgts, idem, disk, cache, outbox, heard, minted,
                 phantom>>

BulkDeny(r) ==
  /\ <<r, "deny">> \in tx.bulk
  /\ reqs' = [reqs EXCEPT ![r] = Turn(@, Admin, "denied")]
  /\ outbox' = outbox \cup {Decided(r, "denied")}
  /\ tx' = [tx EXCEPT !.bulk = @ \ {<<r, "deny">>}]
  /\ Unapplied
  /\ UNCHANGED <<rules, tgts, idem, disk, cache, heard, minted, phantom>>

-----------------------------------------------------------------------------
(***************************************************************************)
(* _apply_to_pending: each pending row of the new rule's action goes       *)
(* through the engine again, on inputs rebuilt from its row: the page is   *)
(* the payload's page_id, which only a module creation has, and ownership  *)
(* is that of the module if there is one.  No row order is specified.      *)
(***************************************************************************)
AskedInSweep(r, row) ==
  LET p == row.prop
      m == IF p.action = "create_module" THEN r ELSE p.target
      ofModule == p.action \notin {"create_page", "fire_action_button"}
      known == ofModule /\ mods[m] # Null
  IN  Asked(row.agent, p,
            IF p.action = "create_module" THEN p.mtype
            ELSE IF known THEN mods[m].mtype ELSE Null,
            IF ofModule THEN m ELSE Null,
            IF p.action = "create_module" THEN p.page ELSE Null,
            known /\ mods[m].owner = row.agent)

\* Mutant of SweepApproved: a sweep that catches every exception, as
\* bulk_decide does.
SweepSwallowing(r, verdict) ==
  \E out \in Outcome :
    /\ Apply(r, reqs[r], out)
    /\ reqs' = [reqs EXCEPT ![r] = Settle(@, BySweep(verdict), out)]
    /\ tx' = IF out.fault = "poisoned" THEN Aborting
             ELSE [tx EXCEPT !.sweep = @ \ {r}]

SweepApproved(r, verdict) ==
  \E out \in Outcome :
    /\ Apply(r, reqs[r], out)
    /\ reqs' = [reqs EXCEPT ![r] = Settle(@, BySweep(verdict), out)]
    /\ tx' = IF out.fault = "none" THEN [tx EXCEPT !.sweep = @ \ {r}]
             ELSE Aborting

SweepDenied(r, verdict) ==
  /\ reqs' = [reqs EXCEPT ![r] = Turn(@, BySweep(verdict), "denied")]
  /\ tx' = [tx EXCEPT !.sweep = @ \ {r}]
  /\ Unapplied

SweepSkipped(r) ==
  /\ tx' = [tx EXCEPT !.sweep = @ \ {r}]
  /\ Unapplied
  /\ UNCHANGED reqs

Sweep(r) ==
  LET verdict == Decide(RuleBook, AskedInSweep(r, reqs[r]))
  IN  /\ r \in tx.sweep
      /\ Consult
      /\ \/ verdict.outcome = "auto_approve" /\ SweepApproved(r, verdict)
         \/ verdict.outcome = "deny" /\ SweepDenied(r, verdict)
         \/ verdict.outcome = "prompt" /\ SweepSkipped(r)
      /\ UNCHANGED <<rules, tgts, idem, disk, outbox, heard, minted, phantom>>

DecideStep ==
  \/ OpenBulk
  \/ \E r \in Requests :
       \/ \E d \in Drafts \cup {Null} : Approve(r, d) \/ Deny(r, d)
       \/ BulkApprove(r)
       \/ BulkDeny(r)
       \/ Sweep(r)
=============================================================================
