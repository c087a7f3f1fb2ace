--------------------------- MODULE SubmitRequest ----------------------------
(***************************************************************************)
(* The agents' side: the write endpoints of api/internal.py and            *)
(* approval/orchestrator.py behind them.                                   *)
(*                                                                         *)
(* An endpoint looks its idempotency key up, checks that the proposal's    *)
(* target exists, asks the engine, and stores the request with what came   *)
(* of it.  A replayed key and a refused proposal change nothing; a handler *)
(* that raised stored no response.  append_log repeats the steps of        *)
(* submit_request around its own way of applying.                          *)
(***************************************************************************)
EXTENDS ApplyRequest

ApplyNow(r, row, out) ==
  \/ row.prop.lines /\ ApplyAppendLog(r, row, out)
  \/ ~ row.prop.lines /\ Apply(r, row, out)

\* Mutant of NewRow: the status lifecycle.py draws first.
NewRowCreated(a, p, k) ==
  [status |-> "created", agent |-> a, key |-> k, prop |-> p,
   by |-> NoOne, exec |-> "none"]

NewRow(a, p, k) ==
  [status |-> "pending", agent |-> a, key |-> k, prop |-> p,
   by |-> NoOne, exec |-> "none"]

\* Auto-approved.  An application that failed announces nothing.
SubmitApproved(r, row, verdict) ==
  \E out \in Outcome :
    /\ ApplyNow(r, row, out)
    /\ reqs' = [reqs EXCEPT ![r] = Settle(row, ByRule(verdict), out)]
    /\ \/ /\ out.fault = "none"
          /\ tx' = Closing
          /\ idem' = idem \cup {Stored(row, r)}
          /\ outbox' = IF out.status = "applied"
                       THEN outbox \cup {Decided(r, "applied")} ELSE outbox
       \/ /\ out.fault # "none"
          /\ tx' = Aborting
          /\ UNCHANGED <<idem, outbox>>

SubmitDenied(r, row, verdict) ==
  /\ reqs' = [reqs EXCEPT ![r] = Turn(row, ByRule(verdict), "denied")]
  /\ idem' = idem \cup {Stored(row, r)}
  /\ outbox' = outbox \cup {Decided(r, "denied")}
  /\ tx' = Closing
  /\ Unapplied

SubmitPending(r, row) ==
  /\ reqs' = [reqs EXCEPT ![r] = row]
  /\ idem' = idem \cup {Stored(row, r)}
  /\ outbox' = outbox \cup {Pending(r)}
  /\ tx' = Closing
  /\ Unapplied

\* Mutant of Replayed: the lookup that misses every stored response.
NeverReplayed(row) == FALSE

\* _cached_or_none finds the response stored for this agent, tool and key.
Replayed(row) == \E s \in idem :
  s.agent = row.agent /\ s.tool = ToolOf(row.prop) /\ s.key = row.key

Submit(a, p, k, query) ==
  LET r == minted.reqs + 1
      row == NewRow(a, p, k)
      verdict == Decide(RuleBook, query)
  IN  /\ NoLock
      /\ minted.reqs < MaxRequests
      /\ ~ Replayed(row)
      /\ Consult
      /\ \/ verdict.outcome = "auto_approve" /\ SubmitApproved(r, row, verdict)
         \/ verdict.outcome = "deny" /\ SubmitDenied(r, row, verdict)
         \/ verdict.outcome = "prompt" /\ SubmitPending(r, row)
      /\ minted' = [minted EXCEPT !.reqs = r]
      /\ UNCHANGED <<rules, tgts, disk, heard, phantom>>

-----------------------------------------------------------------------------
Asked(a, p, mtype, module, page, owns) ==
  [agent |-> a, action |-> p.action, mtype |-> mtype, module |-> module,
   page |-> page, owns |-> owns]

\* What update_module, delete_module and append_log tell the engine: the
\* module's own type and page, and whether the agent owns it.
AskedOfModule(a, p) ==
  LET mod == mods[p.target]
  IN  Asked(a, p, mod.mtype, p.target, mod.page, mod.owner = a)

\* propose_module: ownership is that of the page.
ProposeModule(a, p, k) ==
  /\ p.action = "create_module"
  /\ PageLive(p.page)
  /\ Submit(a, p, k, Asked(a, p, p.mtype, minted.reqs + 1, p.page,
                           pages[p.page].owner = a))

UpdateModule(a, p, k) ==
  /\ p.action \in UpdateActions /\ ~ p.lines
  /\ ModLive(p.target)
  /\ Submit(a, p, k, AskedOfModule(a, p))

DeleteModule(a, p, k) ==
  /\ p.action = "delete_module"
  /\ ModLive(p.target)
  /\ Submit(a, p, k, AskedOfModule(a, p))

AppendLog(a, p, k) ==
  /\ p.lines
  /\ ModLive(p.target) /\ mods[p.target].mtype = LogStream
  /\ Submit(a, p, k, AskedOfModule(a, p))

ProposePage(a, p, k) ==
  /\ p.action = "create_page"
  /\ ~ SlugTaken(p.slug)
  /\ Submit(a, p, k, Asked(a, p, Null, Null, Null, TRUE))

\* fire_action: whether some button of the agent's is bound to the target is
\* module data this model does not carry, so either answer is possible.
FireAction(a, p, k) ==
  /\ p.action = "fire_action_button"
  /\ tgts[p.target].live
  /\ \E owns \in BOOLEAN : Submit(a, p, k, Asked(a, p, Null, Null, Null, owns))

AgentStep ==
  \E a \in Agents, p \in Proposals, k \in Keys :
    \/ ProposeModule(a, p, k)
    \/ UpdateModule(a, p, k)
    \/ DeleteModule(a, p, k)
    \/ AppendLog(a, p, k)
    \/ ProposePage(a, p, k)
    \/ FireAction(a, p, k)
=============================================================================
