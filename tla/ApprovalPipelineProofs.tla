----------------------- MODULE ApprovalPipelineProofs -----------------------
(***************************************************************************)
(* Two inductive invariants of the pipeline and what follows from them.    *)
(*                                                                         *)
(* Inv is about one transaction at a time: the types, the coherence of the *)
(* rule cache, the loops that meet only pending rows, and that decisions   *)
(* on arrival are those of committed rules.                                *)
(*                                                                         *)
(* History, on top of it, is about a request from its submission to what   *)
(* is told of it: events, stored responses, results and content, and that  *)
(* the committed rows implement the status machine of lifecycle.py.        *)
(***************************************************************************)
EXTENDS ApprovalPipeline, RuleEngineProofs

-----------------------------------------------------------------------------
\* Rows of approval_requests keep their type as a request is decided.
LEMMA SettleType ==
  ASSUME NEW row \in Request, NEW decider \in Deciders, NEW out \in Outcome
  PROVE  Settle(row, decider, out) \in Request
BY DEF Settle, Request, Outcome, RowStatuses, ExecResults

\* A row keeps its type as it is denied or expires.
LEMMA TurnType ==
  ASSUME NEW row \in Request, NEW decider \in Deciders,
         NEW status \in {"denied", "expired"}
  PROVE  Turn(row, decider, status) \in Request
BY DEF Turn, Request, RowStatuses

\* A new row has its type and is about what was proposed.
LEMMA NewRowType ==
  ASSUME NEW a \in Agents, NEW p \in Proposals, NEW k \in Keys
  PROVE  /\ NewRow(a, p, k) \in Request
         /\ NewRow(a, p, k).prop = p
         /\ NewRow(a, p, k).agent = a
         /\ NewRow(a, p, k).key = k
BY DEF NewRow, Request, RowStatuses, ExecResults

\* A row keeps its type as a job records its result (mark_executed).
LEMMA ExecType ==
  ASSUME NEW row \in Request, NEW x \in ExecResults
  PROVE  [row EXCEPT !.exec = x] \in Request
BY DEF Request

\* Everyone who decides a request is a decider; nobody is not one.
LEMMA DeciderTypes ==
  /\ Admin \in Deciders /\ Expiry \in Deciders /\ NoOne \notin Deciders
  /\ \A rl \in Rule : ByRule([outcome |-> rl.outcome, rule |-> rl.id]) \in Deciders
  /\ \A rl \in Rule : BySweep([outcome |-> rl.outcome, rule |-> rl.id]) \in Deciders
BY DEF Admin, Expiry, NoOne, Deciders, ByRule, BySweep, Rule

\* A proposal is well formed: it was validated when it came in.
LEMMA ProposalType ==
  ASSUME NEW p \in Proposals
  PROVE  p \in Proposal /\ WellFormed(p)
BY PipelineAssumption

\* The stored response of a request has its type (_agent_idem.save).
LEMMA StoredType ==
  ASSUME NEW row \in Request, NEW r \in Requests
  PROVE  Stored(row, r) \in StoredResponse
<1>1. row.agent \in Agents /\ row.key \in Keys /\ row.prop \in Proposals
  BY DEF Request
<1>2. row.prop.action \in ActionTypes /\ row.prop.lines \in BOOLEAN
  BY <1>1, ProposalType DEF Proposal
<1>3. row.prop.lines => row.prop.action = "update_module_data"
  BY <1>1, ProposalType DEF WellFormed
<1>4. ToolOf(row.prop) \in Tools
  BY <1>2, <1>3 DEF ToolOf, Tools, ActionTypes, UpdateActions
<1>5. QED
  BY <1>1, <1>4 DEF Stored, StoredResponse

\* The events of a request have their type.
LEMMA EventTypes ==
  ASSUME NEW r \in Requests
  PROVE  /\ \A s \in RowStatuses : Decided(r, s) \in Event
         /\ Pending(r) \in Event
BY DEF Decided, Pending, Event, RowStatuses

-----------------------------------------------------------------------------
\* Modules and pages keep their type as their fields are written.
LEMMA ModuleEdits ==
  ASSUME NEW mod \in Module
  PROVE  /\ \A b \in BOOLEAN : [mod EXCEPT !.live = b] \in Module
         /\ \A r \in Requests : [mod EXCEPT !.writer = r] \in Module
         /\ \A p \in Pages : [mod EXCEPT !.page = p] \in Module
BY DEF Module

\* A page keeps its type as it is deleted or restored.
LEMMA PageEdits ==
  ASSUME NEW page \in Page, NEW b \in BOOLEAN
  PROVE  [page EXCEPT !.live = b] \in Page
BY DEF Page

-----------------------------------------------------------------------------
\* The contents of the tables that applying a request may change.
ContentOK ==
  /\ mods \in [Modules -> Module \cup {Null}]
  /\ pages \in [Pages -> Page \cup {Null}]
  /\ jobs \in [Requests -> 0..MaxJobs]
  /\ fired \in [Agents \X Keys -> 0..2]

\* Counting a dispatch keeps the counters within their bound.
LEMMA DispatchType ==
  ASSUME ContentOK, NEW a \in Agents, NEW k \in Keys, Dispatch(a, k)
  PROVE  fired' \in [Agents \X Keys -> 0..2]
BY DEF Dispatch, ContentOK

\* A step replaces at most one row by a row, and removes none.
OneModule ==
  \/ UNCHANGED mods
  \/ \E m \in Modules, new \in Module : mods' = [mods EXCEPT ![m] = new]
OnePage ==
  \/ UNCHANGED pages
  \/ \E p \in Pages, new \in Page : pages' = [pages EXCEPT ![p] = new]
Kept ==
  /\ \A m \in Modules : mods[m] # Null => mods'[m] # Null
  /\ \A p \in Pages : pages[p] # Null => pages'[p] # Null

\* Such a step keeps the types of the tables and every row in them.
LEMMA RowsKept ==
  ASSUME ContentOK, OneModule, OnePage
  PROVE  /\ mods' \in [Modules -> Module \cup {Null}]
         /\ pages' \in [Pages -> Page \cup {Null}]
         /\ Kept
<1>1. Null \notin Module /\ Null \notin Page
  BY PipelineAssumption
<1>2. /\ mods' \in [Modules -> Module \cup {Null}]
      /\ \A m \in Modules : mods[m] # Null => mods'[m] # Null
  BY <1>1 DEF OneModule, ContentOK
<1>3. /\ pages' \in [Pages -> Page \cup {Null}]
      /\ \A p \in Pages : pages[p] # Null => pages'[p] # Null
  BY <1>1 DEF OnePage, ContentOK
<1>4. QED
  BY <1>2, <1>3 DEF Kept

\* The row that an applied request is about exists.
Grounded(r, row, ms, ps) ==
  /\ row.prop.action = "create_module" => ms[r] # Null
  /\ row.prop.action = "delete_module" => ms[row.prop.target] # Null
  /\ row.prop.action = "create_page" => ps[r] # Null

\* Whatever a request does, it writes one well-formed row at most, and one
\* that was applied leaves the row it is about (apply_request).
LEMMA ApplyEffect ==
  ASSUME ContentOK, NEW r \in Requests, NEW row \in Request,
         NEW out \in Outcome, Apply(r, row, out)
  PROVE  /\ OneModule /\ OnePage
         /\ jobs' \in [Requests -> 0..MaxJobs]
         /\ fired' \in [Agents \X Keys -> 0..2]
         /\ out.status = "applied" => Grounded(r, row, mods', pages')
<1> DEFINE m == row.prop.target
           Goal == /\ OneModule /\ OnePage
                   /\ jobs' \in [Requests -> 0..MaxJobs]
                   /\ fired' \in [Agents \X Keys -> 0..2]
                   /\ out.status = "applied" =>
                        Grounded(r, row, mods', pages')
<1>1. row.prop \in Proposals /\ row.agent \in Agents /\ row.key \in Keys
  BY DEF Request
<1>2. row.prop \in Proposal /\ WellFormed(row.prop)
  BY <1>1, ProposalType
<1>3. r \in Modules /\ r \in Pages
  BY PipelineAssumption
<1>4. Null \notin Module /\ Null \notin Page
  BY PipelineAssumption
<1>5. CASE ApplyCreateModule(r, row, out)
  <2> DEFINE new == [live |-> TRUE, page |-> row.prop.page,
                     owner |-> row.agent, mtype |-> row.prop.mtype,
                     writer |-> r]
  <2>1. row.prop.page \in Pages /\ row.prop.mtype \in MTypes
    BY <1>2, <1>5 DEF WellFormed, ApplyCreateModule
  <2>2. new \in Module
    BY <1>1, <2>1 DEF Module
  <2>3. \/ out = Failed /\ UNCHANGED mods
        \/ mods' = [mods EXCEPT ![r] = new]
    BY <1>5 DEF ApplyCreateModule
  <2>4. UNCHANGED <<pages, jobs, fired>>
    BY <1>5 DEF ApplyCreateModule
  <2> HIDE DEF new
  <2>5. OneModule /\ OnePage
    BY <1>3, <2>2, <2>3, <2>4 DEF OneModule, OnePage
  <2>6. out.status = "applied" => mods'[r] # Null
    BY <1>3, <1>4, <2>2, <2>3 DEF ContentOK, Failed, Applied
  <2>7. row.prop.action = "create_module"
    BY <1>5 DEF ApplyCreateModule
  <2>8. QED
    BY <2>4, <2>5, <2>6, <2>7 DEF ContentOK, Grounded
<1>6. CASE ApplyUpdateModule(r, row, out)
  <2> DEFINE written == IF row.prop.edits
                        THEN [mods EXCEPT ![m].writer = r] ELSE mods
             edited == IF row.prop.edits
                       THEN [mods[m] EXCEPT !.writer = r] ELSE mods[m]
             page == row.prop.page
  <2>1. page \in Pages \cup {Null} /\ m \in Modules
    BY <1>2, <1>6 DEF Proposal, WellFormed, ApplyUpdateModule
  <2>2. ModLive(m) => mods[m] \in Module
    BY <2>1 DEF ModLive, ContentOK
  <2>3. ModLive(m) => edited \in Module
    BY <2>2, ModuleEdits
  <2>4. ModLive(m) /\ page # Null => [edited EXCEPT !.page = page] \in Module
    BY <2>1, <2>3, ModuleEdits
  <2>5. written = [mods EXCEPT ![m] = edited]
    BY <2>1 DEF ContentOK
  <2>6. [written EXCEPT ![m].page = page]
          = [mods EXCEPT ![m] = [edited EXCEPT !.page = page]]
    BY <2>1, <2>5 DEF ContentOK
  <2>7. \/ UNCHANGED mods
        \/ ModLive(m) /\ mods' = written
        \/ /\ ModLive(m) /\ page # Null
           /\ mods' = [written EXCEPT ![m].page = page]
    BY <1>6 DEF ApplyUpdateModule
  <2> HIDE DEF written, edited
  <2>8. OneModule
    BY <2>1, <2>3, <2>4, <2>5, <2>6, <2>7 DEF OneModule
  <2>9. UNCHANGED <<pages, jobs, fired>> /\ row.prop.action \in UpdateActions
    BY <1>6 DEF ApplyUpdateModule
  <2>10. QED
    BY <2>8, <2>9 DEF ContentOK, OnePage, Grounded, UpdateActions
<1>7. CASE ApplyDeleteModule(row, out)
  <2>1. m \in Modules
    BY <1>2, <1>7 DEF WellFormed, ApplyDeleteModule
  <2>2. ModLive(m) => [mods[m] EXCEPT !.live = FALSE] \in Module
    BY <2>1, ModuleEdits DEF ModLive, ContentOK
  <2>3. \/ out = Failed /\ UNCHANGED mods
        \/ /\ ModLive(m)
           /\ mods' = [mods EXCEPT ![m] = [mods[m] EXCEPT !.live = FALSE]]
    BY <1>7, <2>1 DEF ApplyDeleteModule, ContentOK
  <2>4. OneModule
    BY <2>1, <2>2, <2>3 DEF OneModule
  <2>5. out.status = "applied" => mods'[m] # Null
    BY <1>4, <2>1, <2>2, <2>3 DEF ContentOK, Failed, Applied
  <2>6. UNCHANGED <<pages, jobs, fired>> /\ row.prop.action = "delete_module"
    BY <1>7 DEF ApplyDeleteModule
  <2>7. QED
    BY <2>4, <2>5, <2>6 DEF ContentOK, OnePage, Grounded
<1>8. CASE ApplyCreatePage(r, row, out)
  <2> DEFINE new == [live |-> TRUE, slug |-> row.prop.slug,
                     owner |-> row.agent, home |-> FALSE]
  <2>1. row.prop.slug \in Slugs
    BY <1>2, <1>8 DEF WellFormed, ApplyCreatePage
  <2>2. new \in Page
    BY <1>1, <2>1 DEF Page
  <2>3. \/ out = Poisoned("approved") /\ UNCHANGED pages
        \/ pages' = [pages EXCEPT ![r] = new]
    BY <1>8 DEF ApplyCreatePage
  <2>4. UNCHANGED <<mods, jobs, fired>> /\ row.prop.action = "create_page"
    BY <1>8 DEF ApplyCreatePage
  <2> HIDE DEF new
  <2>5. OneModule /\ OnePage
    BY <1>3, <2>2, <2>3, <2>4 DEF OneModule, OnePage
  <2>6. out.status = "applied" => pages'[r] # Null
    BY <1>3, <1>4, <2>2, <2>3 DEF ContentOK, Poisoned, Raised
  <2>7. QED
    BY <2>4, <2>5, <2>6 DEF ContentOK, Grounded
<1>9. CASE ApplyFireAction(r, row, out)
  <2>1. jobs' \in [Requests -> 0..MaxJobs]
    BY <1>9, PipelineAssumption DEF ApplyFireAction, ContentOK
  <2>2. fired' \in [Agents \X Keys -> 0..2]
    BY <1>1, <1>9, DispatchType DEF ApplyFireAction, ContentOK
  <2>3. /\ UNCHANGED <<mods, pages>>
        /\ row.prop.action = "fire_action_button"
    BY <1>9 DEF ApplyFireAction
  <2>4. QED
    BY <2>1, <2>2, <2>3 DEF OneModule, OnePage, Grounded
<1>10. QED
  BY <1>5, <1>6, <1>7, <1>8, <1>9 DEF Apply

\* The same of the direct path of append_log.
LEMMA ApplyNowEffect ==
  ASSUME ContentOK, NEW r \in Requests, NEW row \in Request,
         NEW out \in Outcome, ApplyNow(r, row, out),
         row.prop.lines => ModLive(row.prop.target)
  PROVE  /\ OneModule /\ OnePage
         /\ jobs' \in [Requests -> 0..MaxJobs]
         /\ fired' \in [Agents \X Keys -> 0..2]
         /\ out.status = "applied" => Grounded(r, row, mods', pages')
<1> DEFINE m == row.prop.target
<1>1. CASE row.prop.lines /\ ApplyAppendLog(r, row, out)
  <2>1. row.prop \in Proposals
    BY DEF Request
  <2>2. WellFormed(row.prop)
    BY <2>1, ProposalType
  <2>3. m \in Modules /\ row.prop.action = "update_module_data"
    BY <1>1, <2>2 DEF WellFormed, UpdateActions
  <2>4. [mods[m] EXCEPT !.writer = r] \in Module
    BY <1>1, <2>3, ModuleEdits DEF ModLive, ContentOK
  <2>5. /\ mods' = [mods EXCEPT ![m] = [mods[m] EXCEPT !.writer = r]]
        /\ UNCHANGED <<pages, jobs, fired>>
    BY <1>1, <2>3 DEF ApplyAppendLog, ContentOK
  <2>6. QED
    BY <2>3, <2>4, <2>5 DEF OneModule, OnePage, ContentOK, Grounded
<1>2. CASE Apply(r, row, out)
  BY <1>2, ApplyEffect
<1>3. QED
  BY <1>1, <1>2 DEF ApplyNow

-----------------------------------------------------------------------------
\* A verdict other than a prompt names a decider.
LEMMA VerdictType ==
  ASSUME NEW rs, Table(rs), NEW q,
         Decide(rs, q).outcome # "prompt"
  PROVE  /\ ByRule(Decide(rs, q)) \in Deciders
         /\ BySweep(Decide(rs, q)) \in Deciders
<1>1. PICK rl \in Candidates(rs, q) :
         Decide(rs, q) = [outcome |-> rl.outcome, rule |-> rl.id]
  BY DecideSound
<1>2. rl \in Rule
  BY DEF Candidates, Table
<1>3. QED
  BY <1>1, <1>2, DeciderTypes

-----------------------------------------------------------------------------
(***************************************************************************)
(* The first invariant.                                                    *)
(***************************************************************************)
\* A set of rules whose ids are distinct and were minted.
Numbered(S) ==
  /\ S \subseteq Rule
  /\ \A rl \in S : rl.id <= minted.rules
  /\ \A rl, other \in S : rl.id = other.id => rl = other

RulesOK ==
  /\ Numbered(rules) /\ Numbered(disk.rules)
  /\ cache # NoCache => Numbered(cache)
  /\ CacheCoherent

\* Between handlers the working tables are the committed ones.
Settled == NoLock => disk = Committed

\* Committed rows stay, and a row that is not committed yet belongs to a
\* handler that has nothing left to do.
RowsOnDisk ==
  \A r \in Requests :
    /\ disk.reqs[r] # Null => reqs[r] # Null
    /\ (reqs[r] # Null /\ disk.reqs[r] = Null) => tx \in {Closing, Aborting}

\* The loops of a handler: one verdict per row, reversals of applied requests.
LoopsOK ==
  /\ tx.bulk = {} \/ tx.sweep = {}
  /\ \A v, w \in tx.bulk : v[1] = w[1] => v = w
  /\ \A r \in tx.undo : reqs[r] # Null /\ reqs[r].status = "applied"
  /\ tx.phase # "open" => tx.sweep = {} /\ tx.bulk = {} /\ tx.undo = {}

\* A job's row exists, and outlives a rollback.
JobsHaveRows ==
  \A r \in Requests : jobs[r] > 0 =>
    reqs[r] # Null /\ (disk.reqs[r] # Null \/ tx = Closing)

\* What an applied request is about exists, in the tables of the handler and
\* in the committed ones.
AllGrounded(rows, ms, ps) ==
  \A r \in Requests :
    (rows[r] # Null /\ rows[r].status = "applied") =>
      Grounded(r, rows[r], ms, ps)

RowsOK == RowsOnDisk /\ LoopsOK /\ SelectedStillPending /\ JobsHaveRows
ContentKept ==
  AllGrounded(reqs, mods, pages)
    /\ AllGrounded(disk.reqs, disk.mods, disk.pages)

Inv == TypeOK /\ RulesOK /\ Settled /\ RowsOK /\ ContentKept

-----------------------------------------------------------------------------
(***************************************************************************)
(* What a step can do to the rules.                                        *)
(***************************************************************************)
\* Every endpoint of the agents comes down to a submission, on a query of the
\* proposal's own action (internal.py).
LEMMA AgentSubmits ==
  ASSUME AgentStep
  PROVE  \E a \in Agents, p \in Proposals, k \in Keys :
           /\ p.lines => ModLive(p.target)
           /\ \E q : q.action = p.action /\ Submit(a, p, k, q)
<1>1. PICK a \in Agents, p \in Proposals, k \in Keys :
        \/ ProposeModule(a, p, k) \/ UpdateModule(a, p, k)
        \/ DeleteModule(a, p, k) \/ AppendLog(a, p, k)
        \/ ProposePage(a, p, k) \/ FireAction(a, p, k)
  BY DEF AgentStep
<1>2. WellFormed(p)
  BY ProposalType
<1>3. CASE ProposeModule(a, p, k)
  BY <1>2, <1>3 DEF ProposeModule, Asked, WellFormed, UpdateActions
<1>4. CASE UpdateModule(a, p, k)
  BY <1>4 DEF UpdateModule, AskedOfModule, Asked
<1>5. CASE DeleteModule(a, p, k)
  BY <1>5 DEF DeleteModule, AskedOfModule, Asked
<1>6. CASE AppendLog(a, p, k)
  BY <1>6 DEF AppendLog, AskedOfModule, Asked
<1>7. CASE ProposePage(a, p, k)
  BY <1>2, <1>7 DEF ProposePage, Asked, WellFormed, UpdateActions
<1>8. CASE FireAction(a, p, k)
  BY <1>2, <1>8 DEF FireAction, Asked, WellFormed, UpdateActions
<1>9. QED
  BY <1>1, <1>3, <1>4, <1>5, <1>6, <1>7, <1>8

\* The rules stay, and the cache at most loads them.
RulesRead ==
  /\ cache' \in {cache, RuleBook}
  /\ UNCHANGED <<rules, disk, phantom>> /\ minted'.rules = minted.rules

\* A rule with a fresh id is added, and the cache is dropped.
RuleAdded ==
  /\ minted.rules < MaxRules
  /\ \E d \in Drafts :
       rules' = rules \cup {FromDraft(d, minted.rules + 1)}
  /\ minted'.rules = minted.rules + 1
  /\ cache' = NoCache /\ UNCHANGED disk

\* A rule is rewritten or removed, and the cache is dropped.
RuleChanged ==
  /\ \E rl \in rules :
       \/ rules' = rules \ {rl}
       \/ \E new \in Rule :
            new.id = rl.id /\ rules' = (rules \ {rl}) \cup {new}
  /\ cache' = NoCache /\ UNCHANGED <<disk, minted>>

\* Creating a rule is one of the things a step does to the rules.
LEMMA AddRuleEffect ==
  ASSUME TypeOK, NEW d \in Drafts, NEW own, AddRule(d, own), UNCHANGED disk
  PROVE  RuleAdded
BY DEF AddRule, RuleAdded, Invalidate, TypeOK

\* So is the rule that may come with an approval or a denial.
LEMMA MaybeAddRuleEffect ==
  ASSUME TypeOK, NEW d \in Drafts \cup {Null}, NEW own,
         MaybeAddRule(d, own), UNCHANGED disk
  PROVE  RuleAdded \/ RulesRead
<1>1. Null \notin Drafts
  BY PipelineAssumption
<1>2. QED
  BY <1>1, AddRuleEffect DEF MaybeAddRule, RulesRead

\* A rule made from a draft has its type and the id it was given.
LEMMA DraftType ==
  ASSUME NEW d \in Drafts, NEW n \in Nat
  PROVE  FromDraft(d, n) \in Rule /\ FromDraft(d, n).id = n
<1>1. d \in Draft
  BY PipelineAssumption
<1>2. QED
  BY <1>1 DEF FromDraft, Rule, Draft

\* A patch keeps a rule's id (update_rule).
LEMMA RevisionType ==
  ASSUME TypeOK, NEW rl \in rules, NEW old \in {rl} \cup Rescoped(rl),
         NEW on \in BOOLEAN, NEW n \in Priorities(rl)
  PROVE  /\ [old EXCEPT !.enabled = on, !.priority = n] \in Rule
         /\ [old EXCEPT !.enabled = on, !.priority = n].id = rl.id
<1>1. rl \in Rule
  BY DEF TypeOK
<1>2. rl.id \in Nat /\ rl.priority \in Nat
  BY <1>1 DEF Rule
<1>3. old \in Rule /\ old.id = rl.id
  BY <1>1, <1>2, DraftType DEF Rescoped
<1>4. n \in Nat
  BY <1>2, PipelineAssumption DEF Draft, Priorities
<1>5. QED
  BY <1>3, <1>4 DEF Rule

\* The rule endpoints add, change or read rules (approval_rules.py).
LEMMA RuleStepEffect ==
  ASSUME TypeOK, RuleStep
  PROVE  RuleAdded \/ RuleChanged \/ RulesRead
<1>1. CASE \E d \in Drafts : CreateRule(d)
  <2>1. PICK d \in Drafts : AddRule(d, {}) /\ UNCHANGED disk
    BY <1>1 DEF CreateRule
  <2>2. QED
    BY <2>1, AddRuleEffect
<1>2. ASSUME NEW rl \in rules, UpdateRule(rl)
      PROVE  RuleChanged
  <2>1. PICK old \in {rl} \cup Rescoped(rl), on \in BOOLEAN,
             n \in Priorities(rl) :
          ChangeRules((rules \ {rl})
                        \cup {[old EXCEPT !.enabled = on, !.priority = n]})
    BY <1>2 DEF UpdateRule
  <2> DEFINE new == [old EXCEPT !.enabled = on, !.priority = n]
  <2>2. new \in Rule /\ new.id = rl.id
    BY <2>1, RevisionType
  <2> HIDE DEF new
  <2>3. rules' = (rules \ {rl}) \cup {new}
    BY <2>1 DEF ChangeRules, new
  <2>4. QED
    BY <2>1, <2>2, <2>3 DEF ChangeRules, RuleChanged, Invalidate
<1>3. ASSUME NEW rl \in rules, DeleteRule(rl)
      PROVE  RuleChanged
  BY <1>3 DEF DeleteRule, ChangeRules, RuleChanged, Invalidate
<1>4. ASSUME NEW rl \in rules, RevokeRule(rl)
      PROVE  RuleChanged
  <2> DEFINE new == [rl EXCEPT !.enabled = FALSE]
  <2>1. new \in Rule /\ new.id = rl.id
    BY DEF TypeOK, Rule
  <2>2. ChangeRules((rules \ {rl}) \cup {new})
    BY <1>4 DEF RevokeRule
  <2> HIDE DEF new
  <2>3. QED
    BY <2>1, <2>2 DEF ChangeRules, RuleChanged, Invalidate
<1>5. ASSUME NEW r \in Requests, ReverseOne(r)
      PROVE  RulesRead
  BY <1>5 DEF ReverseOne, RulesRead
<1>6. QED
  BY <1>1, <1>2, <1>3, <1>4, <1>5 DEF RuleStep

\* Deciding pending requests reads the rules, or adds one.
LEMMA DecideStepEffect ==
  ASSUME TypeOK, DecideStep
  PROVE  RuleAdded \/ RulesRead
<1>1. CASE OpenBulk
  BY <1>1 DEF OpenBulk, tables, RulesRead
<1>2. ASSUME NEW r \in Requests, NEW d \in Drafts \cup {Null}, Approve(r, d)
      PROVE  RuleAdded \/ RulesRead
  <2>1. UNCHANGED disk
    BY <1>2 DEF Approve
  <2>2. \/ MaybeAddRule(d, {r})
        \/ UNCHANGED <<rules, cache, minted, phantom>>
    BY <1>2 DEF Approve
  <2>3. QED
    BY <2>1, <2>2, MaybeAddRuleEffect DEF RulesRead
<1>3. ASSUME NEW r \in Requests, NEW d \in Drafts \cup {Null}, Deny(r, d)
      PROVE  RuleAdded \/ RulesRead
  <2>1. UNCHANGED disk /\ MaybeAddRule(d, {r})
    BY <1>3 DEF Deny
  <2>2. QED
    BY <2>1, MaybeAddRuleEffect
<1>4. ASSUME NEW r \in Requests, BulkApprove(r) \/ BulkDeny(r) \/ Sweep(r)
      PROVE  RulesRead
  <2>1. UNCHANGED <<rules, disk, minted, phantom>>
    BY <1>4 DEF BulkApprove, BulkDeny, Sweep
  <2>2. cache' \in {cache, RuleBook}
    BY <1>4 DEF BulkApprove, BulkDeny, Sweep, Consult
  <2>3. QED
    BY <2>1, <2>2 DEF RulesRead
<1>5. QED
  BY <1>1, <1>2, <1>3, <1>4 DEF DecideStep

\* The end of a transaction, as far as the rules go.
RulesEnded ==
  \/ /\ disk' = Committed /\ UNCHANGED <<rules, cache, phantom>>
  \/ /\ rules' = disk.rules /\ UNCHANGED <<disk, cache>>
     /\ phantom' = (phantom \/ (rules # disk.rules /\ cache # NoCache))
  \/ /\ rules' = disk.rules /\ UNCHANGED disk
     /\ cache' = NoCache /\ phantom' = FALSE

\* What a step of the pipeline can do to the rules.
LEMMA RuleEffect ==
  ASSUME TypeOK, [Next]_vars
  PROVE  \/ RuleAdded \/ RuleChanged \/ RulesRead
         \/ RulesEnded /\ UNCHANGED minted
<1>1. CASE AgentStep
  <2>1. PICK a \in Agents, p \in Proposals, k \in Keys : \E q : Submit(a, p, k, q)
    BY <1>1, AgentSubmits
  <2>2. UNCHANGED <<rules, disk, phantom>> /\ Consult
    BY <2>1 DEF Submit
  <2>3. minted'.rules = minted.rules
    BY <2>1 DEF Submit, TypeOK
  <2>4. QED
    BY <2>2, <2>3 DEF Consult, RulesRead
<1>2. CASE AdminStep
  BY <1>2 DEF AdminStep, Expire, AdminCreatePage, AdminDeletePage,
              AdminDeleteModule, PatchTarget, DeleteTarget, RulesRead
<1>3. CASE JobStep
  BY <1>3 DEF JobStep, RunJob, LoseJob, tables, RulesRead
<1>4. CASE EndStep
  BY <1>4 DEF EndStep, Commit, Rollback, Crash, Reload, tables, RulesEnded
<1>5. CASE UNCHANGED vars
  BY <1>5 DEF vars, RulesRead
<1>6. QED
  BY <1>1, <1>2, <1>3, <1>4, <1>5, RuleStepEffect, DecideStepEffect DEF Next

-----------------------------------------------------------------------------
\* The rule table, the cache and the ids they carry (bump_rules_version).
LEMMA RulesInit ==
  ASSUME Init
  PROVE  RulesOK
BY PipelineAssumption
DEF Init, RulesOK, Numbered, CacheCoherent, Committed, NoCache

\* Every step keeps the rule table, the cache and the ids in order.
LEMMA RulesStep ==
  ASSUME TypeOK, RulesOK, [Next]_vars
  PROVE  RulesOK'
<1>1. Numbered(RuleBook)
  BY DEF RulesOK, Numbered, RuleBook, Enabled
<1>2. minted.rules \in Nat
  BY PipelineAssumption DEF TypeOK
<1>3. CASE RulesRead
  <2>1. Numbered(rules)' /\ Numbered(disk.rules)'
    BY <1>3 DEF RulesRead, RulesOK, Numbered
  <2>2. cache' # NoCache => Numbered(cache)'
    BY <1>1, <1>3 DEF RulesRead, RulesOK, Numbered
  <2>3. CacheCoherent'
    BY <1>3 DEF RulesRead, RulesOK, CacheCoherent, RuleBook
  <2>4. QED
    BY <2>1, <2>2, <2>3 DEF RulesOK, NoCache
<1>4. CASE RuleAdded
  <2>1. PICK d \in Drafts :
          rules' = rules \cup {FromDraft(d, minted.rules + 1)}
    BY <1>4 DEF RuleAdded
  <2> DEFINE new == FromDraft(d, minted.rules + 1)
  <2>2. new \in Rule /\ new.id = minted.rules + 1
    BY <1>2, DraftType
  <2> HIDE DEF new
  <2>3. rules' = rules \cup {new} /\ minted'.rules = minted.rules + 1
    BY <1>4, <2>1 DEF RuleAdded, new
  <2>4. \A rl \in rules \cup disk.rules : rl \in Rule /\ rl.id \in Nat
    BY DEF RulesOK, Numbered, Rule
  <2>5. Numbered(rules)'
    BY <1>2, <2>2, <2>3, <2>4 DEF RulesOK, Numbered
  <2>6. Numbered(disk.rules)'
    BY <1>2, <1>4, <2>3, <2>4 DEF RulesOK, Numbered, RuleAdded
  <2>7. QED
    BY <1>4, <2>5, <2>6 DEF RulesOK, RuleAdded, CacheCoherent, NoCache
<1>5. CASE RuleChanged
  <2>1. Numbered(rules)'
    BY <1>5 DEF RulesOK, Numbered, RuleChanged
  <2>2. Numbered(disk.rules)'
    BY <1>5 DEF RulesOK, Numbered, RuleChanged
  <2>3. QED
    BY <1>5, <2>1, <2>2 DEF RulesOK, RuleChanged, CacheCoherent, NoCache
<1>6. CASE RulesEnded /\ UNCHANGED minted
  <2>1. Numbered(rules)' /\ Numbered(disk.rules)'
    BY <1>6 DEF RulesOK, Numbered, RulesEnded, Committed
  <2>2. cache' # NoCache => Numbered(cache)'
    BY <1>6 DEF RulesOK, Numbered, RulesEnded
  <2>3. CacheCoherent'
    BY <1>6 DEF RulesOK, RulesEnded, CacheCoherent, TypeOK
  <2>4. QED
    BY <2>1, <2>2, <2>3 DEF RulesOK, NoCache
<1>7. QED
  BY <1>3, <1>4, <1>5, <1>6, RuleEffect

-----------------------------------------------------------------------------
(***************************************************************************)
(* Rows, loops and jobs.                                                   *)
(***************************************************************************)
\* No row of approval_requests is ever lost, and a handler adds one at most
\* in its last step.
NoRowLost == \A r \in Requests : reqs[r] # Null => reqs'[r] # Null
NoRowBorn == \A r \in Requests : reqs'[r] # Null => reqs[r] # Null

\* A job is scheduled for a row that exists, or that the step which ends its
\* handler adds.
JobsOnRows ==
  \A s \in Requests : jobs'[s] > 0 =>
    jobs[s] > 0 \/ reqs[s] # Null \/ (reqs'[s] # Null /\ tx' = Closing)

\* The three shapes of a handler that has no loop left to run.
LEMMA TransactionForms ==
  /\ Closing \in Transaction /\ Aborting \in Transaction
  /\ Idle \in Transaction
  /\ Closing.phase = "open" /\ Aborting.phase = "abort" /\ Idle.phase = "idle"
  /\ \A t \in {Closing, Aborting, Idle} :
       t.sweep = {} /\ t.bulk = {} /\ t.undo = {}
BY DEF Closing, Aborting, Idle, Open, Transaction

\* While a handler has more to do, every row and every job is on disk.
LEMMA MidHandler ==
  ASSUME RowsOK, tx \notin {Closing, Aborting}, NEW r \in Requests
  PROVE  /\ reqs[r] # Null => disk.reqs[r] # Null
         /\ jobs[r] > 0 => disk.reqs[r] # Null
BY DEF RowsOK, RowsOnDisk, JobsHaveRows

\* The last step of a handler, or one that raises.
LEMMA Finishing ==
  ASSUME RowsOK, tx \notin {Closing, Aborting}, UNCHANGED disk,
         tx' \in {Closing, Aborting}, NoRowLost, JobsOnRows
  PROVE  RowsOK' /\ Settled' /\ tx' \in Transaction
<1>1. /\ tx' \in Transaction /\ tx'.phase \in {"open", "abort"}
      /\ tx'.sweep = {} /\ tx'.bulk = {} /\ tx'.undo = {}
  BY TransactionForms
<1>2. RowsOnDisk'
  BY DEF RowsOK, RowsOnDisk, NoRowLost
<1>3. LoopsOK' /\ SelectedStillPending' /\ Settled'
  BY <1>1 DEF LoopsOK, SelectedStillPending, Settled, NoLock
<1>4. ASSUME NEW r \in Requests, jobs'[r] > 0
      PROVE  reqs'[r] # Null /\ (disk.reqs[r] # Null \/ tx' = Closing)
  BY <1>2, <1>4, MidHandler DEF JobsOnRows, RowsOnDisk
<1>5. JobsHaveRows'
  BY <1>4 DEF JobsHaveRows
<1>6. QED
  BY <1>1, <1>2, <1>3, <1>5 DEF RowsOK

\* A step that leaves loops to run.
LEMMA Looping ==
  ASSUME RowsOK, tx \notin {Closing, Aborting}, UNCHANGED disk,
         tx'.phase = "open", NoRowLost, NoRowBorn, JobsOnRows,
         LoopsOK', SelectedStillPending'
  PROVE  RowsOK' /\ Settled'
<1>1. RowsOnDisk'
  BY MidHandler DEF RowsOK, RowsOnDisk, NoRowLost, NoRowBorn
<1>2. JobsHaveRows'
  <2>1. ASSUME NEW r \in Requests, jobs'[r] > 0
        PROVE  disk.reqs[r] # Null
    BY <2>1, MidHandler DEF JobsOnRows, NoRowBorn
  <2>2. QED
    BY <1>1, <2>1 DEF JobsHaveRows, RowsOnDisk
<1>3. QED
  BY <1>1, <1>2 DEF RowsOK, Settled, NoLock

\* One turn of a sweep or of a bulk decision (_apply_to_pending, bulk_decide):
\* it decides a row that was pending and touches none of those still selected.
LEMMA LoopTurn ==
  ASSUME TypeOK, RowsOK, NEW r \in Requests, NEW new \in Request,
         \/ r \in tx.sweep /\ tx' = [tx EXCEPT !.sweep = @ \ {r}]
         \/ \E v \in Verdicts : /\ <<r, v>> \in tx.bulk
                                /\ tx' = [tx EXCEPT !.bulk = @ \ {<<r, v>>}],
         reqs' = [reqs EXCEPT ![r] = new], UNCHANGED disk, JobsOnRows
  PROVE  RowsOK' /\ Settled' /\ tx' \in Transaction
<1>1. tx \in Transaction /\ reqs \in [Requests -> Request \cup {Null}]
  BY DEF TypeOK
<1>2. tx.sweep # {} \/ tx.bulk # {}
  OBVIOUS
<1>3. tx.phase = "open" /\ tx \notin {Closing, Aborting}
  BY <1>2, TransactionForms DEF RowsOK, LoopsOK
<1>4. IsPending(r)
  BY DEF RowsOK, SelectedStillPending
<1>5. /\ tx'.phase = "open" /\ tx'.undo = tx.undo
      /\ tx'.sweep \subseteq tx.sweep /\ tx'.bulk \subseteq tx.bulk
      /\ tx' \in Transaction
  BY <1>1, <1>3 DEF Transaction
<1>6. NoRowLost /\ NoRowBorn
  BY <1>1, <1>4, PipelineAssumption DEF NoRowLost, NoRowBorn, IsPending
<1>7. \A s \in Requests : s # r => reqs'[s] = reqs[s]
  BY <1>1
<1>8. LoopsOK'
  <2>1. \A s \in tx.undo : s \in Requests /\ s # r
    BY <1>1, <1>4 DEF RowsOK, LoopsOK, IsPending, Transaction
  <2>2. \A s \in tx'.undo : reqs'[s] # Null /\ reqs'[s].status = "applied"
    BY <1>5, <1>7, <2>1 DEF RowsOK, LoopsOK
  <2>3. QED
    BY <1>5, <2>2 DEF RowsOK, LoopsOK
<1>9. SelectedStillPending'
  <2> SUFFICES /\ \A s \in tx'.sweep : s \in tx.sweep /\ s # r
               /\ \A w \in tx'.bulk : w \in tx.bulk /\ w[1] # r
    <3>1. ASSUME NEW s \in tx.sweep, s # r
          PROVE  IsPending(s)'
      BY <1>1, <1>7, <3>1
      DEF RowsOK, SelectedStillPending, IsPending, Transaction
    <3>2. ASSUME NEW w \in tx.bulk, w[1] # r
          PROVE  IsPending(w[1])'
      BY <1>1, <1>7, <3>2
      DEF RowsOK, SelectedStillPending, IsPending, Transaction
    <3>3. QED
      BY <3>1, <3>2 DEF SelectedStillPending
  <2>1. CASE r \in tx.sweep /\ tx' = [tx EXCEPT !.sweep = @ \ {r}]
    <3>1. tx'.sweep = tx.sweep \ {r} /\ tx'.bulk = tx.bulk
      BY <1>1, <2>1 DEF Transaction
    <3>2. tx.bulk = {}
      BY <2>1 DEF RowsOK, LoopsOK
    <3>3. QED
      BY <3>1, <3>2
  <2>2. ASSUME NEW v \in Verdicts, <<r, v>> \in tx.bulk,
               tx' = [tx EXCEPT !.bulk = @ \ {<<r, v>>}]
        PROVE  /\ \A s \in tx'.sweep : s \in tx.sweep /\ s # r
               /\ \A w \in tx'.bulk : w \in tx.bulk /\ w[1] # r
    <3>1. tx'.bulk = tx.bulk \ {<<r, v>>} /\ tx'.sweep = tx.sweep
      BY <1>1, <2>2 DEF Transaction
    <3>2. tx.sweep = {}
      BY <2>2 DEF RowsOK, LoopsOK
    <3>3. \A w \in tx.bulk : w[1] = r => w = <<r, v>>
      BY <2>2 DEF RowsOK, LoopsOK
    <3>4. QED
      BY <3>1, <3>2, <3>3
  <2>3. QED
    BY <2>1, <2>2
<1>10. QED
  BY <1>3, <1>4, <1>5, <1>6, <1>8, <1>9, Looping DEF IsPending

\* Applying a request schedules a job for that request at most, and only if
\* the attempt ends without an exception.
LEMMA ApplyJobs ==
  ASSUME jobs \in [Requests -> 0..MaxJobs], NEW r \in Requests, NEW row,
         NEW out \in Outcome, ApplyNow(r, row, out) \/ Apply(r, row, out)
  PROVE  \A s \in Requests : jobs'[s] > 0 =>
           jobs[s] > 0 \/ (s = r /\ out.fault = "none")
<1>1. \/ jobs' = jobs
      \/ jobs' = [jobs EXCEPT ![r] = @ + 1] /\ out = Executed("queued")
  BY DEF ApplyNow, Apply, ApplyCreateModule, ApplyUpdateModule,
         ApplyDeleteModule, ApplyCreatePage, ApplyFireAction, ApplyAppendLog
<1>2. Executed("queued").fault = "none"
  BY DEF Executed, Applied
<1>3. QED
  BY <1>1, <1>2

\* The rules a verdict is read from are a table with distinct ids.
LEMMA BookIsTable ==
  ASSUME TypeOK, RulesOK
  PROVE  Table(RuleBook)
<1>1. Numbered(RuleBook)
  BY DEF RulesOK, Numbered, RuleBook, Enabled
<1>2. minted.rules \in Nat
  BY PipelineAssumption DEF TypeOK
<1>3. QED
  BY <1>1, <1>2 DEF Numbered, Table

\* A submission stores a row of its own, and ends its handler.
LEMMA SubmitRows ==
  ASSUME TypeOK, RulesOK, RowsOK, NEW a \in Agents, NEW p \in Proposals,
         NEW k \in Keys, NEW q, Submit(a, p, k, q)
  PROVE  /\ RowsOK' /\ Settled' /\ tx' \in Transaction
         /\ reqs' \in [Requests -> Request \cup {Null}]
<1> DEFINE r == minted.reqs + 1
           row == NewRow(a, p, k)
           verdict == Decide(RuleBook, q)
<1>1. r \in Requests
  BY PipelineAssumption DEF Submit, TypeOK, Requests
<1>2. row \in Request
  BY NewRowType
<1>3. tx \notin {Closing, Aborting}
  BY TransactionForms DEF Submit, NoLock
<1>4. verdict.outcome # "prompt" => ByRule(verdict) \in Deciders
  BY BookIsTable, VerdictType
<1>5. PICK new \in Request :
        /\ reqs' = [reqs EXCEPT ![r] = new]
        /\ tx' \in {Closing, Aborting}
        /\ \A s \in Requests : jobs'[s] > 0 =>
             jobs[s] > 0 \/ (s = r /\ tx' = Closing)
  <2>1. CASE verdict.outcome = "auto_approve" /\ SubmitApproved(r, row, verdict)
    <3>1. PICK out \in Outcome :
            /\ ApplyNow(r, row, out)
            /\ reqs' = [reqs EXCEPT ![r] = Settle(row, ByRule(verdict), out)]
            /\ \/ out.fault = "none" /\ tx' = Closing
               \/ out.fault # "none" /\ tx' = Aborting
      BY <2>1 DEF SubmitApproved
    <3>2. Settle(row, ByRule(verdict), out) \in Request
      BY <1>2, <1>4, <2>1, SettleType
    <3>3. \A s \in Requests : jobs'[s] > 0 =>
            jobs[s] > 0 \/ (s = r /\ out.fault = "none")
      BY <1>1, <3>1, ApplyJobs DEF TypeOK
    <3>4. QED
      BY <3>1, <3>2, <3>3
  <2>2. CASE verdict.outcome = "deny" /\ SubmitDenied(r, row, verdict)
    <3>1. Turn(row, ByRule(verdict), "denied") \in Request
      BY <1>2, <1>4, <2>2, TurnType
    <3>2. QED
      BY <2>2, <3>1 DEF SubmitDenied, Unapplied
  <2>3. CASE verdict.outcome = "prompt" /\ SubmitPending(r, row)
    BY <1>2, <2>3 DEF SubmitPending, Unapplied
  <2>4. QED
    BY <2>1, <2>2, <2>3 DEF Submit
<1> HIDE DEF r, row, verdict
<1>6. reqs' \in [Requests -> Request \cup {Null}]
  BY <1>5 DEF TypeOK
<1>7. reqs'[r] # Null /\ NoRowLost
  BY <1>1, <1>5, PipelineAssumption DEF TypeOK, NoRowLost
<1>8. JobsOnRows
  BY <1>5, <1>7 DEF JobsOnRows
<1>9. UNCHANGED disk
  BY DEF Submit
<1>10. QED
  BY <1>3, <1>5, <1>6, <1>7, <1>8, <1>9, Finishing

\* A new rule sweeps rows that the handler has not decided itself.
LEMMA AddRuleRows ==
  ASSUME TypeOK, RowsOK, NoLock, NEW d \in Drafts, NEW own, AddRule(d, own),
         \A s \in Requests \ own : reqs'[s] = reqs[s],
         NoRowLost, NoRowBorn, JobsOnRows, UNCHANGED disk
  PROVE  RowsOK' /\ Settled' /\ tx' \in Transaction
<1>1. tx \notin {Closing, Aborting}
  BY TransactionForms DEF NoLock
<1>2. CASE tx' = Closing
  BY <1>1, <1>2, Finishing
<1>3. CASE tx' = Open(Queue(d.action, own), {}, {})
  <2>1. /\ tx'.phase = "open" /\ tx'.bulk = {} /\ tx'.undo = {}
        /\ tx'.sweep = Queue(d.action, own)
    BY <1>3 DEF Open
  <2>2. Queue(d.action, own) \subseteq Requests
    BY DEF Queue
  <2>3. tx' \in Transaction
    BY <1>3, <2>2 DEF Open, Transaction
  <2>4. LoopsOK'
    BY <2>1 DEF LoopsOK
  <2>5. SelectedStillPending'
    BY <2>1 DEF SelectedStillPending, Queue, IsPending
  <2>6. QED
    BY <1>1, <2>1, <2>3, <2>4, <2>5, Looping
<1>4. QED
  BY <1>2, <1>3 DEF AddRule

\* Writing a row that is there loses and adds none.
LEMMA RowWritten ==
  ASSUME TypeOK, NEW r \in Requests, reqs[r] # Null, NEW new \in Request,
         reqs' = [reqs EXCEPT ![r] = new]
  PROVE  /\ reqs' \in [Requests -> Request \cup {Null}]
         /\ NoRowLost /\ NoRowBorn
         /\ \A s \in Requests \ {r} : reqs'[s] = reqs[s]
BY PipelineAssumption DEF TypeOK, NoRowLost, NoRowBorn

\* A step that writes no row loses and adds none.
LEMMA RowsUnchanged ==
  ASSUME TypeOK, UNCHANGED reqs
  PROVE  /\ reqs' \in [Requests -> Request \cup {Null}]
         /\ NoRowLost /\ NoRowBorn
BY DEF TypeOK, NoRowLost, NoRowBorn

\* What the administrator does to rules, and the reversal of their decisions.
LEMMA RuleRows ==
  ASSUME TypeOK, RowsOK, RuleStep
  PROVE  /\ RowsOK' /\ Settled' /\ tx' \in Transaction
         /\ reqs' \in [Requests -> Request \cup {Null}]
<1> USE TransactionForms
<1>1. UNCHANGED <<reqs, disk, jobs>>
  BY DEF RuleStep, CreateRule, UpdateRule, DeleteRule, RevokeRule,
         ChangeRules, Unapplied, ReverseOne
<1>2. /\ reqs' \in [Requests -> Request \cup {Null}]
      /\ NoRowLost /\ NoRowBorn /\ JobsOnRows
  BY <1>1, RowsUnchanged DEF JobsOnRows
<1>3. ASSUME NEW d \in Drafts, CreateRule(d)
      PROVE  RowsOK' /\ Settled' /\ tx' \in Transaction
  BY <1>1, <1>2, <1>3, AddRuleRows DEF CreateRule
<1>4. ASSUME NEW rl \in rules, UpdateRule(rl) \/ DeleteRule(rl)
      PROVE  RowsOK' /\ Settled' /\ tx' \in Transaction
  <2>1. NoLock /\ tx' = Closing
    BY <1>4 DEF UpdateRule, DeleteRule
  <2>2. QED
    BY <1>1, <1>2, <2>1, Finishing DEF NoLock
<1>5. ASSUME NEW rl \in rules, RevokeRule(rl)
      PROVE  RowsOK' /\ Settled' /\ tx' \in Transaction
  <2>1. PICK recent \in SUBSET AppliedBy(rl) : tx' = Open({}, {}, recent)
    BY <1>5 DEF RevokeRule
  <2>2. /\ tx'.phase = "open" /\ tx'.sweep = {} /\ tx'.bulk = {}
        /\ tx'.undo = recent
    BY <2>1 DEF Open
  <2>3. \A r \in recent : /\ r \in Requests /\ reqs[r] # Null
                          /\ reqs[r].status = "applied"
    BY DEF AppliedBy
  <2>4. tx' \in Transaction
    BY <2>1, <2>3 DEF Open, Transaction
  <2>5. LoopsOK' /\ SelectedStillPending'
    BY <1>1, <2>2, <2>3 DEF LoopsOK, SelectedStillPending
  <2>6. tx \notin {Closing, Aborting}
    BY <1>5 DEF RevokeRule, NoLock
  <2>7. QED
    BY <1>1, <1>2, <2>2, <2>4, <2>5, <2>6, Looping
<1>6. ASSUME NEW r \in Requests, ReverseOne(r)
      PROVE  RowsOK' /\ Settled' /\ tx' \in Transaction
  <2>1. tx' = [tx EXCEPT !.undo = @ \ {r}] /\ tx \in Transaction
    BY <1>6 DEF ReverseOne, TypeOK
  <2>2. /\ tx'.phase = tx.phase /\ tx'.sweep = tx.sweep
        /\ tx'.bulk = tx.bulk /\ tx'.undo = tx.undo \ {r}
        /\ tx' \in Transaction
    BY <2>1 DEF Transaction
  <2>3. r \in tx.undo
    BY <1>6 DEF ReverseOne
  <2>4. tx.phase = "open" /\ tx \notin {Closing, Aborting}
    BY <2>3 DEF RowsOK, LoopsOK
  <2>5. LoopsOK' /\ SelectedStillPending'
    BY <1>1, <2>2 DEF RowsOK, LoopsOK, SelectedStillPending, IsPending
  <2>6. QED
    BY <1>1, <1>2, <2>2, <2>4, <2>5, Looping
<1>7. QED
  BY <1>2, <1>3, <1>4, <1>5, <1>6 DEF RuleStep

\* Approving or denying one request, and the rule that may come with it.
LEMMA DecideOneRows ==
  ASSUME TypeOK, RowsOK, NEW r \in Requests, NEW d \in Drafts \cup {Null},
         Approve(r, d) \/ Deny(r, d)
  PROVE  /\ RowsOK' /\ Settled' /\ tx' \in Transaction
         /\ reqs' \in [Requests -> Request \cup {Null}]
<1>1. NoLock /\ IsPending(r) /\ UNCHANGED disk
  BY DEF Approve, Deny
<1>2. tx \notin {Closing, Aborting}
  BY <1>1, TransactionForms DEF NoLock
<1>3. reqs[r] # Null /\ reqs[r] \in Request
  BY <1>1 DEF IsPending, TypeOK
<1>4. /\ \E new \in Request : reqs' = [reqs EXCEPT ![r] = new]
      /\ \A s \in Requests : jobs'[s] > 0 => jobs[s] > 0 \/ s = r
      /\ MaybeAddRule(d, {r}) \/ tx' = Aborting
  <2>1. CASE Approve(r, d)
    <3>1. PICK out \in Outcome :
            /\ Apply(r, reqs[r], out)
            /\ reqs' = [reqs EXCEPT ![r] = Settle(@, Admin, out)]
            /\ MaybeAddRule(d, {r}) \/ tx' = Aborting
      BY <2>1 DEF Approve
    <3>2. Settle(reqs[r], Admin, out) \in Request
      BY <1>3, SettleType, DeciderTypes
    <3>3. reqs' = [reqs EXCEPT ![r] = Settle(reqs[r], Admin, out)]
      BY <3>1
    <3>4. \A s \in Requests : jobs'[s] > 0 => jobs[s] > 0 \/ s = r
      BY <3>1, ApplyJobs DEF TypeOK
    <3>5. QED
      BY <3>1, <3>2, <3>3, <3>4
  <2>2. CASE Deny(r, d)
    <3>1. Turn(reqs[r], Admin, "denied") \in Request
      BY <1>3, TurnType, DeciderTypes
    <3>2. reqs' = [reqs EXCEPT ![r] = Turn(reqs[r], Admin, "denied")]
      BY <2>2 DEF Deny
    <3>3. MaybeAddRule(d, {r}) /\ UNCHANGED jobs
      BY <2>2 DEF Deny, Unapplied
    <3>4. QED
      BY <3>1, <3>2, <3>3
  <2>3. QED
    BY <2>1, <2>2
<1>5. /\ reqs' \in [Requests -> Request \cup {Null}]
      /\ NoRowLost /\ NoRowBorn
      /\ \A s \in Requests \ {r} : reqs'[s] = reqs[s]
  BY <1>3, <1>4, RowWritten
<1>6. JobsOnRows
  BY <1>3, <1>4 DEF JobsOnRows
<1>7. CASE tx' \in {Closing, Aborting}
  BY <1>1, <1>2, <1>5, <1>6, <1>7, Finishing
<1>8. CASE d \in Drafts /\ AddRule(d, {r})
  BY <1>1, <1>5, <1>6, <1>8, AddRuleRows
<1>9. QED
  BY <1>4, <1>5, <1>7, <1>8 DEF MaybeAddRule

\* Bulk decisions and sweeps, one row at a time.
LEMMA DecideRows ==
  ASSUME TypeOK, RulesOK, RowsOK, DecideStep
  PROVE  /\ RowsOK' /\ Settled' /\ tx' \in Transaction
         /\ reqs' \in [Requests -> Request \cup {Null}]
<1> DEFINE Goal == /\ RowsOK' /\ Settled' /\ tx' \in Transaction
                   /\ reqs' \in [Requests -> Request \cup {Null}]
<1>1. CASE OpenBulk
  <2>1. PICK body \in SUBSET ({r \in Requests : IsPending(r)} \X Verdicts) :
          /\ \A v, w \in body : v[1] = w[1] => v = w
          /\ tx' = Open({}, body, {})
    BY <1>1 DEF OpenBulk
  <2>2. UNCHANGED <<reqs, disk, jobs>> /\ NoLock
    BY <1>1 DEF OpenBulk, tables
  <2>3. /\ tx'.phase = "open" /\ tx'.sweep = {} /\ tx'.undo = {}
        /\ tx'.bulk = body
    BY <2>1 DEF Open
  <2>4. tx' \in Transaction
    BY <2>1 DEF Open, Transaction
  <2>5. LoopsOK'
    BY <2>1, <2>3 DEF LoopsOK
  <2>6. \A v \in body : IsPending(v[1])
    OBVIOUS
  <2>7. SelectedStillPending'
    BY <2>2, <2>3, <2>6 DEF SelectedStillPending, IsPending
  <2>8. /\ reqs' \in [Requests -> Request \cup {Null}]
        /\ NoRowLost /\ NoRowBorn /\ JobsOnRows
    BY <2>2, RowsUnchanged DEF JobsOnRows
  <2>9. tx \notin {Closing, Aborting}
    BY <2>2, TransactionForms DEF NoLock
  <2>10. QED
    BY <2>2, <2>3, <2>4, <2>5, <2>7, <2>8, <2>9, Looping
<1>2. ASSUME NEW r \in Requests, NEW d \in Drafts \cup {Null},
             Approve(r, d) \/ Deny(r, d)
      PROVE  Goal
  BY <1>2, DecideOneRows
<1>3. ASSUME NEW r \in Requests, BulkApprove(r) \/ BulkDeny(r) \/ Sweep(r)
      PROVE  Goal
  <2> DEFINE Turned ==
        \/ r \in tx.sweep /\ tx' = [tx EXCEPT !.sweep = @ \ {r}]
        \/ \E v \in Verdicts : /\ <<r, v>> \in tx.bulk
                               /\ tx' = [tx EXCEPT !.bulk = @ \ {<<r, v>>}]
  <2> DEFINE verdict == Decide(RuleBook, AskedInSweep(r, reqs[r]))
  <2>1. r \in tx.sweep \/ \E v \in Verdicts : <<r, v>> \in tx.bulk
    BY <1>3 DEF BulkApprove, BulkDeny, Sweep, Verdicts
  <2>2. tx \notin {Closing, Aborting} /\ IsPending(r) /\ UNCHANGED disk
    BY <1>3, <2>1, TransactionForms
    DEF RowsOK, SelectedStillPending, BulkApprove, BulkDeny, Sweep
  <2>3. reqs[r] # Null /\ reqs[r] \in Request
    BY <2>2 DEF IsPending, TypeOK
  <2>4. verdict.outcome # "prompt" => BySweep(verdict) \in Deciders
    BY BookIsTable, VerdictType
  <2>5. PICK new \in Request :
          /\ reqs' = [reqs EXCEPT ![r] = new]
          /\ \A s \in Requests : jobs'[s] > 0 => jobs[s] > 0 \/ s = r
          /\ Turned \/ tx' = Aborting
    <3>1. CASE BulkApprove(r)
      <4>1. PICK out \in Outcome :
              /\ Apply(r, reqs[r], out)
              /\ reqs' = [reqs EXCEPT ![r] = Settle(@, Admin, out)]
        BY <3>1 DEF BulkApprove
      <4>2. Settle(reqs[r], Admin, out) \in Request
        BY <2>3, SettleType, DeciderTypes
      <4>3. Turned \/ tx' = Aborting
        BY <3>1 DEF BulkApprove, Verdicts
      <4>4. \A s \in Requests : jobs'[s] > 0 => jobs[s] > 0 \/ s = r
        BY <4>1, ApplyJobs DEF TypeOK
      <4> HIDE DEF Turned
      <4>5. QED
        BY <4>1, <4>2, <4>3, <4>4
    <3>2. CASE BulkDeny(r)
      <4>1. Turn(reqs[r], Admin, "denied") \in Request
        BY <2>3, TurnType, DeciderTypes
      <4>2. Turned /\ UNCHANGED jobs
        BY <3>2 DEF BulkDeny, Verdicts, Unapplied
      <4>3. QED
        BY <3>2, <4>1, <4>2 DEF BulkDeny
    <3>3. CASE Sweep(r)
      <4>1. r \in tx.sweep
        BY <3>3 DEF Sweep
      <4>2. CASE verdict.outcome = "auto_approve" /\ SweepApproved(r, verdict)
        <5>1. PICK out \in Outcome :
                /\ Apply(r, reqs[r], out)
                /\ reqs' = [reqs EXCEPT
                              ![r] = Settle(@, BySweep(verdict), out)]
          BY <4>2 DEF SweepApproved
        <5>2. Settle(reqs[r], BySweep(verdict), out) \in Request
          BY <2>3, <2>4, <4>2, SettleType
        <5>3. Turned \/ tx' = Aborting
          BY <4>1, <4>2 DEF SweepApproved
        <5>4. \A s \in Requests : jobs'[s] > 0 => jobs[s] > 0 \/ s = r
          BY <5>1, ApplyJobs DEF TypeOK
        <5> HIDE DEF Turned
        <5>5. QED
          BY <5>1, <5>2, <5>3, <5>4
      <4>3. CASE verdict.outcome = "deny" /\ SweepDenied(r, verdict)
        <5>1. Turn(reqs[r], BySweep(verdict), "denied") \in Request
          BY <2>3, <2>4, <4>3, TurnType
        <5>2. Turned /\ UNCHANGED jobs
          BY <4>1, <4>3 DEF SweepDenied, Unapplied
        <5>3. QED
          BY <4>3, <5>1, <5>2 DEF SweepDenied
      <4>4. CASE SweepSkipped(r)
        <5>1. reqs' = [reqs EXCEPT ![r] = reqs[r]]
          BY <4>4 DEF SweepSkipped, TypeOK
        <5>2. Turned /\ UNCHANGED jobs
          BY <4>1, <4>4 DEF SweepSkipped, Unapplied
        <5>3. QED
          BY <2>3, <5>1, <5>2
      <4>5. QED
        BY <3>3, <4>2, <4>3, <4>4 DEF Sweep
    <3>4. QED
      BY <1>3, <3>1, <3>2, <3>3
  <2> HIDE DEF verdict
  <2>6. /\ reqs' \in [Requests -> Request \cup {Null}]
        /\ NoRowLost /\ NoRowBorn
    BY <2>3, <2>5, RowWritten
  <2>7. JobsOnRows
    BY <2>3, <2>5 DEF JobsOnRows
  <2>8. CASE Turned
    BY <2>2, <2>5, <2>6, <2>7, <2>8, LoopTurn
  <2>9. CASE tx' = Aborting
    BY <2>2, <2>6, <2>7, <2>9, Finishing
  <2>10. QED
    BY <2>5, <2>8, <2>9
<1>4. QED
  BY <1>1, <1>2, <1>3 DEF DecideStep

\* The other handlers write no row of their own (expire_stale_pending turns
\* pending ones), and have no loop to leave behind.
LEMMA AdminRows ==
  ASSUME TypeOK, RowsOK, AdminStep
  PROVE  /\ RowsOK' /\ Settled' /\ tx' \in Transaction
         /\ reqs' \in [Requests -> Request \cup {Null}]
<1>1. NoLock /\ tx' = Closing /\ UNCHANGED <<disk, jobs>>
  BY DEF AdminStep, Expire, AdminCreatePage, AdminDeletePage,
         AdminDeleteModule, PatchTarget, DeleteTarget, Unapplied
<1>2. /\ reqs' \in [Requests -> Request \cup {Null}]
      /\ NoRowLost
  <2>1. CASE Expire
    <3>1. PICK cutoff \in Requests :
            reqs' = [r \in Requests |->
                       IF r <= cutoff /\ IsPending(r)
                       THEN Turn(reqs[r], Expiry, "expired") ELSE reqs[r]]
      BY <2>1 DEF Expire
    <3>2. \A r \in Requests : IsPending(r) =>
            /\ reqs[r] \in Request
            /\ Turn(reqs[r], Expiry, "expired") \in Request
      BY TurnType, DeciderTypes DEF IsPending, TypeOK
    <3>3. QED
      BY <3>1, <3>2, PipelineAssumption DEF TypeOK, NoRowLost
  <2>2. CASE UNCHANGED reqs
    BY <2>2, RowsUnchanged
  <2>3. QED
    BY <2>1, <2>2 DEF AdminStep, AdminCreatePage, AdminDeletePage,
       AdminDeleteModule, PatchTarget, DeleteTarget
<1>3. tx \notin {Closing, Aborting}
  BY <1>1, TransactionForms DEF NoLock
<1>4. JobsOnRows
  BY <1>1 DEF JobsOnRows
<1>5. QED
  BY <1>1, <1>2, <1>3, <1>4, Finishing, TransactionForms

\* A job writes on a row that is there, rolled back or not.
LEMMA JobRows ==
  ASSUME TypeOK, Settled, RowsOK, JobStep
  PROVE  /\ RowsOK' /\ Settled' /\ tx' \in Transaction
         /\ reqs' \in [Requests -> Request \cup {Null}]
<1>1. PICK r \in Requests : RunJob(r) \/ LoseJob(r)
  BY DEF JobStep
<1>2. /\ jobs[r] > 0 /\ jobs' = [jobs EXCEPT ![r] = @ - 1]
      /\ UNCHANGED disk
  BY <1>1 DEF RunJob, LoseJob
<1>3. \A s \in Requests : jobs'[s] > 0 => jobs[s] > 0
  BY <1>2, PipelineAssumption DEF TypeOK
<1>4. CASE RunJob(r)
  <2>1. NoLock /\ tx' \in {Closing, Aborting}
    BY <1>4 DEF RunJob
  <2>2. tx \notin {Closing, Aborting}
    BY <2>1, TransactionForms DEF NoLock
  <2>3. reqs[r] # Null /\ reqs[r] \in Request
    BY <1>2 DEF RowsOK, JobsHaveRows, TypeOK
  <2>4. \/ UNCHANGED reqs
        \/ \E x \in {"ok", "failed"} : reqs' = [reqs EXCEPT ![r].exec = x]
    BY <1>4 DEF RunJob
  <2>5. ASSUME NEW x \in {"ok", "failed"}, reqs' = [reqs EXCEPT ![r].exec = x]
        PROVE  reqs' \in [Requests -> Request \cup {Null}] /\ NoRowLost
    <3>1. [reqs[r] EXCEPT !.exec = x] \in Request
      BY <2>3, ExecType DEF ExecResults
    <3>2. reqs' = [reqs EXCEPT ![r] = [reqs[r] EXCEPT !.exec = x]]
      BY <2>5
    <3>3. QED
      BY <2>3, <3>1, <3>2, RowWritten
  <2>6. reqs' \in [Requests -> Request \cup {Null}] /\ NoRowLost
    BY <2>4, <2>5, RowsUnchanged
  <2>7. JobsOnRows
    BY <1>3 DEF JobsOnRows
  <2>8. QED
    BY <1>2, <2>1, <2>2, <2>6, <2>7, Finishing
<1>5. CASE LoseJob(r)
  <2>1. UNCHANGED <<reqs, disk, tx>> /\ Committed' = Committed
    BY <1>5 DEF LoseJob, tables, Committed
  <2>2. RowsOnDisk' /\ LoopsOK' /\ SelectedStillPending' /\ Settled'
    BY <2>1 DEF RowsOK, RowsOnDisk, LoopsOK, SelectedStillPending, Settled,
                NoLock, IsPending
  <2>3. JobsHaveRows'
    BY <1>3, <2>1 DEF RowsOK, JobsHaveRows
  <2>4. QED
    BY <2>1, <2>2, <2>3 DEF RowsOK, TypeOK
<1>6. QED
  BY <1>1, <1>4, <1>5

\* A commit makes the handler's tables the committed ones; a rollback and a
\* crash bring the committed ones back.
LEMMA EndRows ==
  ASSUME TypeOK, RowsOK, EndStep
  PROVE  /\ RowsOK' /\ Settled' /\ tx' \in Transaction
         /\ reqs' \in [Requests -> Request \cup {Null}]
<1> USE TransactionForms
<1>1. tx' = Idle /\ tx' \in Transaction
  BY DEF EndStep, Commit, Rollback, Crash
<1>2. LoopsOK' /\ SelectedStillPending'
  BY <1>1 DEF LoopsOK, SelectedStillPending
<1>3. CASE Commit
  <2>1. disk' = Committed /\ UNCHANGED jobs /\ UNCHANGED tables
    BY <1>3 DEF Commit
  <2>2. disk'.reqs = reqs /\ UNCHANGED reqs /\ Committed' = Committed
    BY <2>1 DEF Committed, tables
  <2>3. RowsOnDisk' /\ JobsHaveRows'
    BY <2>1, <2>2 DEF RowsOK, RowsOnDisk, JobsHaveRows
  <2>4. QED
    BY <1>1, <1>2, <2>1, <2>2, <2>3 DEF RowsOK, Settled, TypeOK
<1>4. CASE Rollback \/ Crash
  <2>1. Reload /\ UNCHANGED disk
    BY <1>4 DEF Rollback, Crash
  <2>2. reqs' = disk.reqs /\ reqs' \in [Requests -> Request \cup {Null}]
    BY <2>1 DEF Reload, TypeOK, Tables
  <2>3. disk = [reqs |-> disk.reqs, rules |-> disk.rules,
                mods |-> disk.mods, pages |-> disk.pages,
                tgts |-> disk.tgts, idem |-> disk.idem]
    BY DEF TypeOK, Tables
  <2>4. Settled'
    BY <2>1, <2>3 DEF Settled, Committed, Reload
  <2>5. \A r \in Requests : jobs'[r] > 0 => disk.reqs[r] # Null
    <3>1. CASE Rollback
      <4>1. UNCHANGED jobs /\ tx # Closing
        BY <3>1 DEF Rollback
      <4>2. QED
        BY <4>1 DEF RowsOK, JobsHaveRows
    <3>2. CASE Crash
      BY <3>2 DEF Crash
    <3>3. QED
      BY <1>4, <3>1, <3>2
  <2>6. RowsOnDisk' /\ JobsHaveRows'
    BY <2>1, <2>2, <2>5 DEF RowsOnDisk, JobsHaveRows
  <2>7. QED
    BY <1>1, <1>2, <2>2, <2>4, <2>6 DEF RowsOK
<1>5. QED
  BY <1>3, <1>4 DEF EndStep

\* At the start there is no row, no loop and no job.
LEMMA RowsInit ==
  ASSUME Init
  PROVE  RowsOK /\ Settled
<1>1. tx = Idle /\ \A r \in Requests : reqs[r] = Null /\ jobs[r] = 0
  BY DEF Init
<1>2. \A r \in Requests : disk.reqs[r] = Null
  BY DEF Init, Committed
<1>3. RowsOnDisk /\ JobsHaveRows
  BY <1>1, <1>2 DEF RowsOnDisk, JobsHaveRows
<1>4. LoopsOK /\ SelectedStillPending
  BY <1>1, TransactionForms DEF LoopsOK, SelectedStillPending
<1>5. QED
  BY <1>3, <1>4 DEF Init, RowsOK, Settled

\* Every step keeps the rows, loops and jobs in order.
LEMMA RowsStep ==
  ASSUME TypeOK, RulesOK, Settled, RowsOK, [Next]_vars
  PROVE  /\ RowsOK' /\ Settled' /\ tx' \in Transaction
         /\ reqs' \in [Requests -> Request \cup {Null}]
<1>1. CASE AgentStep
  <2>1. PICK a \in Agents, p \in Proposals, k \in Keys : \E q : Submit(a, p, k, q)
    BY <1>1, AgentSubmits
  <2>2. QED
    BY <2>1, SubmitRows
<1>2. CASE UNCHANGED vars
  BY <1>2 DEF vars, RowsOK, RowsOnDisk, LoopsOK, SelectedStillPending,
              JobsHaveRows, Settled, NoLock, IsPending, Committed, TypeOK
<1>3. QED
  BY <1>1, <1>2, RuleRows, DecideRows, AdminRows, JobRows, EndRows DEF Next

-----------------------------------------------------------------------------
(***************************************************************************)
(* Content.                                                                *)
(***************************************************************************)
\* The row after a step that was not applied before it is applied to
\* something that exists.
NewlyGrounded ==
  \A s \in Requests : (reqs'[s] # Null /\ reqs'[s].status = "applied") =>
    \/ reqs[s] # Null /\ reqs[s].status = "applied"
         /\ reqs'[s].prop = reqs[s].prop
    \/ Grounded(s, reqs'[s], mods', pages')

ContentGood ==
  /\ ContentOK /\ AllGrounded(reqs, mods, pages)
  /\ idem \subseteq StoredResponse /\ outbox \subseteq Event

\* A step that writes one row of content at most keeps everything grounded.
LEMMA ContentWritten ==
  ASSUME TypeOK, ContentKept, OneModule, OnePage,
         jobs' \in [Requests -> 0..MaxJobs],
         fired' \in [Agents \X Keys -> 0..2], NewlyGrounded
  PROVE  ContentOK' /\ AllGrounded(reqs, mods, pages)'
<1>1. ContentOK
  BY DEF TypeOK, ContentOK
<1>2. /\ mods' \in [Modules -> Module \cup {Null}]
      /\ pages' \in [Pages -> Page \cup {Null}]
      /\ Kept
  BY <1>1, RowsKept
<1>3. ASSUME NEW s \in Requests, reqs'[s] # Null, reqs'[s].status = "applied",
             reqs[s] # Null, reqs[s].status = "applied",
             reqs'[s].prop = reqs[s].prop
      PROVE  Grounded(s, reqs'[s], mods', pages')
  <2>1. Grounded(s, reqs[s], mods, pages)
    BY <1>3 DEF ContentKept, AllGrounded
  <2>2. reqs[s].prop \in Proposals
    BY <1>3 DEF TypeOK, Request
  <2>3. reqs[s].prop.action = "delete_module" =>
          reqs[s].prop.target \in Modules
    BY <2>2, ProposalType DEF WellFormed
  <2>4. s \in Modules /\ s \in Pages
    BY PipelineAssumption
  <2>5. QED
    BY <1>2, <1>3, <2>1, <2>3, <2>4 DEF Grounded, Kept
<1>4. AllGrounded(reqs, mods, pages)'
  BY <1>3 DEF AllGrounded, NewlyGrounded
<1>5. QED
  BY <1>2, <1>4 DEF ContentOK

\* The row a decision leaves is about the same proposal.
LEMMA SettledRow ==
  ASSUME NEW row \in Request, NEW decider, NEW out \in Outcome, NEW status
  PROVE  /\ Settle(row, decider, out).status = out.status
         /\ Settle(row, decider, out).prop = row.prop
         /\ Turn(row, decider, status).status = status
         /\ Turn(row, decider, status).prop = row.prop
BY DEF Settle, Turn, Request

\* A step that writes row r, and leaves it applied only if it is grounded.
LEMMA OneRowGrounded ==
  ASSUME TypeOK, NEW r \in Requests, NEW new \in Request,
         reqs' = [reqs EXCEPT ![r] = new],
         new.status = "applied" => Grounded(r, new, mods', pages')
  PROVE  NewlyGrounded
BY DEF TypeOK, NewlyGrounded

\* An applied request, its row written (submit_request, approve_request,
\* bulk_decide, _apply_to_pending).
LEMMA ApplyContent ==
  ASSUME TypeOK, ContentKept, NEW r \in Requests, NEW row \in Request,
         NEW decider \in Deciders, NEW out \in Outcome,
         \/ Apply(r, row, out)
         \/ /\ ApplyNow(r, row, out)
            /\ row.prop.lines => ModLive(row.prop.target),
         reqs' = [reqs EXCEPT ![r] = Settle(row, decider, out)]
  PROVE  ContentOK' /\ AllGrounded(reqs, mods, pages)'
<1>1. ContentOK
  BY DEF TypeOK, ContentOK
<1>2. /\ OneModule /\ OnePage
      /\ jobs' \in [Requests -> 0..MaxJobs]
      /\ fired' \in [Agents \X Keys -> 0..2]
      /\ out.status = "applied" => Grounded(r, row, mods', pages')
  BY <1>1, ApplyEffect, ApplyNowEffect
<1> DEFINE new == Settle(row, decider, out)
<1>3. new \in Request /\ new.status = out.status /\ new.prop = row.prop
  BY SettleType, SettledRow
<1> HIDE DEF new
<1>4. new.status = "applied" => Grounded(r, new, mods', pages')
  BY <1>2, <1>3 DEF Grounded
<1>5. NewlyGrounded
  BY <1>3, <1>4, OneRowGrounded DEF new
<1>6. QED
  BY <1>2, <1>5, ContentWritten

\* A step that applies nothing and leaves no row newly applied.
LEMMA QuietContent ==
  ASSUME TypeOK, ContentKept, Unapplied, NewlyGrounded
  PROVE  ContentOK' /\ AllGrounded(reqs, mods, pages)'
BY ContentWritten DEF TypeOK, Unapplied, OneModule, OnePage

\* A decision that denies or stores, and applies nothing.
LEMMA TurnContent ==
  ASSUME TypeOK, ContentKept, Unapplied, NEW r \in Requests,
         NEW new \in Request, new.status # "applied",
         reqs' = [reqs EXCEPT ![r] = new]
  PROVE  ContentOK' /\ AllGrounded(reqs, mods, pages)'
BY OneRowGrounded, QuietContent

\* A submission stores its response and announces what came of it.
LEMMA SubmitContent ==
  ASSUME TypeOK, RulesOK, ContentKept, NEW a \in Agents, NEW p \in Proposals,
         NEW k \in Keys, NEW q, Submit(a, p, k, q),
         p.lines => ModLive(p.target)
  PROVE  ContentGood'
<1> DEFINE r == minted.reqs + 1
           row == NewRow(a, p, k)
           verdict == Decide(RuleBook, q)
<1>1. r \in Requests
  BY PipelineAssumption DEF Submit, TypeOK, Requests
<1>2. row \in Request /\ row.prop = p /\ row.status = "pending"
  BY NewRowType DEF NewRow
<1>3. verdict.outcome # "prompt" => ByRule(verdict) \in Deciders
  BY BookIsTable, VerdictType
<1>4. Stored(row, r) \in StoredResponse
  BY <1>1, <1>2, StoredType
<1>5. /\ Decided(r, "applied") \in Event /\ Decided(r, "denied") \in Event
      /\ Pending(r) \in Event
  BY <1>1, EventTypes DEF RowStatuses
<1>6. \/ verdict.outcome = "auto_approve" /\ SubmitApproved(r, row, verdict)
      \/ verdict.outcome = "deny" /\ SubmitDenied(r, row, verdict)
      \/ verdict.outcome = "prompt" /\ SubmitPending(r, row)
  BY DEF Submit
<1> HIDE DEF r, row, verdict
<1>7. idem' \subseteq StoredResponse /\ outbox' \subseteq Event
  BY <1>4, <1>5, <1>6 DEF TypeOK, SubmitApproved, SubmitDenied, SubmitPending
<1>8. CASE verdict.outcome = "auto_approve" /\ SubmitApproved(r, row, verdict)
  <2>1. PICK out \in Outcome :
          /\ ApplyNow(r, row, out)
          /\ reqs' = [reqs EXCEPT ![r] = Settle(row, ByRule(verdict), out)]
    BY <1>8 DEF SubmitApproved
  <2>2. QED
    BY <1>1, <1>2, <1>3, <1>7, <1>8, <2>1, ApplyContent DEF ContentGood
<1>9. CASE verdict.outcome = "deny" /\ SubmitDenied(r, row, verdict)
  <2> DEFINE new == Turn(row, ByRule(verdict), "denied")
  <2>1. new \in Request /\ new.status = "denied"
    BY <1>2, <1>3, <1>9, TurnType DEF Turn, Request
  <2>2. Unapplied /\ reqs' = [reqs EXCEPT ![r] = new]
    BY <1>9 DEF SubmitDenied
  <2> HIDE DEF new
  <2>3. QED
    BY <1>1, <1>7, <2>1, <2>2, TurnContent DEF ContentGood
<1>10. CASE SubmitPending(r, row)
  BY <1>1, <1>2, <1>7, <1>10, TurnContent DEF SubmitPending, ContentGood
<1>11. QED
  BY <1>6, <1>8, <1>9, <1>10

\* Rules change nothing but rules, until they are revoked: a reversal flips
\* rows that exist, because the request that it reverses was applied.
LEMMA RuleContent ==
  ASSUME TypeOK, RowsOK, ContentKept, RuleStep
  PROVE  ContentGood'
<1>1. UNCHANGED <<reqs, idem, outbox, jobs, fired>>
  BY DEF RuleStep, CreateRule, UpdateRule, DeleteRule, RevokeRule,
         ChangeRules, Unapplied, ReverseOne
<1>2. NewlyGrounded
  BY <1>1 DEF NewlyGrounded
<1>3. CASE Unapplied
  BY <1>1, <1>2, <1>3, QuietContent DEF ContentGood, TypeOK
<1>4. ASSUME NEW r \in Requests, ReverseOne(r)
      PROVE  ContentGood'
  <2> DEFINE p == reqs[r].prop
  <2>1. reqs[r] \in Request /\ reqs[r].status = "applied" /\ reqs[r] # Null
    BY <1>4 DEF ReverseOne, RowsOK, LoopsOK, TypeOK
  <2>2. Grounded(r, reqs[r], mods, pages)
    BY <2>1 DEF ContentKept, AllGrounded
  <2>3. p.action = "delete_module" => p.target \in Modules
    BY <2>1, ProposalType DEF Request, WellFormed
  <2>4. r \in Modules /\ r \in Pages
    BY PipelineAssumption
  <2>5. OneModule
    <3>1. CASE p.action = "create_module"
      <4>1. mods[r] \in Module
        BY <2>2, <2>4, <3>1 DEF Grounded, TypeOK
      <4>2. [mods[r] EXCEPT !.live = FALSE] \in Module
        BY <4>1, ModuleEdits
      <4>3. mods' = [mods EXCEPT ![r] = [mods[r] EXCEPT !.live = FALSE]]
        BY <1>4, <2>4, <3>1 DEF ReverseOne, TypeOK
      <4>4. QED
        BY <2>4, <4>2, <4>3 DEF OneModule
    <3>2. CASE p.action = "delete_module"
      <4>1. mods[p.target] \in Module
        BY <2>2, <2>3, <3>2 DEF Grounded, TypeOK
      <4>2. [mods[p.target] EXCEPT !.live = TRUE] \in Module
        BY <4>1, ModuleEdits
      <4>3. mods' = [mods EXCEPT
                       ![p.target] = [mods[p.target] EXCEPT !.live = TRUE]]
        BY <1>4, <2>3, <3>2 DEF ReverseOne, TypeOK
      <4>4. QED
        BY <2>3, <3>2, <4>2, <4>3 DEF OneModule
    <3>3. QED
      BY <1>4, <3>1, <3>2 DEF ReverseOne, OneModule
  <2>6. OnePage
    <3>1. CASE p.action = "create_page"
      <4>1. pages[r] \in Page
        BY <2>2, <2>4, <3>1 DEF Grounded, TypeOK
      <4>2. [pages[r] EXCEPT !.live = FALSE] \in Page
        BY <4>1, PageEdits
      <4>3. pages' = [pages EXCEPT ![r] = [pages[r] EXCEPT !.live = FALSE]]
        BY <1>4, <2>4, <3>1 DEF ReverseOne, TypeOK
      <4>4. QED
        BY <2>4, <4>2, <4>3 DEF OnePage
    <3>2. QED
      BY <1>4, <3>1 DEF ReverseOne, OnePage
  <2>7. QED
    BY <1>1, <1>2, <2>5, <2>6, ContentWritten DEF ContentGood, TypeOK
<1>5. QED
  BY <1>3, <1>4 DEF RuleStep, CreateRule, UpdateRule, DeleteRule, RevokeRule,
                    ChangeRules

\* The administrator's decisions, one by one, in bulk and by sweeps.
LEMMA DecideContent ==
  ASSUME TypeOK, RulesOK, RowsOK, ContentKept, DecideStep
  PROVE  ContentGood'
<1>1. CASE OpenBulk
  <2>1. Unapplied /\ UNCHANGED <<reqs, idem, outbox>>
    BY <1>1 DEF OpenBulk, Unapplied, tables
  <2>2. NewlyGrounded
    BY <2>1 DEF NewlyGrounded
  <2>3. QED
    BY <2>1, <2>2, QuietContent DEF ContentGood, TypeOK
<1>2. ASSUME NEW r \in Requests,
             \/ BulkApprove(r) \/ BulkDeny(r) \/ Sweep(r)
             \/ \E d \in Drafts \cup {Null} : Approve(r, d) \/ Deny(r, d)
      PROVE  ContentGood'
  <2> DEFINE verdict == Decide(RuleBook, AskedInSweep(r, reqs[r]))
  <2>1. IsPending(r)
    BY <1>2 DEF BulkApprove, BulkDeny, Sweep, Approve, Deny, RowsOK,
                SelectedStillPending
  <2>2. reqs[r] # Null /\ reqs[r] \in Request
    BY <2>1 DEF IsPending, TypeOK
  <2>3. verdict.outcome # "prompt" => BySweep(verdict) \in Deciders
    BY BookIsTable, VerdictType
  <2>4. Admin \in Deciders
    BY DeciderTypes
  <2>5. \A s \in RowStatuses : Decided(r, s) \in Event
    BY EventTypes
  <2>6. /\ idem' = idem
        /\ \/ outbox' = outbox
           \/ \E s \in RowStatuses : outbox' = outbox \cup {Decided(r, s)}
    BY <1>2 DEF BulkApprove, BulkDeny, Sweep, Approve, Deny, Outcome,
                RowStatuses
  <2>7. idem' \subseteq StoredResponse /\ outbox' \subseteq Event
    BY <2>5, <2>6 DEF TypeOK
  <2>8. \/ \E out \in Outcome, decider \in Deciders :
             /\ Apply(r, reqs[r], out)
             /\ reqs' = [reqs EXCEPT ![r] = Settle(reqs[r], decider, out)]
        \/ \E decider \in Deciders :
             /\ reqs' = [reqs EXCEPT ![r] = Turn(reqs[r], decider, "denied")]
             /\ Unapplied
        \/ UNCHANGED reqs /\ Unapplied
    <3>1. CASE BulkApprove(r)
      BY <2>4, <3>1 DEF BulkApprove
    <3>2. CASE BulkDeny(r)
      BY <2>4, <3>2 DEF BulkDeny
    <3>3. CASE Sweep(r)
      <4>1. \/ verdict.outcome = "auto_approve" /\ SweepApproved(r, verdict)
            \/ verdict.outcome = "deny" /\ SweepDenied(r, verdict)
            \/ verdict.outcome = "prompt" /\ SweepSkipped(r)
        BY <3>3 DEF Sweep
      <4> HIDE DEF verdict
      <4>2. QED
        BY <2>3, <4>1 DEF SweepApproved, SweepDenied, SweepSkipped
    <3>4. CASE \E d \in Drafts \cup {Null} : Approve(r, d)
      BY <2>4, <3>4 DEF Approve
    <3>5. CASE \E d \in Drafts \cup {Null} : Deny(r, d)
      BY <2>4, <3>5 DEF Deny
    <3>6. QED
      BY <1>2, <3>1, <3>2, <3>3, <3>4, <3>5
  <2>9. ASSUME NEW out \in Outcome, NEW decider \in Deciders,
               Apply(r, reqs[r], out),
               reqs' = [reqs EXCEPT ![r] = Settle(reqs[r], decider, out)]
        PROVE  ContentGood'
    BY <2>2, <2>7, <2>9, ApplyContent DEF ContentGood
  <2>10. ASSUME NEW decider \in Deciders, Unapplied,
                reqs' = [reqs EXCEPT ![r] = Turn(reqs[r], decider, "denied")]
         PROVE  ContentGood'
    <3>1. /\ Turn(reqs[r], decider, "denied") \in Request
          /\ Turn(reqs[r], decider, "denied").status = "denied"
      BY <2>2, TurnType DEF Turn, Request
    <3>2. QED
      BY <2>7, <2>10, <3>1, TurnContent DEF ContentGood
  <2>11. CASE UNCHANGED reqs /\ Unapplied
    BY <2>7, <2>11, QuietContent DEF ContentGood, NewlyGrounded
  <2>12. QED
    BY <2>8, <2>9, <2>10, <2>11
<1>3. QED
  BY <1>1, <1>2 DEF DecideStep

\* The administrator's own edits, expiry, and the jobs.
LEMMA AdminContent ==
  ASSUME TypeOK, ContentKept, AdminStep
  PROVE  ContentGood'
<1>1. UNCHANGED <<idem, outbox, jobs, fired>>
  BY DEF AdminStep, Expire, AdminCreatePage, AdminDeletePage,
         AdminDeleteModule, PatchTarget, DeleteTarget, Unapplied
<1>2. OneModule
  <2>1. ASSUME NEW m \in Modules, AdminDeleteModule(m)
        PROVE  OneModule
    <3>1. [mods[m] EXCEPT !.live = FALSE] \in Module
      BY <2>1, ModuleEdits DEF AdminDeleteModule, ModLive, TypeOK
    <3>2. mods' = [mods EXCEPT ![m] = [mods[m] EXCEPT !.live = FALSE]]
      BY <2>1 DEF AdminDeleteModule, TypeOK
    <3>3. QED
      BY <3>1, <3>2 DEF OneModule
  <2>2. QED
    BY <2>1 DEF AdminStep, Expire, AdminCreatePage, AdminDeletePage,
                PatchTarget, DeleteTarget, Unapplied, OneModule
<1>3. OnePage
  <2>1. ASSUME NEW p \in Pages, NEW slug \in Slugs, AdminCreatePage(p, slug)
        PROVE  OnePage
    <3>1. [live |-> TRUE, slug |-> slug, owner |-> Null, home |-> FALSE]
            \in Page
      BY DEF Page
    <3>2. QED
      BY <2>1, <3>1 DEF AdminCreatePage, OnePage
  <2>2. ASSUME NEW p \in Pages, AdminDeletePage(p)
        PROVE  OnePage
    <3>1. [pages[p] EXCEPT !.live = FALSE] \in Page
      BY <2>2, PageEdits DEF AdminDeletePage, PageLive, TypeOK
    <3>2. pages' = [pages EXCEPT ![p] = [pages[p] EXCEPT !.live = FALSE]]
      BY <2>2 DEF AdminDeletePage, TypeOK
    <3>3. QED
      BY <3>1, <3>2 DEF OnePage
  <2>3. QED
    BY <2>1, <2>2 DEF AdminStep, Expire, AdminDeleteModule, PatchTarget,
                      DeleteTarget, Unapplied, OnePage
<1>4. NewlyGrounded
  <2>1. CASE Expire
    <3>1. \A s \in Requests :
            \/ reqs'[s] = reqs[s]
            \/ reqs[s] \in Request
                 /\ reqs'[s] = Turn(reqs[s], Expiry, "expired")
      BY <2>1 DEF Expire, IsPending, TypeOK
    <3>2. \A s \in Requests : reqs'[s] = reqs[s] \/ reqs'[s].status = "expired"
      BY <3>1 DEF Turn, Request
    <3>3. QED
      BY <3>2 DEF NewlyGrounded
  <2>2. CASE UNCHANGED reqs
    BY <2>2 DEF NewlyGrounded
  <2>3. QED
    BY <2>1, <2>2 DEF AdminStep, AdminCreatePage, AdminDeletePage,
                      AdminDeleteModule, PatchTarget, DeleteTarget
<1>5. QED
  BY <1>1, <1>2, <1>3, <1>4, ContentWritten DEF ContentGood, TypeOK

\* A job writes its result on a row that exists, and no content.
LEMMA JobContent ==
  ASSUME TypeOK, RowsOK, ContentKept, JobStep
  PROVE  ContentGood'
<1>1. PICK r \in Requests : RunJob(r) \/ LoseJob(r)
  BY DEF JobStep
<1>2. /\ UNCHANGED <<mods, pages, idem, outbox>>
      /\ jobs[r] > 0 /\ jobs' = [jobs EXCEPT ![r] = @ - 1]
  BY <1>1 DEF RunJob, LoseJob, tables
<1>3. jobs' \in [Requests -> 0..MaxJobs]
  BY <1>2, PipelineAssumption DEF TypeOK
<1>4. reqs[r] # Null /\ reqs[r] \in Request
  BY <1>2 DEF RowsOK, JobsHaveRows, TypeOK
<1>5. fired' \in [Agents \X Keys -> 0..2]
  <2>1. reqs[r].agent \in Agents /\ reqs[r].key \in Keys
    BY <1>4 DEF Request
  <2>2. Dispatch(reqs[r].agent, reqs[r].key) \/ UNCHANGED fired
    BY <1>1 DEF RunJob, LoseJob
  <2>3. ContentOK
    BY DEF TypeOK, ContentOK
  <2>4. QED
    BY <2>1, <2>2, <2>3, DispatchType DEF TypeOK
<1>6. NewlyGrounded
  <2>1. \/ UNCHANGED reqs
        \/ \E x \in {"ok", "failed"} : reqs' = [reqs EXCEPT ![r].exec = x]
    BY <1>1 DEF RunJob, LoseJob, tables
  <2>2. ASSUME NEW x \in {"ok", "failed"}, reqs' = [reqs EXCEPT ![r].exec = x]
        PROVE  NewlyGrounded
    <3>1. reqs' = [reqs EXCEPT ![r] = [reqs[r] EXCEPT !.exec = x]]
      BY <2>2
    <3>2. /\ [reqs[r] EXCEPT !.exec = x].status = reqs[r].status
          /\ [reqs[r] EXCEPT !.exec = x].prop = reqs[r].prop
      BY <1>4 DEF Request
    <3>3. QED
      BY <1>4, <3>1, <3>2 DEF NewlyGrounded, TypeOK
  <2>3. QED
    BY <2>1, <2>2 DEF NewlyGrounded
<1>7. QED
  BY <1>2, <1>3, <1>5, <1>6, ContentWritten
  DEF ContentGood, TypeOK, OneModule, OnePage

\* A rollback or a crash brings the committed content back.
LEMMA EndContent ==
  ASSUME TypeOK, ContentKept, EndStep
  PROVE  ContentGood'
<1>1. outbox' = {} /\ fired' = fired
  BY DEF EndStep, Commit, Rollback, Crash
<1>2. jobs' \in [Requests -> 0..MaxJobs]
  BY PipelineAssumption DEF EndStep, Commit, Rollback, Crash, TypeOK
<1>3. CASE Commit
  BY <1>1, <1>2, <1>3
  DEF Commit, tables, ContentGood, ContentOK, ContentKept, TypeOK
<1>4. CASE Reload
  BY <1>1, <1>2, <1>4
  DEF Reload, ContentGood, ContentOK, ContentKept, TypeOK, Tables
<1>5. QED
  BY <1>3, <1>4 DEF EndStep, Rollback, Crash

-----------------------------------------------------------------------------
(***************************************************************************)
(* The invariant.                                                          *)
(***************************************************************************)
\* What few actions touch: the targets, the published events and the ids.
Rest ==
  /\ tgts \in [Targets -> Target] /\ heard \subseteq Event
  /\ minted \in [reqs : 0..MaxRequests, rules : 0..MaxRules]
  /\ phantom \in BOOLEAN

\* Targets, published events and minted ids keep their types.
LEMMA RestStep ==
  ASSUME TypeOK, [Next]_vars
  PROVE  Rest'
<1>1. \/ minted' = minted
      \/ /\ minted.reqs < MaxRequests
         /\ minted' = [minted EXCEPT !.reqs = minted.reqs + 1]
      \/ /\ minted.rules < MaxRules
         /\ minted' = [minted EXCEPT !.rules = @ + 1]
  <2>1. CASE AgentStep
    BY <2>1, AgentSubmits DEF Submit
  <2>2. CASE RuleStep
    BY <2>2 DEF RuleStep, CreateRule, AddRule, UpdateRule, DeleteRule,
                RevokeRule, ChangeRules, ReverseOne
  <2>3. CASE DecideStep
    <3> DEFINE Minting ==
          \/ minted' = minted
          \/ /\ minted.rules < MaxRules
             /\ minted' = [minted EXCEPT !.rules = @ + 1]
    <3>1. CASE OpenBulk \/ \E r \in Requests : BulkApprove(r) \/ BulkDeny(r)
      BY <3>1 DEF OpenBulk, BulkApprove, BulkDeny
    <3>2. ASSUME NEW r \in Requests, Sweep(r)
          PROVE  Minting
      BY <3>2 DEF Sweep
    <3>3. ASSUME NEW r \in Requests, NEW d \in Drafts \cup {Null},
                 Approve(r, d) \/ Deny(r, d)
          PROVE  Minting
      BY <3>3 DEF Approve, Deny, MaybeAddRule, AddRule
    <3>4. QED
      BY <2>3, <3>1, <3>2, <3>3 DEF DecideStep
  <2>4. CASE AdminStep
    BY <2>4 DEF AdminStep, Expire, AdminCreatePage, AdminDeletePage,
                AdminDeleteModule, PatchTarget, DeleteTarget
  <2>5. CASE JobStep
    BY <2>5 DEF JobStep, RunJob, LoseJob
  <2>6. CASE EndStep
    BY <2>6 DEF EndStep, Commit, Rollback, Crash
  <2>7. CASE UNCHANGED vars
    BY <2>7 DEF vars
  <2>8. QED
    BY <2>1, <2>2, <2>3, <2>4, <2>5, <2>6, <2>7 DEF Next
<1>2. minted' \in [reqs : 0..MaxRequests, rules : 0..MaxRules]
  BY <1>1, PipelineAssumption DEF TypeOK
<1>3. phantom' \in BOOLEAN
  <2>1. CASE AgentStep
    BY <2>1, AgentSubmits DEF Submit, TypeOK
  <2>2. CASE RuleStep
    BY <2>2 DEF RuleStep, CreateRule, AddRule, UpdateRule, DeleteRule,
                RevokeRule, ChangeRules, ReverseOne, Invalidate, TypeOK
  <2>3. CASE DecideStep
    <3>1. CASE OpenBulk \/ \E r \in Requests : BulkApprove(r) \/ BulkDeny(r)
      BY <3>1 DEF OpenBulk, BulkApprove, BulkDeny, TypeOK
    <3>2. ASSUME NEW r \in Requests, Sweep(r)
          PROVE  phantom' \in BOOLEAN
      BY <3>2 DEF Sweep, TypeOK
    <3>3. ASSUME NEW r \in Requests, NEW d \in Drafts \cup {Null},
                 Approve(r, d) \/ Deny(r, d)
          PROVE  phantom' \in BOOLEAN
      BY <3>3 DEF Approve, Deny, MaybeAddRule, AddRule, Invalidate, TypeOK
    <3>4. QED
      BY <2>3, <3>1, <3>2, <3>3 DEF DecideStep
  <2>4. CASE AdminStep
    BY <2>4 DEF AdminStep, Expire, AdminCreatePage, AdminDeletePage,
                AdminDeleteModule, PatchTarget, DeleteTarget, TypeOK
  <2>5. CASE JobStep
    BY <2>5 DEF JobStep, RunJob, LoseJob, TypeOK
  <2>6. CASE EndStep
    BY <2>6 DEF EndStep, Commit, Rollback, Crash, TypeOK
  <2>7. CASE UNCHANGED vars
    BY <2>7 DEF vars, TypeOK
  <2>8. QED
    BY <2>1, <2>2, <2>3, <2>4, <2>5, <2>6, <2>7 DEF Next
<1>4. tgts' \in [Targets -> Target]
  <2>1. CASE AgentStep
    BY <2>1, AgentSubmits DEF Submit, TypeOK
  <2>2. CASE RuleStep
    BY <2>2 DEF RuleStep, CreateRule, UpdateRule, DeleteRule, RevokeRule,
                ChangeRules, ReverseOne, TypeOK
  <2>3. CASE DecideStep
    BY <2>3 DEF DecideStep, OpenBulk, Approve, Deny, BulkApprove, BulkDeny,
                Sweep, tables, TypeOK
  <2>4. CASE AdminStep
    <3>1. ASSUME NEW t \in Targets, PatchTarget(t)
          PROVE  tgts' \in [Targets -> Target]
      BY <3>1, PipelineAssumption DEF PatchTarget, TypeOK
    <3>2. ASSUME NEW t \in Targets, DeleteTarget(t)
          PROVE  tgts' \in [Targets -> Target]
      <4>1. [tgts[t] EXCEPT !.live = FALSE] \in Target
        BY DEF TypeOK, Target
      <4>2. tgts' = [tgts EXCEPT ![t] = [tgts[t] EXCEPT !.live = FALSE]]
        BY <3>2 DEF DeleteTarget
      <4>3. QED
        BY <4>1, <4>2 DEF TypeOK
    <3>3. QED
      BY <2>4, <3>1, <3>2
      DEF AdminStep, Expire, AdminCreatePage, AdminDeletePage,
          AdminDeleteModule, TypeOK
  <2>5. CASE JobStep
    BY <2>5 DEF JobStep, RunJob, LoseJob, tables, TypeOK
  <2>6. CASE EndStep
    BY <2>6 DEF EndStep, Commit, Rollback, Crash, Reload, tables, TypeOK,
                Tables
  <2>7. CASE UNCHANGED vars
    BY <2>7 DEF vars, TypeOK
  <2>8. QED
    BY <2>1, <2>2, <2>3, <2>4, <2>5, <2>6, <2>7 DEF Next
<1>5. heard' \subseteq Event
  <2>1. CASE AgentStep
    BY <2>1, AgentSubmits DEF Submit, TypeOK
  <2>2. CASE RuleStep
    BY <2>2 DEF RuleStep, CreateRule, UpdateRule, DeleteRule, RevokeRule,
                ChangeRules, ReverseOne, TypeOK
  <2>3. CASE DecideStep
    BY <2>3 DEF DecideStep, OpenBulk, Approve, Deny, BulkApprove, BulkDeny,
                Sweep, TypeOK
  <2>4. CASE AdminStep
    BY <2>4 DEF AdminStep, Expire, AdminCreatePage, AdminDeletePage,
                AdminDeleteModule, PatchTarget, DeleteTarget, TypeOK
  <2>5. CASE JobStep
    BY <2>5 DEF JobStep, RunJob, LoseJob, TypeOK
  <2>6. CASE EndStep
    BY <2>6 DEF EndStep, Commit, Rollback, Crash, TypeOK
  <2>7. CASE UNCHANGED vars
    BY <2>7 DEF vars, TypeOK
  <2>8. QED
    BY <2>1, <2>2, <2>3, <2>4, <2>5, <2>6, <2>7 DEF Next
<1>6. QED
  BY <1>2, <1>3, <1>4, <1>5 DEF Rest

\* Only a commit writes the disk (get_session).
LEMMA DiskStep ==
  ASSUME TypeOK, [Next]_vars
  PROVE  UNCHANGED disk \/ disk' = Committed
<1>1. CASE AgentStep
  BY <1>1, AgentSubmits DEF Submit
<1>2. CASE RuleStep
  BY <1>2 DEF RuleStep, CreateRule, UpdateRule, DeleteRule, RevokeRule,
              ChangeRules, ReverseOne
<1>3. CASE DecideStep
  BY <1>3 DEF DecideStep, OpenBulk, Approve, Deny, BulkApprove, BulkDeny,
              Sweep
<1>4. CASE AdminStep
  BY <1>4 DEF AdminStep, Expire, AdminCreatePage, AdminDeletePage,
              AdminDeleteModule, PatchTarget, DeleteTarget
<1>5. CASE JobStep
  BY <1>5 DEF JobStep, RunJob, LoseJob
<1>6. CASE EndStep
  BY <1>6 DEF EndStep, Commit, Rollback, Crash
<1>7. CASE UNCHANGED vars
  BY <1>7 DEF vars
<1>8. QED
  BY <1>1, <1>2, <1>3, <1>4, <1>5, <1>6, <1>7 DEF Next

\* Every step keeps the content typed and the applied rows grounded.
LEMMA ContentStep ==
  ASSUME TypeOK, RulesOK, RowsOK, ContentKept, [Next]_vars
  PROVE  ContentGood'
<1>1. CASE AgentStep
  <2>1. PICK a \in Agents, p \in Proposals, k \in Keys :
           /\ p.lines => ModLive(p.target)
           /\ \E q : Submit(a, p, k, q)
    BY <1>1, AgentSubmits
  <2>2. QED
    BY <2>1, SubmitContent
<1>2. CASE UNCHANGED vars
  BY <1>2 DEF vars, ContentGood, ContentOK, ContentKept, TypeOK
<1>3. QED
  BY <1>1, <1>2, RuleContent, DecideContent, AdminContent, JobContent,
     EndContent
  DEF Next

\* The invariant holds at the start, with the seeded tables.
LEMMA InvInit == Init => Inv
<1> SUFFICES ASSUME Init PROVE Inv
  OBVIOUS
<1>1. TypeOK
  <2>1. /\ reqs \in [Requests -> Request \cup {Null}]
        /\ rules \subseteq Rule
        /\ mods \in [Modules -> Module \cup {Null}]
        /\ pages \in [Pages -> Page \cup {Null}]
        /\ tgts \in [Targets -> Target] /\ idem \subseteq StoredResponse
    BY PipelineAssumption DEF Init
  <2>2. disk \in Tables
    BY <2>1 DEF Init, Committed, Tables
  <2>3. tx \in Transaction
    BY TransactionForms DEF Init
  <2>4. /\ jobs \in [Requests -> 0..MaxJobs]
        /\ fired \in [Agents \X Keys -> 0..2]
        /\ minted \in [reqs : 0..MaxRequests, rules : 0..MaxRules]
    BY PipelineAssumption DEF Init
  <2>5. QED
    BY <2>1, <2>2, <2>3, <2>4 DEF Init, TypeOK
<1>2. ContentKept
  BY DEF Init, ContentKept, AllGrounded, Committed
<1>3. QED
  BY <1>1, <1>2, RulesInit, RowsInit DEF Inv

\* Every step, of agents, administrator, jobs or the session, keeps it.
LEMMA InvNext == Inv /\ [Next]_vars => Inv'
<1> SUFFICES ASSUME Inv, [Next]_vars PROVE Inv'
  OBVIOUS
<1> USE DEF Inv
<1>1. RulesOK' /\ RowsOK' /\ Settled' /\ ContentGood' /\ Rest'
  BY RulesStep, RowsStep, ContentStep, RestStep
<1>2. disk' \in Tables
  BY DiskStep DEF TypeOK, Committed, Tables
<1>3. rules' \subseteq Rule /\ cache' \in (SUBSET Rule) \cup {NoCache}
  BY <1>1 DEF RulesOK, Numbered
<1>4. tx' \in Transaction /\ reqs' \in [Requests -> Request \cup {Null}]
  BY RowsStep
<1>5. TypeOK'
  BY <1>1, <1>2, <1>3, <1>4 DEF TypeOK, ContentGood, ContentOK, Rest, NoCache
<1>6. ContentKept'
  BY <1>1, DiskStep DEF ContentKept, ContentGood, Committed
<1>7. QED
  BY <1>1, <1>5, <1>6

\* The invariant holds of every behaviour.
THEOREM Invariant == Spec => []Inv
<1>1. QED
  BY InvInit, InvNext, PTL DEF Spec

\* Everything the pipeline keeps has its type.
THEOREM TypeCorrect == Spec => []TypeOK
<1>1. Inv => TypeOK
  BY DEF Inv
<1>2. QED
  BY <1>1, Invariant, PTL

\* A sweep or a bulk decision never comes to a row that is no longer pending.
THEOREM LoopsMeetPending == Spec => []SelectedStillPending
<1>1. Inv => SelectedStillPending
  BY DEF Inv, RowsOK
<1>2. QED
  BY <1>1, Invariant, PTL

\* Unless a phantom is in it, the cache is the table of enabled rules.
THEOREM CacheTheorem == Spec => []CacheCoherent
<1>1. Inv => CacheCoherent
  BY DEF Inv, RulesOK
<1>2. QED
  BY <1>1, Invariant, PTL
-----------------------------------------------------------------------------
\* Only a submission makes a request arrive decided: no other step adds a row.
LEMMA OnlySubmissionsArrive ==
  ASSUME Inv, [Next]_vars, NEW r \in Requests, Arrives(r)
  PROVE  AgentStep
<1> USE DEF Inv
<1>1. reqs[r] = Null /\ reqs'[r] # Null
  BY DEF Arrives
<1>2. ~ UNCHANGED reqs
  BY <1>1
<1>3. CASE DecideStep
  <2>1. PICK s \in Requests :
          \/ BulkApprove(s) \/ BulkDeny(s) \/ Sweep(s)
          \/ \E d \in Drafts \cup {Null} : Approve(s, d) \/ Deny(s, d)
    BY <1>2, <1>3 DEF DecideStep, OpenBulk, tables
  <2>2. IsPending(s)
    BY <2>1 DEF BulkApprove, BulkDeny, Sweep, Approve, Deny, RowsOK,
                SelectedStillPending
  <2>3. s # r
    BY <1>1, <2>2 DEF IsPending
  <2>4. \/ UNCHANGED reqs
        \/ \E new : reqs' = [reqs EXCEPT ![s] = new]
    BY <2>1 DEF BulkApprove, BulkDeny, Sweep, Approve, Deny, SweepApproved,
                SweepDenied, SweepSkipped
  <2>5. QED
    BY <1>1, <2>3, <2>4 DEF TypeOK
<1>4. CASE AdminStep
  BY <1>1, <1>2, <1>4
  DEF AdminStep, Expire, AdminCreatePage, AdminDeletePage, IsPending,
      AdminDeleteModule, PatchTarget, DeleteTarget
<1>5. CASE JobStep
  <2>1. PICK s \in Requests : RunJob(s) /\ jobs[s] > 0
    BY <1>2, <1>5 DEF JobStep, RunJob, LoseJob, tables
  <2>2. s # r
    BY <1>1, <2>1 DEF RowsOK, JobsHaveRows
  <2>3. \E x : reqs' = [reqs EXCEPT ![s].exec = x]
    BY <1>2, <2>1 DEF RunJob
  <2>4. QED
    BY <1>1, <2>2, <2>3 DEF TypeOK
<1>6. CASE EndStep
  BY <1>1, <1>2, <1>6
  DEF EndStep, Commit, Rollback, Crash, Reload, tables, RowsOK, RowsOnDisk
<1>7. CASE RuleStep
  BY <1>2, <1>7
  DEF RuleStep, CreateRule, UpdateRule, DeleteRule, RevokeRule, ChangeRules,
      ReverseOne
<1>8. QED
  BY <1>2, <1>3, <1>4, <1>5, <1>6, <1>7 DEF Next, vars

\* A proposal decided on arrival was decided by a committed, enabled rule of
\* its action and of the matching outcome, unless the cache is a phantom.
LEMMA ArrivalBacked ==
  ASSUME Inv, [Next]_vars, NEW r \in Requests, Arrives(r), ~ phantom
  PROVE  BackedByRule(r)
<1> USE DEF Inv
<1>1. PICK a \in Agents, p \in Proposals, k \in Keys :
        \E q : q.action = p.action /\ Submit(a, p, k, q)
  BY OnlySubmissionsArrive, AgentSubmits
<1>2. PICK q : q.action = p.action /\ Submit(a, p, k, q)
  BY <1>1
<1> DEFINE n == minted.reqs + 1
           row == NewRow(a, p, k)
           verdict == Decide(RuleBook, q)
<1>3. disk.rules = rules
  BY <1>2 DEF Submit, Settled, Committed
<1>4. RuleBook = Enabled(disk.rules)
  BY <1>3 DEF RulesOK, CacheCoherent, RuleBook
<1>5. row \in Request /\ row.prop = p /\ row.by = NoOne
  BY NewRowType DEF NewRow
<1>6. \/ verdict.outcome = "auto_approve" /\ SubmitApproved(n, row, verdict)
      \/ verdict.outcome = "deny" /\ SubmitDenied(n, row, verdict)
      \/ verdict.outcome = "prompt" /\ SubmitPending(n, row)
  BY <1>2 DEF Submit
<1>7. \/ verdict.outcome = "prompt"
      \/ \E rl \in Candidates(RuleBook, q) :
           verdict = [outcome |-> rl.outcome, rule |-> rl.id]
  BY BookIsTable, DecideSound
<1> HIDE DEF n, row, verdict
<1>8. \E new : reqs' = [reqs EXCEPT ![n] = new]
  BY <1>6 DEF SubmitApproved, SubmitDenied, SubmitPending
<1>9. n = r
  BY <1>8 DEF Arrives, TypeOK
<1>10. verdict.outcome # "prompt"
  <2>1. verdict.outcome = "prompt" => reqs'[r] = row
    BY <1>6, <1>9 DEF SubmitPending, TypeOK
  <2>2. QED
    BY <1>5, <2>1 DEF Arrives
<1>11. /\ reqs'[r].by = ByRule(verdict)
       /\ reqs'[r].prop = p
       /\ verdict.outcome = "deny" <=> reqs'[r].status = "denied"
  <2>1. CASE verdict.outcome = "auto_approve" /\ SubmitApproved(n, row, verdict)
    <3>1. PICK out \in Outcome :
            reqs' = [reqs EXCEPT ![n] = Settle(row, ByRule(verdict), out)]
      BY <2>1 DEF SubmitApproved
    <3>2. reqs'[r] = Settle(row, ByRule(verdict), out)
      BY <1>9, <3>1 DEF TypeOK
    <3>3. QED
      BY <1>5, <2>1, <3>2 DEF Settle, Request, Outcome
  <2>2. CASE verdict.outcome = "deny" /\ SubmitDenied(n, row, verdict)
    <3>1. reqs'[r] = Turn(row, ByRule(verdict), "denied")
      BY <1>9, <2>2 DEF SubmitDenied, TypeOK
    <3>2. QED
      BY <1>5, <2>2, <3>1 DEF Turn, Request
  <2>3. QED
    BY <1>6, <1>10, <2>1, <2>2
<1>12. PICK rl \in disk.rules :
         /\ rl.enabled /\ rl.action = p.action
         /\ verdict = [outcome |-> rl.outcome, rule |-> rl.id]
  BY <1>2, <1>4, <1>7, <1>10 DEF Candidates, Enabled
<1>13. rl.outcome \in Outcomes
  BY <1>12 DEF RulesOK, Numbered, Rule
<1>14. rl.id = reqs'[r].by.rule
  BY <1>11, <1>12 DEF ByRule
<1>15. rl.outcome = IF reqs'[r].status = "denied" THEN "deny"
                    ELSE "auto_approve"
  BY <1>10, <1>11, <1>12, <1>13 DEF Outcomes
<1>16. QED
  BY <1>11, <1>12, <1>14, <1>15 DEF BackedByRule

\* Decisions on arrival are those of committed rules (submit_request).
THEOREM DecisionsBacked == Spec => DecidedByCommittedRule
<1>1. Inv /\ [Next]_vars =>
        [\A r \in Requests : (Arrives(r) /\ ~ phantom) => BackedByRule(r)]_vars
  BY ArrivalBacked
<1>2. QED
  BY <1>1, Invariant, PTL DEF Spec, DecidedByCommittedRule

-----------------------------------------------------------------------------
(***************************************************************************)
(* The history of a request: from the handler that mints it to whatever    *)
(* is told of it after a commit.  What is true of the committed rows is    *)
(* true of the rows in a handler's tables too, except on the way to a      *)
(* rollback, where a row may be half-decided, unstored or unannounced.     *)
(***************************************************************************)
\* A row keeps its proposal, and a decision is final.
Follows(old, new) ==
  /\ new.agent = old.agent /\ new.key = old.key /\ new.prop = old.prop
  /\ old.status # "pending" => new.status = old.status /\ new.by = old.by

\* A row has a decider from the moment it is no longer pending.
Signed(row) == row.by = NoOne <=> row.status = "pending"

Growing ==
  \A r \in Requests :
    /\ disk.reqs[r] # Null => reqs[r] # Null /\ Follows(disk.reqs[r], reqs[r])
    /\ reqs[r] # Null => Signed(reqs[r]) /\ r <= minted.reqs
    /\ disk.reqs[r] # Null => Signed(disk.reqs[r])

\* Events speak of rows, and those of a decision of its outcome.
Speaks(e, rows) ==
  /\ rows[e.req] # Null
  /\ e.kind = "approval_decided" =>
       e.status # "pending" /\ rows[e.req].status = e.status
AllTrue(events, rows) == \A e \in events : Speaks(e, rows)
EventsOK == AllTrue(outbox, reqs) /\ AllTrue(heard, disk.reqs)

\* Requests of one agent, endpoint and key are one, and their response is
\* stored.
Same(row, other) == Stored(row, 0) = Stored(other, 0)
AllStored(rows, responses) ==
  \A r \in Requests : rows[r] # Null => Stored(rows[r], r) \in responses
KeysOK ==
  /\ \A r, s \in Requests :
       (reqs[r] # Null /\ reqs[s] # Null /\ Same(reqs[r], reqs[s])) => r = s
  /\ tx # Aborting => AllStored(reqs, idem)
  /\ AllStored(disk.reqs, disk.idem)

\* The decisions of the administrator, and of a rule on arrival, that are to
\* be announced; and the rows that only a bulk call may leave as they are.
Notable(row) ==
  /\ row.by.who \in {"admin", "rule"}
  /\ \/ row.status = "denied"
     \/ row.status = "applied" /\ row.prop.action # "fire_action_button"
AllAnnounced(rows, events) ==
  \A r \in Requests : rows[r] # Null /\ Notable(rows[r]) =>
    Decided(r, rows[r].status) \in events
AnnouncedOK ==
  /\ tx # Aborting => AllAnnounced(reqs, heard \cup outbox)
  /\ AllAnnounced(disk.reqs, heard)

Stuck(row) ==
  \/ row.status = "approved"
  \/ /\ row.status = "applied" /\ row.exec = "none"
     /\ row.prop.action = "fire_action_button"
FromBulk(row) ==
  row.by = Admin /\ (row.prop.lines \/ row.prop.action = "fire_action_button")
AllFromBulk(rows) ==
  \A r \in Requests : rows[r] # Null /\ Stuck(rows[r]) => FromBulk(rows[r])
StuckOK == (tx # Aborting => AllFromBulk(reqs)) /\ AllFromBulk(disk.reqs)

\* A result on a row is that of an effect outside.
AllFired(rows) ==
  \A r \in Requests : rows[r] # Null /\ rows[r].exec \in {"ok", "failed"} =>
    fired[<<rows[r].agent, rows[r].key>>] > 0
FiredOK == AllFired(reqs) /\ AllFired(disk.reqs)

\* The content of every module and page has the request it came from.
Created(row, action) ==
  row # Null /\ row.prop.action = action /\ row.status = "applied"
Wrote(row, r, m) ==
  /\ row # Null /\ row.status \in {"applied", "application_failed"}
  /\ m = r \/ row.prop.target = m
CausedBy(r, row, ms, ps) ==
  /\ ms[r] # Null <=> Created(row, "create_module")
  /\ ps[r] # Null <=> Created(row, "create_page")
  /\ \A m \in Modules : ms[m] # Null /\ ms[m].writer = r => Wrote(row, r, m)
AllCaused(rows, ms, ps) ==
  \A r \in Requests : CausedBy(r, rows[r], ms, ps)
CausesOK ==
  AllCaused(reqs, mods, pages) /\ AllCaused(disk.reqs, disk.mods, disk.pages)

History ==
  /\ Growing /\ EventsOK /\ KeysOK /\ AnnouncedOK /\ StuckOK /\ FiredOK
  /\ CausesOK

-----------------------------------------------------------------------------
\* What a decision on request r may do to the content.
ContentFrom(r, new) ==
  /\ mods'[r] # Null <=> mods[r] # Null \/ Created(new, "create_module")
  /\ pages'[r] # Null <=> pages[r] # Null \/ Created(new, "create_page")
  /\ \A s \in Requests \ {r} :
       /\ mods'[s] # Null <=> mods[s] # Null
       /\ pages'[s] # Null <=> pages[s] # Null
  /\ \A m \in Modules : mods'[m] # Null =>
       \/ mods[m] # Null /\ mods'[m].writer = mods[m].writer
       \/ mods'[m].writer = r /\ Wrote(new, r, m)

\* Effects outside are not taken back.
FiredStays ==
  \A u \in Agents \X Keys : fired[u] > 0 => fired'[u] > 0

\* What the attempt to apply a pending request leaves of its row, of the
\* content and of the world outside.
Attempt(r, row, new, fault) ==
  /\ new \in Request /\ Follows(row, new) /\ new.status # "pending"
  /\ fault = "none" => ~ Stuck(new)
  /\ fault # "poisoned" /\ Stuck(new) =>
       new.prop.lines \/ new.prop.action = "fire_action_button"
  /\ fault # "none" => ~ (new.status = "denied")
                         /\ (new.status = "applied" =>
                               new.prop.action = "fire_action_button")
  /\ new.exec \in {"ok", "failed"} =>
       new.exec = row.exec \/ fired'[<<new.agent, new.key>>] > 0
  /\ FiredStays /\ ContentFrom(r, new)

\* Dispatching counts, and keeps what was counted (dispatch_target).
LEMMA DispatchCounts ==
  ASSUME fired \in [Agents \X Keys -> 0..2], NEW a \in Agents, NEW k \in Keys,
         Dispatch(a, k)
  PROVE  FiredStays /\ fired'[<<a, k>>] > 0
BY DEF Dispatch, FiredStays

\* The row that an attempt leaves.
LEMMA SettleFields ==
  ASSUME NEW row \in Request, row.status = "pending", NEW d \in Deciders,
         NEW out \in Outcome
  PROVE  /\ Settle(row, d, out) \in Request
         /\ Follows(row, Settle(row, d, out))
         /\ Settle(row, d, out).status = out.status
         /\ Settle(row, d, out).status # "pending"
         /\ Settle(row, d, out).by = d
         /\ Settle(row, d, out).prop = row.prop
         /\ Settle(row, d, out).agent = row.agent
         /\ Settle(row, d, out).key = row.key
         /\ Settle(row, d, out).exec = IF out.exec = "none" THEN row.exec
                                       ELSE out.exec
<1>1. Settle(row, d, out) \in Request
  BY SettleType
<1>2. QED
  BY <1>1 DEF Settle, Follows, Request, Outcome

\* A step without an effect outside or on the content.
LEMMA NothingElse ==
  ASSUME UNCHANGED <<mods, pages, fired>>, NEW r, NEW new,
         ~ Created(new, "create_module"), ~ Created(new, "create_page")
  PROVE  FiredStays /\ ContentFrom(r, new)
BY DEF FiredStays, ContentFrom

\* apply_request and the direct path of append_log, seen from the row.
LEMMA AttemptEffect ==
  ASSUME ContentOK, NEW r \in Requests, NEW row \in Request,
         row.status = "pending", NEW d \in Deciders, NEW out \in Outcome,
         \/ Apply(r, row, out)
         \/ /\ row.prop.lines /\ ModLive(row.prop.target)
            /\ ApplyAppendLog(r, row, out)
  PROVE  Attempt(r, row, Settle(row, d, out), out.fault)
<1> DEFINE new == Settle(row, d, out)
           m == row.prop.target
<1>1. /\ new \in Request /\ Follows(row, new) /\ new.status = out.status
      /\ new.status # "pending" /\ new.by = d /\ new.prop = row.prop
      /\ new.agent = row.agent /\ new.key = row.key
      /\ new.exec = IF out.exec = "none" THEN row.exec ELSE out.exec
  BY SettleFields
<1>2. /\ row.prop \in Proposal /\ WellFormed(row.prop)
      /\ row.agent \in Agents /\ row.key \in Keys
  BY ProposalType DEF Request
<1>3. r \in Modules /\ r \in Pages
  BY PipelineAssumption
<1>4. Null \notin Module /\ Null \notin Page /\ new # Null
  BY <1>1, PipelineAssumption
<1> DEFINE Rest1 ==
        /\ out.fault = "none" => ~ Stuck(new)
        /\ out.fault # "poisoned" /\ Stuck(new) =>
             new.prop.lines \/ new.prop.action = "fire_action_button"
        /\ out.fault # "none" =>
             ~ (new.status = "denied")
               /\ (new.status = "applied" =>
                     new.prop.action = "fire_action_button")
        /\ new.exec \in {"ok", "failed"} =>
             new.exec = row.exec \/ fired'[<<new.agent, new.key>>] > 0
<1> SUFFICES Attempt(r, row, new, out.fault)
  OBVIOUS
<1> HIDE DEF new
<1>5. CASE ApplyCreateModule(r, row, out)
  <2>1. /\ row.prop.action = "create_module"
        /\ UNCHANGED <<pages, jobs, fired>>
        /\ \/ out = Failed /\ UNCHANGED mods
           \/ /\ out = Applied
              /\ mods' = [mods EXCEPT ![r] =
                            [live |-> TRUE, page |-> row.prop.page,
                             owner |-> row.agent, mtype |-> row.prop.mtype,
                             writer |-> r]]
    BY <1>5 DEF ApplyCreateModule
  <2> DEFINE mod == [live |-> TRUE, page |-> row.prop.page,
                     owner |-> row.agent, mtype |-> row.prop.mtype,
                     writer |-> r]
  <2>2. mod \in Module /\ mod.writer = r
    BY <1>2, <2>1 DEF Module, WellFormed
  <2> HIDE DEF mod
  <2>3. Rest1 /\ FiredStays
    BY <1>1, <2>1 DEF Stuck, Failed, Applied, FiredStays
  <2>4. CASE out = Failed /\ UNCHANGED mods
    BY <1>1, <2>1, <2>3, <2>4, NothingElse DEF Failed, Applied, Created, Attempt
  <2>5. CASE out = Applied /\ mods' = [mods EXCEPT ![r] = mod]
    <3>1. Created(new, "create_module") /\ ~ Created(new, "create_page")
      BY <1>1, <1>4, <2>1, <2>5 DEF Applied, Created
    <3>2. Wrote(new, r, r)
      BY <1>1, <1>4, <2>5 DEF Applied, Wrote
    <3>3. /\ mods'[r] = mod
          /\ \A n \in Modules \ {r} : mods'[n] = mods[n]
      BY <1>3, <2>5 DEF ContentOK
    <3>4. \A s \in Requests : s \in Modules
      BY PipelineAssumption
    <3>5. ContentFrom(r, new)
      BY <1>3, <1>4, <2>1, <2>2, <3>1, <3>2, <3>3, <3>4 DEF ContentFrom
    <3>6. QED
      BY <1>1, <2>3, <3>5 DEF Attempt
  <2>6. QED
    BY <2>1, <2>4, <2>5 DEF mod
<1>6. CASE ApplyUpdateModule(r, row, out)
  <2> DEFINE written == IF row.prop.edits
                        THEN [mods EXCEPT ![m].writer = r] ELSE mods
             page == row.prop.page
  <2>1. /\ row.prop.action \in UpdateActions
        /\ UNCHANGED <<pages, jobs, fired>>
        /\ \/ out = Raised("approved") /\ row.prop.lines /\ UNCHANGED mods
           \/ out = Failed /\ UNCHANGED mods
           \/ /\ out \in {Applied, Failed} /\ ModLive(m)
              /\ mods' \in {written, [written EXCEPT ![m].page = page]}
    BY <1>6 DEF ApplyUpdateModule
  <2>2. m \in Modules
    BY <1>2, <2>1 DEF WellFormed
  <2>3. /\ ~ Created(new, "create_module") /\ ~ Created(new, "create_page")
        /\ new.prop.action # "fire_action_button"
    BY <1>1, <2>1 DEF Created, UpdateActions
  <2>4. Rest1 /\ FiredStays
    BY <1>1, <2>1, <2>3 DEF Stuck, Failed, Applied, Raised, FiredStays
  <2>5. CASE UNCHANGED mods
    BY <1>1, <2>1, <2>3, <2>4, <2>5, NothingElse DEF Attempt
  <2>6. CASE /\ out \in {Applied, Failed} /\ ModLive(m)
             /\ mods' \in {written, [written EXCEPT ![m].page = page]}
    <3>1. Wrote(new, r, m)
      BY <1>1, <1>4, <2>6 DEF Applied, Failed, Wrote
    <3>2. mods[m] \in Module
      BY <2>2, <2>6 DEF ModLive, ContentOK
    <3>3. /\ \A n \in Modules \ {m} : mods'[n] = mods[n]
          /\ mods'[m].writer \in {mods[m].writer, r}
      <4>1. /\ written \in [Modules -> Module \cup {Null}]
            /\ written[m].writer \in {mods[m].writer, r}
            /\ written[m] \in Module
            /\ \A n \in Modules \ {m} : written[n] = mods[n]
        <5>1. CASE ~ row.prop.edits
          BY <2>2, <3>2, <5>1 DEF ContentOK
        <5>2. CASE row.prop.edits
          <6>1. written = [mods EXCEPT ![m] = [mods[m] EXCEPT !.writer = r]]
            BY <2>2, <5>2 DEF ContentOK
          <6>2. /\ [mods[m] EXCEPT !.writer = r] \in Module
                /\ [mods[m] EXCEPT !.writer = r].writer = r
            BY <3>2 DEF Module
          <6> HIDE DEF written
          <6>3. QED
            BY <2>2, <6>1, <6>2 DEF ContentOK
        <5>3. QED
          BY <5>1, <5>2
      <4> HIDE DEF written
      <4>2. CASE mods' = written
        BY <4>1, <4>2
      <4>3. CASE mods' = [written EXCEPT ![m].page = page]
        <5>1. mods' = [written EXCEPT ![m] = [written[m] EXCEPT !.page = page]]
          BY <2>2, <4>1, <4>3
        <5>2. [written[m] EXCEPT !.page = page].writer = written[m].writer
          BY <4>1 DEF Module
        <5>3. QED
          BY <2>2, <4>1, <5>1, <5>2
      <4>4. QED
        BY <2>6, <4>2, <4>3
    <3>4. mods'[m] # Null
      <4>1. OneModule
        BY <1>6, ApplyEffect DEF Apply
      <4>2. QED
        BY <1>4, <2>2, <2>6, <4>1 DEF OneModule, ContentOK, ModLive
    <3>5. mods[m] # Null
      BY <2>6 DEF ModLive
    <3>6. \A s \in Requests : s \in Modules
      BY PipelineAssumption
    <3>7. ContentFrom(r, new)
      BY <2>1, <2>2, <2>3, <3>1, <3>3, <3>4, <3>5, <3>6, <1>3 DEF ContentFrom
    <3>8. QED
      BY <1>1, <2>4, <3>7 DEF Attempt
  <2>7. QED
    BY <2>1, <2>5, <2>6
<1>7. CASE row.prop.lines /\ ModLive(m) /\ ApplyAppendLog(r, row, out)
  <2>1. m \in Modules /\ row.prop.action = "update_module_data"
    BY <1>2, <1>7 DEF WellFormed, UpdateActions
  <2>2. /\ out = Applied /\ UNCHANGED <<pages, jobs, fired>>
        /\ mods' = [mods EXCEPT ![m] = [mods[m] EXCEPT !.writer = r]]
    BY <1>7, <2>1 DEF ApplyAppendLog, ContentOK
  <2>3. mods[m] # Null /\ mods[m] \in Module
    BY <1>7, <2>1 DEF ModLive, ContentOK
  <2>4. /\ [mods[m] EXCEPT !.writer = r] \in Module
        /\ [mods[m] EXCEPT !.writer = r].writer = r
    BY <2>3 DEF Module
  <2>5. /\ mods'[m] # Null /\ mods'[m].writer = r
        /\ \A n \in Modules \ {m} : mods'[n] = mods[n]
    BY <1>4, <2>1, <2>2, <2>4 DEF ContentOK
  <2>6. Rest1 /\ FiredStays
    BY <1>1, <2>1, <2>2 DEF Stuck, Applied, FiredStays
  <2>7. /\ Wrote(new, r, m)
        /\ ~ Created(new, "create_module") /\ ~ Created(new, "create_page")
    BY <1>1, <1>4, <2>1, <2>2 DEF Applied, Wrote, Created
  <2>8. \A s \in Requests : s \in Modules
    BY PipelineAssumption
  <2>9. ContentFrom(r, new)
    BY <1>3, <2>2, <2>3, <2>5, <2>7, <2>8 DEF ContentFrom
  <2>10. QED
    BY <1>1, <2>6, <2>9 DEF Attempt
<1>8. CASE ApplyDeleteModule(row, out)
  <2>1. m \in Modules /\ row.prop.action = "delete_module"
    BY <1>2, <1>8 DEF WellFormed, ApplyDeleteModule
  <2>2. /\ out \in {Applied, Failed} /\ UNCHANGED <<pages, jobs, fired>>
        /\ \/ UNCHANGED mods
           \/ /\ ModLive(m)
              /\ mods' = [mods EXCEPT ![m] = [mods[m] EXCEPT !.live = FALSE]]
    BY <1>8, <2>1 DEF ApplyDeleteModule, ContentOK
  <2>3. Rest1 /\ FiredStays
    BY <1>1, <2>1, <2>2 DEF Stuck, Failed, Applied, FiredStays
  <2>4. ~ Created(new, "create_module") /\ ~ Created(new, "create_page")
    BY <1>1, <2>1 DEF Created
  <2>5. CASE UNCHANGED mods
    BY <1>1, <2>2, <2>3, <2>4, <2>5, NothingElse DEF Attempt
  <2>6. CASE /\ ModLive(m)
             /\ mods' = [mods EXCEPT ![m] = [mods[m] EXCEPT !.live = FALSE]]
    <3>1. mods[m] # Null /\ mods[m] \in Module
      BY <2>1, <2>6 DEF ModLive, ContentOK
    <3>2. /\ [mods[m] EXCEPT !.live = FALSE] \in Module
          /\ [mods[m] EXCEPT !.live = FALSE].writer = mods[m].writer
      BY <3>1 DEF Module
    <3>3. /\ mods'[m] # Null /\ mods'[m].writer = mods[m].writer
          /\ \A n \in Modules \ {m} : mods'[n] = mods[n]
      BY <1>4, <2>1, <2>6, <3>2 DEF ContentOK
    <3>4. \A s \in Requests : s \in Modules
      BY PipelineAssumption
    <3>5. ContentFrom(r, new)
      BY <1>3, <2>2, <2>4, <3>1, <3>3, <3>4 DEF ContentFrom
    <3>6. QED
      BY <1>1, <2>3, <3>5 DEF Attempt
  <2>7. QED
    BY <2>2, <2>5, <2>6
<1>9. CASE ApplyCreatePage(r, row, out)
  <2> DEFINE page == [live |-> TRUE, slug |-> row.prop.slug,
                      owner |-> row.agent, home |-> FALSE]
  <2>1. /\ row.prop.action = "create_page" /\ UNCHANGED <<mods, jobs, fired>>
        /\ \/ out = Poisoned("approved") /\ UNCHANGED pages
           \/ out = Applied /\ pages' = [pages EXCEPT ![r] = page]
    BY <1>9 DEF ApplyCreatePage
  <2>2. page \in Page
    BY <1>2, <2>1 DEF Page, WellFormed
  <2> HIDE DEF page
  <2>3. Rest1 /\ FiredStays
    BY <1>1, <2>1 DEF Stuck, Poisoned, Raised, Applied, FiredStays
  <2>4. ~ Created(new, "create_module")
    BY <1>1, <2>1 DEF Created
  <2>5. CASE out = Poisoned("approved") /\ UNCHANGED pages
    <3>1. ~ Created(new, "create_page")
      BY <1>1, <2>5 DEF Created, Poisoned, Raised
    <3>2. QED
      BY <1>1, <2>1, <2>3, <2>4, <2>5, <3>1, NothingElse DEF Attempt
  <2>6. CASE out = Applied /\ pages' = [pages EXCEPT ![r] = page]
    <3>1. Created(new, "create_page")
      BY <1>1, <1>4, <2>1, <2>6 DEF Created, Applied
    <3>2. pages'[r] # Null /\ \A q \in Pages \ {r} : pages'[q] = pages[q]
      BY <1>3, <1>4, <2>2, <2>6 DEF ContentOK
    <3>3. \A s \in Requests : s \in Pages
      BY PipelineAssumption
    <3>4. ContentFrom(r, new)
      BY <1>3, <2>1, <2>4, <3>1, <3>2, <3>3 DEF ContentFrom
    <3>5. QED
      BY <1>1, <2>3, <3>4 DEF Attempt
  <2>7. QED
    BY <2>1, <2>5, <2>6
<1>10. CASE ApplyFireAction(r, row, out)
  <2>1. row.prop.action = "fire_action_button" /\ UNCHANGED <<mods, pages>>
    BY <1>10 DEF ApplyFireAction
  <2>2. \/ out = Raised("applied") /\ UNCHANGED fired
        \/ out = Executed("queued") /\ UNCHANGED fired
        \/ /\ \E x \in {"ok", "failed"} : out = Executed(x)
           /\ Dispatch(row.agent, row.key)
        \/ out = Poisoned("applied") /\ UNCHANGED fired
    BY <1>10 DEF ApplyFireAction
  <2>3. FiredStays /\ (Dispatch(row.agent, row.key) =>
                         fired'[<<row.agent, row.key>>] > 0)
    BY <1>2, <2>2, DispatchCounts DEF ContentOK, FiredStays
  <2>4. out.exec \in {"ok", "failed"} => Dispatch(row.agent, row.key)
    BY <2>2 DEF Raised, Poisoned, Executed, Applied
  <2>5. /\ out.fault = "none" => out.exec # "none" /\ out.status = "applied"
        /\ out.status = "applied"
    BY <2>2 DEF Raised, Poisoned, Executed, Applied
  <2>6. Rest1
    BY <1>1, <2>1, <2>3, <2>4, <2>5 DEF Stuck
  <2>7. ~ Created(new, "create_module") /\ ~ Created(new, "create_page")
    BY <1>1, <2>1 DEF Created
  <2>8. ContentFrom(r, new)
    BY <2>1, <2>7 DEF ContentFrom
  <2>9. QED
    BY <1>1, <2>3, <2>6, <2>8 DEF Attempt
<1>11. QED
  BY <1>5, <1>6, <1>7, <1>8, <1>9, <1>10 DEF Apply

-----------------------------------------------------------------------------
\* The events a handler queues as it writes row r.
Queues(r, new) ==
  \/ outbox' \in {outbox, outbox \cup {Pending(r)}}
  \/ /\ new.status # "pending"
     /\ outbox' = outbox \cup {Decided(r, new.status)}

\* A response stored for the agent, endpoint and key of this row.
Known(row) == \E s \in idem :
  s.agent = row.agent /\ s.tool = ToolOf(row.prop) /\ s.key = row.key

\* A handler that is to commit has said and stored what it must.
Told(r, new) ==
  /\ Notable(new) => Decided(r, new.status) \in outbox'
  /\ Stuck(new) => FromBulk(new)
  /\ reqs[r] = Null => Stored(new, r) \in idem'

\* A handler mints or decides request r, and leaves row new of it.
Turned(r, new) ==
  /\ new \in Request /\ reqs' = [reqs EXCEPT ![r] = new] /\ Signed(new)
  /\ reqs[r] # Null => IsPending(r) /\ Follows(reqs[r], new)
  /\ reqs[r] = Null => ~ Known(new) /\ r <= minted'.reqs /\ tx # Aborting
  /\ new.exec \in {"ok", "failed"} =>
       \/ reqs[r] # Null /\ new.exec = reqs[r].exec
       \/ fired'[<<new.agent, new.key>>] > 0
  /\ FiredStays /\ ContentFrom(r, new) /\ Queues(r, new)
  /\ idem \subseteq idem'
  /\ tx' # Aborting => Told(r, new)

\* A step that neither writes a row nor announces or stores anything, and
\* leaves the content where it is, if not live.
ContentStays ==
  /\ \A m \in Modules :
       /\ mods'[m] # Null <=> mods[m] # Null
       /\ mods[m] # Null => mods'[m].writer = mods[m].writer
  /\ \A r \in Requests : pages'[r] # Null <=> pages[r] # Null
Still == UNCHANGED <<reqs, idem, outbox>> /\ FiredStays /\ ContentStays

\* expire_stale_pending, and what a job writes.
Expired ==
  /\ \A r \in Requests :
       \/ reqs'[r] = reqs[r]
       \/ IsPending(r) /\ reqs'[r] = Turn(reqs[r], Expiry, "expired")
  /\ UNCHANGED <<idem, outbox, mods, pages, fired>>
JobDone(r) ==
  /\ reqs[r] \in Request /\ reqs[r] # Null
  /\ \E x \in {"ok", "failed"} : reqs' = [reqs EXCEPT ![r].exec = x]
  /\ FiredStays /\ fired'[<<reqs[r].agent, reqs[r].key>>] > 0
  /\ UNCHANGED <<idem, outbox, mods, pages>>

\* None of these ends a transaction.
Inside ==
  /\ UNCHANGED <<disk, heard>> /\ minted.reqs <= minted'.reqs
  /\ tx' # Aborting => tx # Aborting

\* A row before it is decided.
LEMMA FreshRow ==
  ASSUME NEW a \in Agents, NEW p \in Proposals, NEW k \in Keys
  PROVE  /\ NewRow(a, p, k) \in Request
         /\ NewRow(a, p, k).status = "pending"
         /\ NewRow(a, p, k).by = NoOne
         /\ NewRow(a, p, k).exec = "none"
BY DEF NewRow, Request, RowStatuses, ExecResults

\* A denied row keeps what was proposed.
LEMMA DeniedRow ==
  ASSUME NEW row \in Request, row.status = "pending", NEW d \in Deciders
  PROVE  /\ Turn(row, d, "denied") \in Request
         /\ Follows(row, Turn(row, d, "denied"))
         /\ Turn(row, d, "denied").status = "denied"
         /\ Turn(row, d, "denied").by = d
         /\ Turn(row, d, "denied").exec = row.exec
BY TurnType DEF Turn, Follows, Request

\* Submissions mint a request of their own (submit_request).
LEMMA SubmitTurns ==
  ASSUME Inv, History, NEW a \in Agents, NEW p \in Proposals, NEW k \in Keys,
         NEW q, Submit(a, p, k, q), p.lines => ModLive(p.target)
  PROVE  Inside /\ \E r \in Requests : \E new : Turned(r, new)
<1> DEFINE r == minted.reqs + 1
           row == NewRow(a, p, k)
           verdict == Decide(RuleBook, q)
<1>1. r \in Requests /\ minted.reqs \in Nat /\ minted.reqs <= r
  BY PipelineAssumption DEF Submit, Inv, TypeOK, Requests
<1>2. /\ row \in Request /\ row.status = "pending" /\ row.by = NoOne
      /\ row.exec = "none" /\ row.prop = p
  BY FreshRow, NewRowType
<1>3. verdict.outcome # "prompt" => ByRule(verdict) \in Deciders
  BY BookIsTable, VerdictType DEF Inv
<1>4. reqs[r] = Null
  BY <1>1 DEF History, Growing
<1>5. tx # Aborting
  BY TransactionForms DEF Submit, NoLock
<1>6. ~ Known(row)
  BY DEF Submit, Replayed, Known
<1>7. /\ minted'.reqs = r /\ r <= minted'.reqs
      /\ UNCHANGED <<disk, heard>>
  BY <1>1 DEF Submit, Inv, TypeOK
<1>8. \/ verdict.outcome = "auto_approve" /\ SubmitApproved(r, row, verdict)
      \/ verdict.outcome = "deny" /\ SubmitDenied(r, row, verdict)
      \/ verdict.outcome = "prompt" /\ SubmitPending(r, row)
  BY DEF Submit
<1>9. Inside
  BY <1>1, <1>5, <1>7 DEF Inside
<1>10. ContentOK
  BY DEF Inv, TypeOK, ContentOK
<1> HIDE DEF r, row, verdict
<1>11. CASE verdict.outcome = "auto_approve" /\ SubmitApproved(r, row, verdict)
  <2>1. PICK out \in Outcome :
          /\ ApplyNow(r, row, out)
          /\ reqs' = [reqs EXCEPT ![r] = Settle(row, ByRule(verdict), out)]
          /\ \/ /\ out.fault = "none"
                /\ idem' = idem \cup {Stored(row, r)}
                /\ outbox' = IF out.status = "applied"
                             THEN outbox \cup {Decided(r, "applied")}
                             ELSE outbox
             \/ /\ out.fault # "none" /\ tx' = Aborting
                /\ UNCHANGED <<idem, outbox>>
    BY <1>11 DEF SubmitApproved
  <2> DEFINE new == Settle(row, ByRule(verdict), out)
  <2>2. /\ new \in Request /\ Follows(row, new) /\ new.status = out.status
        /\ new.status # "pending" /\ new.by = ByRule(verdict)
        /\ new.prop = row.prop /\ new.agent = row.agent /\ new.key = row.key
    BY <1>2, <1>3, <1>11, SettleFields
  <2>3. Attempt(r, row, new, out.fault)
    BY <1>1, <1>2, <1>3, <1>10, <1>11, <2>1, AttemptEffect DEF ApplyNow
  <2> HIDE DEF new
  <2>4. reqs' = [reqs EXCEPT ![r] = new] /\ Signed(new)
    BY <1>3, <1>11, <2>1, <2>2, DeciderTypes DEF new, Signed
  <2>5. ~ Known(new) /\ r <= minted'.reqs
    BY <1>1, <1>6, <1>7, <2>2 DEF Known
  <2>6. new.exec \in {"ok", "failed"} => fired'[<<new.agent, new.key>>] > 0
    BY <1>2, <2>3 DEF Attempt
  <2>7. Queues(r, new) /\ idem \subseteq idem'
    BY <2>1, <2>2 DEF Queues
  <2>8. tx' # Aborting => Told(r, new)
    <3>1. SUFFICES ASSUME tx' # Aborting PROVE Told(r, new)
      OBVIOUS
    <3>2. out.fault = "none" /\ Stored(new, r) \in idem'
      BY <2>1, <2>2, <3>1 DEF Stored
    <3>3. ~ Stuck(new)
      BY <2>3, <3>2 DEF Attempt
    <3>4. Notable(new) => Decided(r, new.status) \in outbox'
      BY <2>1, <2>2, <3>2 DEF Notable, Outcome
    <3>5. QED
      BY <3>2, <3>3, <3>4 DEF Told
  <2>9. Turned(r, new)
    BY <1>4, <1>5, <2>2, <2>3, <2>4, <2>5, <2>6, <2>7, <2>8
    DEF Turned, Attempt
  <2>10. QED
    BY <1>1, <1>9, <2>9
<1>12. CASE verdict.outcome = "deny" /\ SubmitDenied(r, row, verdict)
  <2> DEFINE new == Turn(row, ByRule(verdict), "denied")
  <2>1. /\ new \in Request /\ Follows(row, new) /\ new.status = "denied"
        /\ new.by = ByRule(verdict) /\ new.exec = "none"
    BY <1>2, <1>3, <1>12, DeniedRow
  <2>2. /\ reqs' = [reqs EXCEPT ![r] = new]
        /\ idem' = idem \cup {Stored(row, r)}
        /\ outbox' = outbox \cup {Decided(r, "denied")} /\ Unapplied
    BY <1>12 DEF SubmitDenied
  <2> HIDE DEF new
  <2>3. Signed(new)
    BY <1>3, <1>12, <2>1, DeciderTypes DEF Signed
  <2>4. ~ Known(new) /\ r <= minted'.reqs
    BY <1>1, <1>6, <1>7, <2>1 DEF Known, Follows
  <2>5. Queues(r, new) /\ idem \subseteq idem'
    BY <2>1, <2>2 DEF Queues
  <2>6. FiredStays /\ ContentFrom(r, new)
    BY <2>1, <2>2, NothingElse DEF Unapplied, Created
  <2>7. Told(r, new)
    BY <2>1, <2>2 DEF Told, Stuck, Stored, Follows
  <2>8. Turned(r, new)
    BY <1>4, <1>5, <2>1, <2>2, <2>3, <2>4, <2>5, <2>6, <2>7 DEF Turned
  <2>9. QED
    BY <1>1, <1>9, <2>8
<1>13. CASE SubmitPending(r, row)
  <2>1. /\ reqs' = [reqs EXCEPT ![r] = row]
        /\ idem' = idem \cup {Stored(row, r)}
        /\ outbox' = outbox \cup {Pending(r)} /\ Unapplied
    BY <1>13 DEF SubmitPending
  <2>2. Queues(r, row) /\ idem \subseteq idem' /\ Signed(row)
    BY <1>2, <2>1 DEF Queues, Signed
  <2>3. FiredStays /\ ContentFrom(r, row)
    BY <1>2, <2>1, NothingElse DEF Unapplied, Created
  <2>4. Told(r, row)
    BY <1>2, <2>1 DEF Told, Stuck, Notable
  <2>5. r <= minted'.reqs
    BY <1>1, <1>7
  <2>6. Turned(r, row)
    BY <1>2, <1>4, <1>5, <1>6, <2>1, <2>2, <2>3, <2>4, <2>5 DEF Turned
  <2>7. QED
    BY <1>1, <1>9, <2>6
<1>14. QED
  BY <1>8, <1>11, <1>12, <1>13

\* A pending row as a decision finds it.
LEMMA PendingRow ==
  ASSUME TypeOK, NEW r \in Requests, IsPending(r)
  PROVE  reqs[r] # Null /\ reqs[r] \in Request /\ reqs[r].status = "pending"
BY DEF IsPending, TypeOK

\* A decided row, its attempt over and its event queued if it has one.
LEMMA AttemptTurns ==
  ASSUME Inv, NEW r \in Requests, IsPending(r), NEW d \in Deciders,
         NEW out \in Outcome, Apply(r, reqs[r], out),
         reqs' = [reqs EXCEPT ![r] = Settle(reqs[r], d, out)],
         UNCHANGED idem,
         outbox' \in {outbox, outbox \cup {Decided(r, out.status)}},
         tx' # Aborting =>
           /\ out.fault # "poisoned"
           /\ out.fault = "none" \/ d = Admin
           /\ out.fault = "none" /\ out.status = "applied"
                /\ d.who \in {"admin", "rule"} =>
                  Decided(r, out.status) \in outbox'
  PROVE  \E new : Turned(r, new)
<1> DEFINE new == Settle(reqs[r], d, out)
<1>1. reqs[r] # Null /\ reqs[r] \in Request /\ reqs[r].status = "pending"
  BY PendingRow DEF Inv
<1>2. /\ new \in Request /\ Follows(reqs[r], new) /\ new.status = out.status
      /\ new.status # "pending" /\ new.by = d
  BY <1>1, SettleFields
<1>3. ContentOK
  BY DEF Inv, TypeOK, ContentOK
<1>4. Attempt(r, reqs[r], new, out.fault)
  BY <1>1, <1>3, AttemptEffect
<1> HIDE DEF new
<1>5. Signed(new) /\ reqs' = [reqs EXCEPT ![r] = new]
  BY <1>2, DeciderTypes DEF Signed, new
<1>6. Queues(r, new)
  BY <1>2 DEF Queues
<1>7. ASSUME tx' # Aborting
      PROVE  Told(r, new)
  <2>1. Stuck(new) => FromBulk(new)
    BY <1>2, <1>4, <1>7 DEF Attempt, FromBulk
  <2>2. Notable(new) => Decided(r, new.status) \in outbox'
    BY <1>2, <1>4, <1>7 DEF Notable, Attempt, Outcome
  <2>3. QED
    BY <1>1, <2>1, <2>2 DEF Told
<1>8. Turned(r, new)
  BY <1>1, <1>2, <1>4, <1>5, <1>6, <1>7 DEF Turned, Attempt
<1>9. QED
  BY <1>8

\* A denied row, and its event.
LEMMA DenialTurns ==
  ASSUME Inv, NEW r \in Requests, IsPending(r), NEW d \in Deciders,
         reqs' = [reqs EXCEPT ![r] = Turn(reqs[r], d, "denied")],
         Unapplied, UNCHANGED idem,
         outbox' \in {outbox, outbox \cup {Decided(r, "denied")}},
         d.who \in {"admin", "rule"} => Decided(r, "denied") \in outbox'
  PROVE  \E new : Turned(r, new)
<1> DEFINE new == Turn(reqs[r], d, "denied")
<1>1. reqs[r] # Null /\ reqs[r] \in Request /\ reqs[r].status = "pending"
  BY PendingRow DEF Inv
<1>2. /\ new \in Request /\ Follows(reqs[r], new) /\ new.status = "denied"
      /\ new.by = d /\ new.exec = reqs[r].exec
  BY <1>1, DeniedRow
<1> HIDE DEF new
<1>3. Signed(new) /\ reqs' = [reqs EXCEPT ![r] = new]
  BY <1>2, DeciderTypes DEF Signed, new
<1>4. Queues(r, new)
  BY <1>2 DEF Queues
<1>5. FiredStays /\ ContentFrom(r, new)
  BY <1>2, NothingElse DEF Unapplied, Created
<1>6. Told(r, new)
  BY <1>1, <1>2 DEF Told, Stuck, Notable
<1>7. Turned(r, new)
  BY <1>1, <1>2, <1>3, <1>4, <1>5, <1>6 DEF Turned
<1>8. QED
  BY <1>7

\* A step that touches neither content nor the outside leaves them still.
LEMMA NothingStill ==
  ASSUME UNCHANGED <<reqs, idem, outbox, mods, pages, fired>>
  PROVE  Still
BY DEF Still, FiredStays, ContentStays

\* The decisions of approval_requests.py turn rows, one by one.
LEMMA DecideTurns ==
  ASSUME Inv, DecideStep
  PROVE  Inside /\ (Still \/ \E r \in Requests : \E new : Turned(r, new))
<1> USE TransactionForms
<1>1. CASE OpenBulk
  <2>1. /\ NoLock /\ UNCHANGED <<reqs, idem, mods, pages>>
        /\ UNCHANGED <<disk, fired, outbox, heard, minted>>
    BY <1>1 DEF OpenBulk, tables
  <2>2. Inside
    BY <2>1, PipelineAssumption DEF Inside, NoLock, Inv, TypeOK
  <2>3. QED
    BY <2>1, <2>2, NothingStill
<1>2. ASSUME NEW r \in Requests,
             \/ BulkApprove(r) \/ BulkDeny(r) \/ Sweep(r)
             \/ \E d \in Drafts \cup {Null} : Approve(r, d) \/ Deny(r, d)
      PROVE  Inside /\ (Still \/ \E new : Turned(r, new))
  <2> DEFINE verdict == Decide(RuleBook, AskedInSweep(r, reqs[r]))
  <2>1. IsPending(r)
    BY <1>2 DEF BulkApprove, BulkDeny, Sweep, Approve, Deny, Inv, RowsOK,
                SelectedStillPending
  <2>2. tx # Aborting
    BY <1>2 DEF BulkApprove, BulkDeny, Sweep, Approve, Deny, NoLock
  <2>3. UNCHANGED <<disk, heard, idem>> /\ minted'.reqs = minted.reqs
    BY <1>2 DEF BulkApprove, BulkDeny, Sweep, Approve, Deny, MaybeAddRule,
                AddRule, Inv, TypeOK
  <2>4. Inside
    BY <2>2, <2>3, PipelineAssumption DEF Inside, Inv, TypeOK
  <2>5. Admin \in Deciders
    BY DeciderTypes
  <2>6. verdict.outcome # "prompt" =>
          BySweep(verdict) \in Deciders /\ BySweep(verdict).who = "sweep"
    BY BookIsTable, VerdictType DEF Inv, BySweep
  <2>7. ASSUME NEW d \in Drafts \cup {Null}, Approve(r, d)
        PROVE  \E new : Turned(r, new)
    <3>1. PICK out \in Outcome :
            /\ Apply(r, reqs[r], out)
            /\ reqs' = [reqs EXCEPT ![r] = Settle(@, Admin, out)]
            /\ \/ /\ out.fault = "none"
                  /\ outbox' = outbox \cup {Decided(r, out.status)}
               \/ tx' = Aborting /\ UNCHANGED outbox
      BY <2>7 DEF Approve
    <3>2. reqs' = [reqs EXCEPT ![r] = Settle(reqs[r], Admin, out)]
      BY <3>1
    <3>3. QED
      BY <2>1, <2>3, <2>5, <3>1, <3>2, AttemptTurns
  <2>8. ASSUME NEW d \in Drafts \cup {Null}, Deny(r, d)
        PROVE  \E new : Turned(r, new)
    <3>1. /\ reqs' = [reqs EXCEPT ![r] = Turn(reqs[r], Admin, "denied")]
          /\ outbox' = outbox \cup {Decided(r, "denied")} /\ Unapplied
      BY <2>8 DEF Deny
    <3>2. QED
      BY <2>1, <2>3, <2>5, <3>1, DenialTurns
  <2>9. CASE BulkApprove(r)
    <3>1. PICK out \in Outcome :
            /\ Apply(r, reqs[r], out)
            /\ reqs' = [reqs EXCEPT ![r] = Settle(@, Admin, out)]
            /\ outbox' = IF out.fault = "none" /\ out.status = "applied"
                         THEN outbox \cup {Decided(r, "applied")} ELSE outbox
            /\ out.fault = "poisoned" => tx' = Aborting
      BY <2>9 DEF BulkApprove
    <3>2. reqs' = [reqs EXCEPT ![r] = Settle(reqs[r], Admin, out)]
      BY <3>1
    <3>3. QED
      BY <2>1, <2>3, <2>4, <2>5, <3>1, <3>2, AttemptTurns
  <2>10. CASE BulkDeny(r)
    <3>1. /\ reqs' = [reqs EXCEPT ![r] = Turn(reqs[r], Admin, "denied")]
          /\ outbox' = outbox \cup {Decided(r, "denied")} /\ Unapplied
      BY <2>10 DEF BulkDeny
    <3>2. QED
      BY <2>1, <2>3, <2>4, <2>5, <3>1, DenialTurns
  <2>11. CASE Sweep(r)
    <3>1. /\ UNCHANGED outbox
          /\ \/ verdict.outcome = "auto_approve" /\ SweepApproved(r, verdict)
             \/ verdict.outcome = "deny" /\ SweepDenied(r, verdict)
             \/ verdict.outcome = "prompt" /\ SweepSkipped(r)
      BY <2>11 DEF Sweep
    <3> HIDE DEF verdict
    <3>2. CASE verdict.outcome = "auto_approve" /\ SweepApproved(r, verdict)
      <4>1. PICK out \in Outcome :
              /\ Apply(r, reqs[r], out)
              /\ reqs' = [reqs EXCEPT ![r] = Settle(@, BySweep(verdict), out)]
              /\ out.fault # "none" => tx' = Aborting
        BY <3>2 DEF SweepApproved
      <4>2. reqs' = [reqs EXCEPT
                       ![r] = Settle(reqs[r], BySweep(verdict), out)]
        BY <4>1
      <4>3. QED
        BY <2>1, <2>3, <2>4, <2>6, <3>1, <3>2, <4>1, <4>2,
           AttemptTurns
    <3>3. CASE verdict.outcome = "deny" /\ SweepDenied(r, verdict)
      <4>1. /\ reqs' = [reqs EXCEPT
                          ![r] = Turn(reqs[r], BySweep(verdict), "denied")]
            /\ Unapplied
        BY <3>3 DEF SweepDenied
      <4>2. QED
        BY <2>1, <2>3, <2>4, <2>6, <3>1, <3>3, <4>1, DenialTurns
    <3>4. CASE SweepSkipped(r)
      BY <2>3, <2>4, <3>1, <3>4, NothingStill DEF SweepSkipped, Unapplied
    <3>5. QED
      BY <2>4, <3>1, <3>2, <3>3, <3>4
  <2>12. QED
    BY <1>2, <2>4, <2>7, <2>8, <2>9, <2>10, <2>11
<1>3. QED
  BY <1>1, <1>2 DEF DecideStep

\* The rule endpoints decide nothing; a reversal flips what is there.
LEMMA RuleStill ==
  ASSUME Inv, RuleStep
  PROVE  Inside /\ Still
<1>1. /\ UNCHANGED <<reqs, idem, outbox, fired, disk, heard>>
      /\ minted'.reqs = minted.reqs
  BY DEF RuleStep, CreateRule, AddRule, UpdateRule, DeleteRule, RevokeRule,
         ChangeRules, Unapplied, ReverseOne, Inv, TypeOK
<1>2. tx # Aborting
  BY TransactionForms
  DEF RuleStep, CreateRule, UpdateRule, DeleteRule, RevokeRule, ReverseOne,
      NoLock
<1>3. Inside
  BY <1>1, <1>2, PipelineAssumption DEF Inside, Inv, TypeOK
<1>4. CASE UNCHANGED <<mods, pages>>
  BY <1>1, <1>3, <1>4, NothingStill
<1>5. ASSUME NEW r \in Requests, ReverseOne(r)
      PROVE  ContentStays
  <2> DEFINE p == reqs[r].prop
  <2>1. reqs[r] # Null /\ reqs[r] \in Request /\ reqs[r].status = "applied"
    BY <1>5 DEF ReverseOne, Inv, RowsOK, LoopsOK, TypeOK
  <2>2. Grounded(r, reqs[r], mods, pages)
    BY <2>1 DEF Inv, ContentKept, AllGrounded
  <2>3. p.action = "delete_module" => p.target \in Modules
    BY <2>1, ProposalType DEF Request, WellFormed
  <2>4. r \in Modules /\ r \in Pages
    BY PipelineAssumption
  <2>5. ASSUME NEW m \in Modules, mods[m] # Null, NEW b \in BOOLEAN,
               mods' = [mods EXCEPT ![m].live = b]
        PROVE  \A n \in Modules :
                 /\ mods'[n] # Null <=> mods[n] # Null
                 /\ mods[n] # Null => mods'[n].writer = mods[n].writer
    <3>1. mods[m] \in Module
      BY <2>5 DEF Inv, TypeOK
    <3>2. /\ [mods[m] EXCEPT !.live = b] \in Module
          /\ [mods[m] EXCEPT !.live = b].writer = mods[m].writer
      BY <3>1 DEF Module
    <3>3. mods' = [mods EXCEPT ![m] = [mods[m] EXCEPT !.live = b]]
      BY <2>5
    <3>4. QED
      BY <2>5, <3>2, <3>3, PipelineAssumption DEF Inv, TypeOK
  <2>6. \/ UNCHANGED mods
        \/ /\ p.action = "create_module"
           /\ mods' = [mods EXCEPT ![r].live = FALSE]
        \/ /\ p.action = "delete_module"
           /\ mods' = [mods EXCEPT ![p.target].live = TRUE]
    BY <1>5 DEF ReverseOne
  <2>7. \A n \in Modules :
          /\ mods'[n] # Null <=> mods[n] # Null
          /\ mods[n] # Null => mods'[n].writer = mods[n].writer
    <3>1. CASE UNCHANGED mods
      BY <3>1
    <3>2. CASE /\ p.action = "create_module"
               /\ mods' = [mods EXCEPT ![r].live = FALSE]
      BY <2>2, <2>4, <2>5, <3>2 DEF Grounded
    <3>3. CASE /\ p.action = "delete_module"
               /\ mods' = [mods EXCEPT ![p.target].live = TRUE]
      BY <2>2, <2>3, <2>5, <3>3 DEF Grounded
    <3>4. QED
      BY <2>6, <3>1, <3>2, <3>3
  <2>8. \A s \in Requests : pages'[s] # Null <=> pages[s] # Null
    <3>1. CASE UNCHANGED pages
      BY <3>1
    <3>2. CASE /\ p.action = "create_page"
               /\ pages' = [pages EXCEPT ![r].live = FALSE]
      <4>1. pages[r] \in Page
        BY <2>2, <2>4, <3>2 DEF Grounded, Inv, TypeOK
      <4>2. [pages[r] EXCEPT !.live = FALSE] \in Page
        BY <4>1, PageEdits
      <4>3. pages' = [pages EXCEPT ![r] = [pages[r] EXCEPT !.live = FALSE]]
        BY <3>2
      <4>4. pages[r] # Null /\ [pages[r] EXCEPT !.live = FALSE] # Null
        BY <2>2, <3>2, <4>2, PipelineAssumption DEF Grounded
      <4>5. \A q \in Pages : pages'[q] # Null <=> pages[q] # Null
        BY <2>4, <4>3, <4>4 DEF Inv, TypeOK
      <4>6. QED
        BY <4>5, PipelineAssumption
    <3>3. QED
      BY <1>5, <3>1, <3>2 DEF ReverseOne
  <2>9. QED
    BY <2>7, <2>8 DEF ContentStays
<1>6. QED
  BY <1>1, <1>3, <1>4, <1>5
  DEF RuleStep, CreateRule, UpdateRule, DeleteRule, RevokeRule, ChangeRules,
      Unapplied, Still, FiredStays

\* The administrator's own edits write no request; expiry writes many.
LEMMA AdminEffect ==
  ASSUME Inv, AdminStep
  PROVE  Inside /\ (Still \/ Expired)
<1>1. /\ UNCHANGED <<idem, outbox, fired, disk, heard>>
      /\ minted'.reqs = minted.reqs /\ NoLock
  BY DEF AdminStep, Expire, AdminCreatePage, AdminDeletePage,
         AdminDeleteModule, PatchTarget, DeleteTarget, Unapplied
<1>2. Inside
  BY <1>1, TransactionForms, PipelineAssumption
  DEF Inside, NoLock, Inv, TypeOK
<1>3. CASE Expire
  <2>1. Expired
    BY <1>1, <1>3 DEF Expire, Expired, Unapplied
  <2>2. QED
    BY <1>2, <2>1
<1>4. CASE UNCHANGED <<reqs, mods, pages>>
  BY <1>1, <1>2, <1>4, NothingStill
<1>5. ASSUME NEW p \in Pages, NEW slug \in Slugs, AdminCreatePage(p, slug)
      PROVE  Still
  <2>1. \A r \in Requests : r # p
    BY <1>5 DEF AdminCreatePage
  <2>2. \A r \in Requests : pages'[r] = pages[r]
    BY <1>5, <2>1 DEF AdminCreatePage, Inv, TypeOK
  <2>3. QED
    BY <1>1, <1>5, <2>2 DEF AdminCreatePage, Still, FiredStays, ContentStays
<1>6. ASSUME NEW p \in Pages, AdminDeletePage(p)
      PROVE  Still
  <2>1. pages[p] \in Page /\ pages[p] # Null
    BY <1>6 DEF AdminDeletePage, PageLive, Inv, TypeOK
  <2>2. [pages[p] EXCEPT !.live = FALSE] \in Page
    BY <2>1, PageEdits
  <2>3. pages' = [pages EXCEPT ![p] = [pages[p] EXCEPT !.live = FALSE]]
    BY <1>6 DEF AdminDeletePage
  <2>4. \A q \in Pages : pages'[q] # Null <=> pages[q] # Null
    BY <2>1, <2>2, <2>3, PipelineAssumption DEF Inv, TypeOK
  <2>5. \A r \in Requests : r \in Pages
    BY PipelineAssumption
  <2>6. QED
    BY <1>1, <1>6, <2>4, <2>5
    DEF AdminDeletePage, Still, FiredStays, ContentStays
<1>7. ASSUME NEW m \in Modules, AdminDeleteModule(m)
      PROVE  Still
  <2>1. mods[m] \in Module /\ mods[m] # Null
    BY <1>7 DEF AdminDeleteModule, ModLive, Inv, TypeOK
  <2>2. /\ [mods[m] EXCEPT !.live = FALSE] \in Module
        /\ [mods[m] EXCEPT !.live = FALSE].writer = mods[m].writer
    BY <2>1 DEF Module
  <2>3. mods' = [mods EXCEPT ![m] = [mods[m] EXCEPT !.live = FALSE]]
    BY <1>7 DEF AdminDeleteModule
  <2>4. \A n \in Modules :
          /\ mods'[n] # Null <=> mods[n] # Null
          /\ mods[n] # Null => mods'[n].writer = mods[n].writer
    BY <2>1, <2>2, <2>3, PipelineAssumption DEF Inv, TypeOK
  <2>5. QED
    BY <1>1, <1>7, <2>4
    DEF AdminDeleteModule, Still, FiredStays, ContentStays
<1>8. QED
  BY <1>2, <1>3, <1>4, <1>5, <1>6, <1>7
  DEF AdminStep, PatchTarget, DeleteTarget

\* A job records its result, gives up, or dies unnoticed.
LEMMA JobEffect ==
  ASSUME Inv, JobStep
  PROVE  Inside /\ (Still \/ \E r \in Requests : JobDone(r))
<1>1. PICK r \in Requests : RunJob(r) \/ LoseJob(r)
  BY DEF JobStep
<1>2. /\ UNCHANGED <<idem, outbox, mods, pages, disk, heard, minted>>
      /\ jobs[r] > 0 /\ (tx' = tx \/ NoLock)
  BY <1>1 DEF RunJob, LoseJob, tables
<1>3. Inside
  BY <1>2, TransactionForms, PipelineAssumption
  DEF Inside, NoLock, Inv, TypeOK
<1>4. CASE UNCHANGED <<reqs, fired>>
  BY <1>2, <1>3, <1>4, NothingStill
<1>5. CASE /\ Dispatch(reqs[r].agent, reqs[r].key)
           /\ \E x \in {"ok", "failed"} : reqs' = [reqs EXCEPT ![r].exec = x]
  <2>1. reqs[r] # Null /\ reqs[r] \in Request
    BY <1>2 DEF Inv, RowsOK, JobsHaveRows, TypeOK
  <2>2. reqs[r].agent \in Agents /\ reqs[r].key \in Keys
    BY <2>1 DEF Request
  <2>3. FiredStays /\ fired'[<<reqs[r].agent, reqs[r].key>>] > 0
    BY <1>5, <2>2, DispatchCounts DEF Inv, TypeOK
  <2>4. JobDone(r)
    BY <1>2, <1>5, <2>1, <2>3 DEF JobDone
  <2>5. QED
    BY <1>3, <2>4
<1>6. QED
  BY <1>1, <1>4, <1>5 DEF RunJob, LoseJob, tables

\* What a step does to the requests, their events and their content.
LEMMA StepKinds ==
  ASSUME Inv, History, [Next]_vars
  PROVE  \/ Commit \/ Rollback \/ Crash
         \/ /\ Inside
            /\ \/ Still \/ Expired
               \/ \E r \in Requests : JobDone(r) \/ \E new : Turned(r, new)
<1>1. CASE AgentStep
  <2>1. PICK a \in Agents, p \in Proposals, k \in Keys :
           /\ p.lines => ModLive(p.target)
           /\ \E q : Submit(a, p, k, q)
    BY <1>1, AgentSubmits
  <2>2. QED
    BY <2>1, SubmitTurns
<1>2. CASE UNCHANGED vars
  <2>1. UNCHANGED <<reqs, idem, outbox, mods, pages, fired, disk, heard, tx,
                    minted>>
    BY <1>2 DEF vars
  <2>2. Inside
    BY <2>1, PipelineAssumption DEF Inside, Inv, TypeOK
  <2>3. QED
    BY <2>1, <2>2, NothingStill
<1>3. CASE RuleStep
  BY <1>3, RuleStill
<1>4. CASE DecideStep
  BY <1>4, DecideTurns
<1>5. CASE AdminStep
  BY <1>5, AdminEffect
<1>6. CASE JobStep
  BY <1>6, JobEffect
<1>7. CASE EndStep
  BY <1>7 DEF EndStep
<1>8. QED
  BY <1>1, <1>2, <1>3, <1>4, <1>5, <1>6, <1>7 DEF Next

-----------------------------------------------------------------------------
\* A step of one of these kinds, inside a transaction or between two.
Step ==
  /\ Inside
  /\ \/ Still \/ Expired
     \/ \E r \in Requests : JobDone(r) \/ \E new : Turned(r, new)

\* A row keeps what it keeps over several steps.
LEMMA FollowsOn ==
  ASSUME NEW old, NEW mid, NEW new, Follows(old, mid), Follows(mid, new)
  PROVE  Follows(old, new)
BY DEF Follows

\* The rows that a decision leaves: its own, and the others as they were.
LEMMA TurnedRows ==
  ASSUME TypeOK, NEW r \in Requests, NEW new, Turned(r, new)
  PROVE  /\ reqs'[r] = new /\ new # Null
         /\ \A s \in Requests \ {r} : reqs'[s] = reqs[s]
BY PipelineAssumption DEF TypeOK, Turned

\* A job's result leaves the row decided as it was.
LEMMA JobRow ==
  ASSUME TypeOK, NEW r \in Requests, JobDone(r)
  PROVE  /\ reqs[r] # Null /\ reqs'[r] # Null /\ Follows(reqs[r], reqs'[r])
         /\ reqs'[r].status = reqs[r].status /\ reqs'[r].by = reqs[r].by
         /\ reqs'[r].exec \in {"ok", "failed"}
         /\ \A s \in Requests \ {r} : reqs'[s] = reqs[s]
<1>1. reqs[r] \in Request /\ reqs[r] # Null
  BY DEF JobDone
<1>2. PICK x \in {"ok", "failed"} : reqs' = [reqs EXCEPT ![r].exec = x]
  BY DEF JobDone
<1> DEFINE new == [reqs[r] EXCEPT !.exec = x]
<1>3. /\ new.status = reqs[r].status /\ new.by = reqs[r].by /\ new.exec = x
      /\ new.agent = reqs[r].agent /\ new.key = reqs[r].key
      /\ new.prop = reqs[r].prop
  BY <1>1 DEF Request
<1>4. new # Null
  <2>1. new \in Request
    BY <1>1, ExecType DEF ExecResults
  <2>2. QED
    BY <2>1, PipelineAssumption
<1>5. reqs' = [reqs EXCEPT ![r] = new]
  BY <1>2
<1> HIDE DEF new
<1>6. reqs'[r] = new /\ \A s \in Requests \ {r} : reqs'[s] = reqs[s]
  BY <1>5 DEF TypeOK
<1>7. QED
  BY <1>1, <1>3, <1>4, <1>6 DEF Follows

\* An expired row was pending, and keeps what was proposed.
LEMMA ExpiredRow ==
  ASSUME TypeOK, NEW r \in Requests, IsPending(r),
         reqs'[r] = Turn(reqs[r], Expiry, "expired")
  PROVE  /\ reqs[r] # Null /\ reqs'[r] # Null
         /\ Follows(reqs[r], reqs'[r]) /\ Signed(reqs'[r])
         /\ reqs'[r].status = "expired" /\ reqs'[r].by = Expiry
         /\ reqs'[r].exec = reqs[r].exec /\ reqs'[r].prop = reqs[r].prop
<1>1. reqs[r] # Null /\ reqs[r] \in Request /\ reqs[r].status = "pending"
  BY PendingRow
<1>2. reqs'[r] \in Request
  BY <1>1, TurnType, DeciderTypes
<1>3. Expiry # NoOne
  BY DeciderTypes
<1>4. QED
  BY <1>1, <1>2, <1>3, PipelineAssumption DEF Turn, Follows, Request, Signed

\* What a step makes of one row.
LEMMA RowKinds ==
  ASSUME Inv, History, Step, NEW s \in Requests
  PROVE  /\ idem \subseteq idem' /\ outbox \subseteq outbox' /\ FiredStays
         /\ \/ reqs'[s] = reqs[s]
            \/ /\ reqs[s] # Null /\ Follows(reqs[s], reqs'[s])
               /\ reqs'[s] # Null /\ Signed(reqs'[s])
               /\ \/ /\ reqs'[s].status = "expired" /\ reqs'[s].by = Expiry
                     /\ reqs'[s].exec = reqs[s].exec
                  \/ /\ reqs'[s].status = reqs[s].status
                     /\ reqs'[s].by = reqs[s].by
                     /\ reqs'[s].exec \in {"ok", "failed"}
                     /\ fired'[<<reqs[s].agent, reqs[s].key>>] > 0
            \/ reqs'[s] # Null /\ Turned(s, reqs'[s])
<1> USE DEF Inv
<1> DEFINE Kinds ==
        \/ reqs'[s] = reqs[s]
        \/ /\ reqs[s] # Null /\ Follows(reqs[s], reqs'[s])
           /\ reqs'[s] # Null /\ Signed(reqs'[s])
           /\ \/ /\ reqs'[s].status = "expired" /\ reqs'[s].by = Expiry
                 /\ reqs'[s].exec = reqs[s].exec
              \/ /\ reqs'[s].status = reqs[s].status
                 /\ reqs'[s].by = reqs[s].by
                 /\ reqs'[s].exec \in {"ok", "failed"}
                 /\ fired'[<<reqs[s].agent, reqs[s].key>>] > 0
        \/ reqs'[s] # Null /\ Turned(s, reqs'[s])
      Goal == /\ idem \subseteq idem' /\ outbox \subseteq outbox'
              /\ FiredStays /\ Kinds
<1> SUFFICES Goal
  OBVIOUS
<1>1. CASE Still
  BY <1>1 DEF Still
<1>2. CASE Expired
  <2>1. \/ reqs'[s] = reqs[s]
        \/ IsPending(s) /\ reqs'[s] = Turn(reqs[s], Expiry, "expired")
    BY <1>2 DEF Expired
  <2>2. Kinds
    BY <2>1, ExpiredRow
  <2> HIDE DEF Kinds
  <2>3. QED
    BY <1>2, <2>2 DEF Expired, FiredStays
<1>3. ASSUME NEW r \in Requests, JobDone(r)
      PROVE  Goal
  <2>1. CASE s # r
    BY <1>3, <2>1, JobRow DEF JobDone
  <2>2. CASE s = r
    <3>1. Signed(reqs'[s])
      BY <1>3, <2>2, JobRow DEF History, Growing, Signed
    <3>2. Kinds
      BY <1>3, <2>2, <3>1, JobRow DEF JobDone
    <3> HIDE DEF Kinds
    <3>3. QED
      BY <1>3, <3>2 DEF JobDone
  <2>3. QED
    BY <2>1, <2>2
<1>4. ASSUME NEW r \in Requests, NEW new, Turned(r, new)
      PROVE  Goal
  <2>1. Kinds
    <3>1. CASE s = r
      BY <1>4, <3>1, TurnedRows
    <3>2. CASE s # r
      BY <1>4, <3>2, TurnedRows
    <3>3. QED
      BY <3>1, <3>2
  <2> HIDE DEF Kinds
  <2>2. QED
    BY <1>4, <2>1 DEF Turned, Queues
<1>5. QED
  BY <1>1, <1>2, <1>3, <1>4 DEF Step

\* Rows move on and never back (lifecycle._ALLOWED).
LEMMA RowsMove ==
  ASSUME Inv, TypeOK', History, Step, NEW s \in Requests
  PROVE  /\ reqs[s] # Null => reqs'[s] # Null /\ Follows(reqs[s], reqs'[s])
         /\ reqs'[s] # Null => Signed(reqs'[s]) /\ s <= minted'.reqs
<1>1. minted.reqs \in Int /\ minted'.reqs \in Int
        /\ minted.reqs <= minted'.reqs
  BY PipelineAssumption DEF Inv, TypeOK, Step, Inside
<1>2. reqs[s] # Null => Signed(reqs[s]) /\ s <= minted'.reqs
  BY <1>1 DEF History, Growing, Requests
<1>3. CASE reqs'[s] = reqs[s]
  BY <1>2, <1>3 DEF Follows
<1>4. CASE Turned(s, reqs'[s]) /\ reqs'[s] # Null
  BY <1>2, <1>4 DEF Turned
<1>5. QED
  BY <1>2, <1>3, <1>4, RowKinds

\* The rows, on disk and in hand, stay in step.
LEMMA GrowingKept ==
  ASSUME Inv, TypeOK', History, Step
  PROVE  Growing'
<1>1. disk' = disk
  BY DEF Step, Inside
<1>2. SUFFICES ASSUME NEW r \in Requests
      PROVE  /\ disk.reqs[r] # Null =>
                  reqs'[r] # Null /\ Follows(disk.reqs[r], reqs'[r])
             /\ reqs'[r] # Null => Signed(reqs'[r]) /\ r <= minted'.reqs
             /\ disk.reqs[r] # Null => Signed(disk.reqs[r])
  BY <1>1 DEF Growing
<1>3. disk.reqs[r] # Null => reqs[r] # Null /\ Follows(disk.reqs[r], reqs[r])
  BY DEF History, Growing
<1>4. QED
  BY <1>3, RowsMove, FollowsOn DEF History, Growing

\* What was queued stays true, and what is queued is (publish_after_commit).
LEMMA EventsKept ==
  ASSUME Inv, TypeOK', History, Step
  PROVE  EventsOK'
<1>1. disk' = disk /\ heard' = heard
  BY DEF Step, Inside
<1>2. ASSUME NEW e \in outbox
      PROVE  Speaks(e, reqs')
  <2>1. e.req \in Requests
    BY DEF Inv, TypeOK, Event
  <2>2. Speaks(e, reqs)
    BY DEF History, EventsOK, AllTrue
  <2>3. reqs'[e.req] # Null /\ Follows(reqs[e.req], reqs'[e.req])
    BY <2>1, <2>2, RowsMove DEF Speaks
  <2>4. QED
    BY <2>2, <2>3 DEF Speaks, Follows
<1>3. ASSUME NEW e \in outbox' \ outbox
      PROVE  Speaks(e, reqs')
  <2>1. PICK r \in Requests : \E new : Turned(r, new)
    BY <1>3 DEF Step, Still, Expired, JobDone
  <2>2. PICK new : Turned(r, new)
    BY <2>1
  <2>3. reqs'[r] = new /\ new # Null
    BY <2>2, TurnedRows DEF Inv
  <2>4. e = Pending(r) \/ (new.status # "pending" /\ e = Decided(r, new.status))
    BY <1>3, <2>2 DEF Turned, Queues
  <2>5. QED
    BY <2>3, <2>4 DEF Speaks, Pending, Decided
<1>4. QED
  BY <1>1, <1>2, <1>3 DEF EventsOK, AllTrue, History

\* A row and its stored response keep each other (_agent_idem.save).
LEMMA SameStored ==
  ASSUME NEW old, NEW new, Follows(old, new), NEW n
  PROVE  Stored(new, n) = Stored(old, n)
BY DEF Follows, Stored

\* A request of an agent, endpoint and key that is known is not minted again.
LEMMA KeysKept ==
  ASSUME Inv, TypeOK', History, Step
  PROVE  KeysOK'
<1>1. disk' = disk /\ (tx' # Aborting => tx # Aborting)
  BY DEF Step, Inside
<1>2. ASSUME NEW r \in Requests, NEW s \in Requests,
             reqs'[r] # Null, reqs'[s] # Null, Same(reqs'[r], reqs'[s]),
             reqs[r] # Null, reqs[s] # Null
      PROVE  r = s
  <2>1. Follows(reqs[r], reqs'[r]) /\ Follows(reqs[s], reqs'[s])
    BY <1>2, RowsMove
  <2>2. Same(reqs[r], reqs[s])
    BY <1>2, <2>1, SameStored DEF Same
  <2>3. QED
    BY <1>2, <2>2 DEF History, KeysOK
<1>3. ASSUME NEW r \in Requests, reqs[r] = Null, reqs'[r] # Null
      PROVE  /\ Turned(r, reqs'[r])
             /\ \A s \in Requests \ {r} : reqs'[s] = reqs[s]
  <2>1. Turned(r, reqs'[r])
    BY <1>3, RowKinds
  <2>2. QED
    BY <2>1, TurnedRows DEF Inv
<1>4. ASSUME NEW r \in Requests, reqs[r] = Null, reqs'[r] # Null,
             NEW s \in Requests \ {r}, reqs'[s] # Null
      PROVE  ~ Same(reqs'[r], reqs'[s])
  <2>1. Turned(r, reqs'[r]) /\ reqs'[s] = reqs[s]
    BY <1>3, <1>4
  <2>2. ~ Known(reqs'[r]) /\ tx # Aborting
    BY <1>4, <2>1 DEF Turned
  <2>3. Stored(reqs[s], s) \in idem
    BY <1>4, <2>1, <2>2 DEF History, KeysOK, AllStored
  <2>4. QED
    BY <2>1, <2>2, <2>3 DEF Known, Same, Stored
<1>5. ASSUME NEW r \in Requests, NEW s \in Requests,
             reqs'[r] # Null, reqs'[s] # Null, Same(reqs'[r], reqs'[s])
      PROVE  r = s
  BY <1>2, <1>4, <1>5 DEF Same
<1>6. ASSUME tx' # Aborting, NEW r \in Requests, reqs'[r] # Null
      PROVE  Stored(reqs'[r], r) \in idem'
  <2>1. CASE reqs[r] = Null
    BY <1>3, <1>6, <2>1 DEF Turned, Told
  <2>2. CASE reqs[r] # Null
    <3>1. Stored(reqs[r], r) \in idem
      BY <1>1, <1>6, <2>2 DEF History, KeysOK, AllStored
    <3>2. Stored(reqs'[r], r) = Stored(reqs[r], r)
      BY <2>2, RowsMove, SameStored
    <3>3. QED
      BY <3>1, <3>2, RowKinds
  <2>3. QED
    BY <2>1, <2>2
<1>7. QED
  BY <1>1, <1>5, <1>6 DEF KeysOK, AllStored, History

\* Decisions that are to be announced are, before the commit.
LEMMA AnnouncedKept ==
  ASSUME Inv, TypeOK', History, Step
  PROVE  AnnouncedOK'
<1>1. /\ disk' = disk /\ heard' = heard
      /\ tx' # Aborting => tx # Aborting
  BY DEF Step, Inside
<1>2. ASSUME tx' # Aborting, NEW r \in Requests, reqs'[r] # Null,
             Notable(reqs'[r])
      PROVE  Decided(r, reqs'[r].status) \in heard \cup outbox'
  <2>1. outbox \subseteq outbox'
    BY RowKinds
  <2>2. CASE Turned(r, reqs'[r])
    BY <1>2, <2>2 DEF Turned, Told
  <2>3. CASE /\ reqs[r] # Null /\ Notable(reqs[r])
             /\ reqs'[r].status = reqs[r].status
    BY <1>1, <1>2, <2>1, <2>3 DEF History, AnnouncedOK, AllAnnounced
  <2>4. CASE reqs'[r].by = Expiry
    BY <1>2, <2>4 DEF Notable, Expiry
  <2>5. CASE /\ reqs[r] # Null /\ Follows(reqs[r], reqs'[r])
             /\ reqs'[r].status = reqs[r].status
             /\ reqs'[r].by = reqs[r].by
    BY <1>2, <2>3, <2>5 DEF Notable, Follows
  <2>6. QED
    BY <1>2, <2>2, <2>3, <2>4, <2>5, RowKinds
<1>3. QED
  BY <1>1, <1>2 DEF AnnouncedOK, AllAnnounced, History

\* Only a bulk call leaves a request half-decided, unless it is to roll back.
LEMMA StuckKept ==
  ASSUME Inv, TypeOK', History, Step
  PROVE  StuckOK'
<1>1. /\ disk' = disk
      /\ tx' # Aborting => tx # Aborting
  BY DEF Step, Inside
<1>2. ASSUME tx' # Aborting, NEW r \in Requests, reqs'[r] # Null,
             Stuck(reqs'[r])
      PROVE  FromBulk(reqs'[r])
  <2>1. CASE Turned(r, reqs'[r])
    BY <1>2, <2>1 DEF Turned, Told
  <2>2. CASE reqs'[r] = reqs[r]
    BY <1>1, <1>2, <2>2 DEF History, StuckOK, AllFromBulk
  <2>3. CASE reqs'[r].status = "expired"
    BY <1>2, <2>3 DEF Stuck
  <2>4. CASE /\ reqs[r] # Null /\ Follows(reqs[r], reqs'[r])
             /\ reqs'[r].status = reqs[r].status
             /\ reqs'[r].by = reqs[r].by
             /\ reqs'[r].exec \in {"ok", "failed"}
    <3>1. Stuck(reqs[r])
      BY <1>2, <2>4 DEF Stuck
    <3>2. FromBulk(reqs[r])
      BY <1>1, <1>2, <2>4, <3>1 DEF History, StuckOK, AllFromBulk
    <3>3. QED
      BY <2>4, <3>2 DEF FromBulk, Follows
  <2>5. QED
    BY <1>2, <2>1, <2>2, <2>3, <2>4, RowKinds
<1>3. QED
  BY <1>1, <1>2 DEF StuckOK, AllFromBulk, History

\* A result is recorded with its effect, or after it (mark_executed).
LEMMA FiredKept ==
  ASSUME Inv, TypeOK', History, Step
  PROVE  FiredOK'
<1>1. disk' = disk
  BY DEF Step, Inside
<1>2. ASSUME NEW row, row # Null, row \in Request \cup {Null}, FiredStays,
             fired[<<row.agent, row.key>>] > 0
      PROVE  fired'[<<row.agent, row.key>>] > 0
  <2>1. row.agent \in Agents /\ row.key \in Keys
    BY <1>2 DEF Request
  <2>2. QED
    BY <1>2, <2>1 DEF FiredStays
<1>3. ASSUME NEW r \in Requests, reqs'[r] # Null,
             reqs'[r].exec \in {"ok", "failed"}
      PROVE  fired'[<<reqs'[r].agent, reqs'[r].key>>] > 0
  <2>1. FiredStays /\ reqs[r] \in Request \cup {Null}
    BY RowKinds DEF Inv, TypeOK
  <2>2. CASE /\ reqs[r] # Null /\ reqs'[r].exec = reqs[r].exec
             /\ reqs'[r].agent = reqs[r].agent /\ reqs'[r].key = reqs[r].key
    BY <1>2, <1>3, <2>1, <2>2 DEF History, FiredOK, AllFired
  <2>3. CASE reqs'[r] = reqs[r]
    BY <1>3, <2>2, <2>3
  <2>4. CASE Turned(r, reqs'[r])
    <3>1. CASE reqs[r] # Null /\ reqs'[r].exec = reqs[r].exec
      BY <2>2, <2>4, <3>1 DEF Turned, Follows
    <3>2. QED
      BY <1>3, <2>4, <3>1 DEF Turned
  <2>5. QED
    BY <1>3, <2>2, <2>3, <2>4, RowKinds DEF Follows
<1>4. ASSUME NEW r \in Requests, disk.reqs[r] # Null,
             disk.reqs[r].exec \in {"ok", "failed"}
      PROVE  fired'[<<disk.reqs[r].agent, disk.reqs[r].key>>] > 0
  <2>1. disk.reqs[r] \in Request \cup {Null}
    BY DEF Inv, TypeOK, Tables
  <2>2. FiredStays
    BY <1>4, RowKinds
  <2>3. QED
    BY <1>2, <1>4, <2>1, <2>2 DEF History, FiredOK, AllFired
<1>5. QED
  BY <1>1, <1>3, <1>4 DEF FiredOK, AllFired

\* Content whose cause is request r stays so, as long as no step writes more
\* in its name, and its row is not turned into a cause.
LEMMA CauseStays ==
  ASSUME NEW r \in Requests, NEW row, NEW new,
         CausedBy(r, row, mods, pages),
         mods'[r] # Null <=> mods[r] # Null,
         pages'[r] # Null <=> pages[r] # Null,
         \A m \in Modules : mods'[m] # Null /\ mods'[m].writer = r =>
           mods[m] # Null /\ mods[m].writer = r,
         \/ new = row
         \/ /\ row # Null /\ new # Null /\ new.prop = row.prop
            /\ \/ new.status = row.status
               \/ row.status = "pending" /\ new.status = "expired"
  PROVE  CausedBy(r, new, mods', pages')
BY DEF CausedBy, Created, Wrote

\* Modules and pages keep the requests they came from (apply.py).
LEMMA CausesKept ==
  ASSUME Inv, TypeOK', History, Step
  PROVE  CausesOK'
<1>1. disk' = disk
  BY DEF Step, Inside
<1>2. ASSUME NEW s \in Requests
      PROVE  CausedBy(s, reqs[s], mods, pages) /\ s \in Modules
  BY PipelineAssumption DEF History, CausesOK, AllCaused
<1>3. CASE Still
  <2>1. ASSUME NEW s \in Requests
        PROVE  CausedBy(s, reqs'[s], mods', pages')
    BY <1>2, <1>3, CauseStays DEF Still, ContentStays
  <2>2. QED
    BY <1>1, <2>1 DEF CausesOK, AllCaused, History
<1>4. CASE Expired \/ \E r \in Requests : JobDone(r)
  <2>1. UNCHANGED <<mods, pages>>
    BY <1>4 DEF Expired, JobDone
  <2>2. ASSUME NEW s \in Requests
        PROVE  \/ reqs'[s] = reqs[s]
               \/ /\ reqs[s] # Null /\ reqs'[s] # Null
                  /\ reqs'[s].prop = reqs[s].prop
                  /\ \/ reqs'[s].status = reqs[s].status
                     \/ /\ reqs[s].status = "pending"
                        /\ reqs'[s].status = "expired"
    <3>1. CASE Expired
      BY <3>1, ExpiredRow DEF Expired, Inv, IsPending
    <3>2. ASSUME NEW r \in Requests, JobDone(r)
          PROVE  \/ reqs'[s] = reqs[s]
                 \/ /\ reqs[s] # Null /\ reqs'[s] # Null
                    /\ reqs'[s].prop = reqs[s].prop
                    /\ reqs'[s].status = reqs[s].status
      BY <3>2, JobRow DEF Inv, Follows
    <3>3. QED
      BY <1>4, <3>1, <3>2
  <2>3. ASSUME NEW s \in Requests
        PROVE  CausedBy(s, reqs'[s], mods', pages')
    BY <1>2, <2>1, <2>2, CauseStays
  <2>4. QED
    BY <1>1, <2>3 DEF CausesOK, AllCaused, History
<1>5. ASSUME NEW r \in Requests, NEW new, Turned(r, new)
      PROVE  CausesOK'
  <2>1. /\ reqs'[r] = new /\ new # Null /\ ContentFrom(r, new)
        /\ \A s \in Requests \ {r} : reqs'[s] = reqs[s]
    BY <1>5, TurnedRows DEF Turned, Inv
  <2>2. CausedBy(r, new, mods', pages')
    <3>1. reqs[r] = Null \/ reqs[r].status = "pending"
      BY <1>5 DEF Turned, IsPending
    <3>2. /\ mods[r] = Null /\ pages[r] = Null
          /\ \A m \in Modules : mods[m] # Null => mods[m].writer # r
      BY <1>2, <3>1 DEF CausedBy, Created, Wrote
    <3>3. /\ mods'[r] # Null <=> Created(new, "create_module")
          /\ pages'[r] # Null <=> Created(new, "create_page")
      BY <2>1, <3>2 DEF ContentFrom
    <3>4. \A m \in Modules : mods'[m] # Null /\ mods'[m].writer = r =>
            Wrote(new, r, m)
      BY <2>1, <3>2 DEF ContentFrom
    <3>5. QED
      BY <3>3, <3>4 DEF CausedBy
  <2>3. ASSUME NEW s \in Requests \ {r}
        PROVE  CausedBy(s, reqs'[s], mods', pages')
    <3>1. \A m \in Modules : mods'[m] # Null /\ mods'[m].writer = s =>
            mods[m] # Null /\ mods[m].writer = s
      BY <2>1 DEF ContentFrom
    <3>2. /\ mods'[s] # Null <=> mods[s] # Null
          /\ pages'[s] # Null <=> pages[s] # Null
      BY <2>1 DEF ContentFrom
    <3>3. QED
      BY <1>2, <2>1, <3>1, <3>2, CauseStays
  <2>4. QED
    BY <1>1, <2>1, <2>2, <2>3 DEF CausesOK, AllCaused, History
<1>6. QED
  BY <1>3, <1>4, <1>5 DEF Step

\* A commit makes true of the disk what was true in the handler's tables.
LEMMA CommitKeeps ==
  ASSUME Inv, History, Commit
  PROVE  History'
<1>1. /\ tx # Aborting /\ outbox' = {} /\ heard' = heard \cup outbox
      /\ UNCHANGED <<reqs, mods, pages, idem, fired, minted>>
      /\ disk'.reqs = reqs /\ disk'.mods = mods /\ disk'.pages = pages
      /\ disk'.idem = idem
  BY TransactionForms DEF Commit, tables, Committed
<1>2. Growing'
  BY <1>1 DEF History, Growing, Follows
<1>3. EventsOK'
  <2>1. ASSUME NEW e \in heard
        PROVE  Speaks(e, reqs)
    <3>1. e.req \in Requests /\ Speaks(e, disk.reqs)
      BY DEF Inv, TypeOK, Event, History, EventsOK, AllTrue
    <3>2. QED
      BY <3>1 DEF History, Growing, Speaks, Follows
  <2>2. QED
    BY <1>1, <2>1 DEF History, EventsOK, AllTrue
<1>4. KeysOK'
  BY <1>1 DEF History, KeysOK, AllStored
<1>5. AnnouncedOK'
  BY <1>1 DEF History, AnnouncedOK, AllAnnounced
<1>6. StuckOK'
  BY <1>1 DEF History, StuckOK
<1>7. FiredOK'
  BY <1>1 DEF History, FiredOK, AllFired
<1>8. CausesOK'
  BY <1>1 DEF History, CausesOK
<1>9. QED
  BY <1>2, <1>3, <1>4, <1>5, <1>6, <1>7, <1>8 DEF History

\* A rollback or a crash returns to the disk, whose history is whole.
LEMMA ReloadKeeps ==
  ASSUME Inv, History, Rollback \/ Crash
  PROVE  History'
<1>1. /\ outbox' = {} /\ UNCHANGED <<disk, heard, fired, minted>>
      /\ reqs' = disk.reqs /\ mods' = disk.mods /\ pages' = disk.pages
      /\ idem' = disk.idem
  BY DEF Rollback, Crash, Reload
<1>2. Growing'
  BY <1>1 DEF History, Growing, Follows
<1>3. EventsOK'
  BY <1>1 DEF History, EventsOK, AllTrue
<1>4. KeysOK'
  <2>1. ASSUME NEW r \in Requests, NEW s \in Requests,
               disk.reqs[r] # Null, disk.reqs[s] # Null,
               Same(disk.reqs[r], disk.reqs[s])
        PROVE  r = s
    <3>1. /\ reqs[r] # Null /\ Follows(disk.reqs[r], reqs[r])
          /\ reqs[s] # Null /\ Follows(disk.reqs[s], reqs[s])
      BY <2>1 DEF History, Growing
    <3>2. Same(reqs[r], reqs[s])
      BY <2>1, <3>1, SameStored DEF Same
    <3>3. QED
      BY <3>1, <3>2 DEF History, KeysOK
  <2>2. QED
    BY <1>1, <2>1 DEF History, KeysOK, AllStored
<1>5. AnnouncedOK'
  BY <1>1 DEF History, AnnouncedOK, AllAnnounced
<1>6. StuckOK'
  BY <1>1 DEF History, StuckOK
<1>7. FiredOK'
  BY <1>1 DEF History, FiredOK, AllFired
<1>8. CausesOK'
  BY <1>1 DEF History, CausesOK
<1>9. QED
  BY <1>2, <1>3, <1>4, <1>5, <1>6, <1>7, <1>8 DEF History

\* No request, no event, and seeded content that no request wrote.
LEMMA HistoryInit == Init => History
<1> SUFFICES ASSUME Init PROVE History
  OBVIOUS
<1>1. /\ \A r \in Requests : reqs[r] = Null /\ disk.reqs[r] = Null
      /\ outbox = {} /\ heard = {}
  BY DEF Init, Committed
<1>2. \A r \in Requests : CausedBy(r, Null, InitMods, InitPages)
  <2>1. Null \notin Requests
    BY PipelineAssumption DEF Requests
  <2>2. QED
    BY <2>1, PipelineAssumption DEF CausedBy, Created
<1>3. CausesOK
  BY <1>1, <1>2 DEF Init, Committed, CausesOK, AllCaused
<1>4. Growing /\ EventsOK /\ KeysOK /\ AnnouncedOK
  BY <1>1 DEF Growing, EventsOK, AllTrue, KeysOK, AllStored, AnnouncedOK,
              AllAnnounced
<1>5. StuckOK /\ FiredOK
  BY <1>1 DEF StuckOK, AllFromBulk, FiredOK, AllFired
<1>6. QED
  BY <1>3, <1>4, <1>5 DEF History

\* Every step keeps the history of the requests whole.
LEMMA HistoryNext == Inv /\ Inv' /\ History /\ [Next]_vars => History'
<1> SUFFICES ASSUME Inv, Inv', History, [Next]_vars PROVE History'
  OBVIOUS
<1>1. CASE Step
  <2>1. TypeOK'
    BY DEF Inv
  <2>2. QED
    BY <1>1, <2>1, GrowingKept, EventsKept, KeysKept, AnnouncedKept, StuckKept,
       FiredKept, CausesKept
    DEF History
<1>2. QED
  BY <1>1, StepKinds, CommitKeeps, ReloadKeeps DEF Step

\* The history of the requests is whole in every state.
THEOREM HistoryInvariant == Spec => []History
<1>1. QED
  BY Invariant, HistoryInit, HistoryNext, PTL DEF Spec

\* What was announced is committed, with the status it was announced with
\* (publish_after_commit).
THEOREM EventsTheorem == Spec => []EventsTruthful
<1>1. History => EventsTruthful
  BY DEF History, EventsOK, AllTrue, Speaks, EventsTruthful
<1>2. QED
  BY <1>1, HistoryInvariant, PTL

\* The administrator's decisions, and those of a rule on arrival, are
\* announced once committed.
THEOREM AnnouncedTheorem == Spec => []DecisionsAnnounced
<1>1. History => DecisionsAnnounced
  BY DEF History, AnnouncedOK, AllAnnounced, Notable, DecisionsAnnounced
<1>2. QED
  BY <1>1, HistoryInvariant, PTL

\* An idempotency key stands for one committed request.
THEOREM KeysTheorem == Spec => []OneRequestPerKey
<1>1. History => OneRequestPerKey
  <2> SUFFICES ASSUME History, NEW r \in Requests, NEW s \in Requests,
                      disk.reqs[r] # Null, disk.reqs[s] # Null,
                      Stored(disk.reqs[r], 0) = Stored(disk.reqs[s], 0)
               PROVE  r = s
    BY DEF OneRequestPerKey
  <2>1. /\ reqs[r] # Null /\ Follows(disk.reqs[r], reqs[r])
        /\ reqs[s] # Null /\ Follows(disk.reqs[s], reqs[s])
    BY DEF History, Growing
  <2>2. Same(reqs[r], reqs[s])
    BY <2>1, SameStored DEF Same
  <2>3. QED
    BY <2>1, <2>2 DEF History, KeysOK
<1>2. QED
  BY <1>1, HistoryInvariant, PTL

\* Only a bulk call commits a request half-decided.
THEOREM StuckTheorem == Spec => []StuckOnlyInBulk
<1>1. History => StuckOnlyInBulk
  BY DEF History, StuckOK, AllFromBulk, Stuck, FromBulk, StuckOnlyInBulk
<1>2. QED
  BY <1>1, HistoryInvariant, PTL

\* A recorded result was preceded by the effect it is the result of.
THEOREM FiredTheorem == Spec => []ResultMeansFired
<1>1. History => ResultMeansFired
  BY DEF History, FiredOK, AllFired, ResultMeansFired
<1>2. QED
  BY <1>1, HistoryInvariant, PTL

\* Modules and pages are those of applied requests, and what they hold was
\* written by a request about them.
THEOREM CausesTheorem == Spec => []ContentHasCause
<1>1. History => ContentHasCause
  BY DEF History, CausesOK, AllCaused, CausedBy, Created, Wrote,
         ContentHasCause
<1>2. QED
  BY <1>1, HistoryInvariant, PTL

-----------------------------------------------------------------------------
\* The statuses a transaction can reach (lifecycle._ALLOWED).
LEMMA ReachableStatuses ==
  /\ RowStatuses \subseteq L!Reachable("created")
  /\ RowStatuses \ {"pending"} \subseteq L!Reachable("pending")
  /\ RowStatuses \cup {"created"} \subseteq L!Statuses
<1>1. /\ L!Allowed("created") = {"pending"}
      /\ L!Allowed("pending") = {"approved", "denied", "superseded", "expired"}
      /\ L!Allowed("approved") = {"applied", "application_failed", "denied",
                                  "superseded"}
  BY DEF L!Allowed
<1> DEFINE after(S) == UNION {L!Allowed(t) : t \in S}
<1>2. L!Allowed("pending") \subseteq after({"pending"})
  OBVIOUS
<1>3. L!Allowed("approved") \subseteq after(L!Allowed("pending"))
  BY <1>1
<1>4. L!Allowed("approved") \subseteq after(after({"pending"}))
  BY <1>1, <1>2
<1> HIDE DEF after
<1>5. L!Reachable("created") =
        {"pending"} \cup after({"pending"}) \cup after(after({"pending"}))
  BY <1>1 DEF L!Reachable, after
<1>6. L!Allowed("pending") \cup after(L!Allowed("pending"))
        \subseteq L!Reachable("pending")
  BY DEF L!Reachable, after
<1>7. QED
  BY <1>1, <1>2, <1>3, <1>4, <1>5, <1>6 DEF RowStatuses, L!Statuses

\* A commit moves every request along the table of lifecycle.py; no other
\* step moves a committed request.
LEMMA LifecycleStep ==
  ASSUME Inv, Inv', History, History', [Next]_vars
  PROVE  L!Next \/ UNCHANGED L!vars
<1> DEFINE old(r) == disk.reqs[r]
           new(r) == disk'.reqs[r]
           status(row) == IF row = Null THEN "created" ELSE row.status
           decider(row) == IF row = Null THEN NoOne ELSE row.by
<1>1. CASE UNCHANGED disk
  BY <1>1 DEF L!vars
<1>2. CASE disk' = Committed
  <2>1. ASSUME NEW r \in Requests
        PROVE  /\ old(r) # Null => new(r) # Null /\ Follows(old(r), new(r))
               /\ old(r) # Null => Signed(old(r)) /\ old(r) \in Request
               /\ new(r) # Null => Signed(new(r)) /\ new(r) \in Request
    BY <1>2 DEF Committed, Inv, TypeOK, Tables, History, Growing
  <2> HIDE DEF old, new
  <2>2. ASSUME NEW r \in Requests
        PROVE  /\ status(new(r)) \in {status(old(r))}
                                       \cup L!Reachable(status(old(r)))
               /\ status(old(r)) \notin L!Undecided =>
                    decider(new(r)) = decider(old(r))
               /\ decider(new(r)) = NoOne <=>
                    status(new(r)) \in L!Undecided
               /\ status(new(r)) \in L!Statuses
               /\ decider(new(r)) \in Deciders \cup {NoOne}
    <3>1. \A row \in Request : row.status \in RowStatuses
                                 /\ row.by \in Deciders \cup {NoOne}
      BY DEF Request
    <3>2. "created" \notin RowStatuses
      BY DEF RowStatuses
    <3>3. QED
      BY <2>1, <3>1, <3>2, ReachableStatuses
      DEF Follows, Signed, L!Undecided
  <2>3. L!Next
    BY <2>2 DEF L!Next, L!Moves, old, new
  <2>4. QED
    BY <2>3
<1>3. QED
  BY <1>1, <1>2, DiskStep DEF Inv

\* Whoever sees committed rows sees the lifecycle of lifecycle.py.
THEOREM LifecycleTheorem == Spec => ImplementsLifecycle
<1>1. Init => L!Init
  BY DEF Init, Committed, L!Init
<1>2. Inv /\ Inv' /\ History /\ History' /\ [Next]_vars =>
        [L!Next]_(L!vars)
  BY LifecycleStep
<1>3. QED
  BY <1>1, <1>2, Invariant, HistoryInvariant, PTL
  DEF Spec, ImplementsLifecycle, L!Spec
=============================================================================
