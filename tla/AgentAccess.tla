---------------------------- MODULE AgentAccess -----------------------------
(***************************************************************************)
(* Agents and their keys (api/agents.py), and how a client without a key   *)
(* becomes an agent: it registers, the administrator or a rule decides the *)
(* register_agent request, and the client polls until it is given a key    *)
(* (api/internal_bootstrap.py, services/agent_registration.py).            *)
(*                                                                         *)
(* Each operation is one write transaction; one that raises changes        *)
(* nothing.  Deadlines are counted down by Tick; a registration past its   *)
(* own stays as it is until something looks at it.                         *)
(***************************************************************************)
EXTENDS Integers, FiniteSets

CONSTANTS
  Agents,           \* ids that new agents may get
  Regs, Names, Keys, Null,
  Stripped,         \* what str.strip makes of a name, Null if nothing is left
  RegistrationTTL, PendingTTL, MaxPending,
  MaxHired          \* bound: agents the administrator creates

ASSUME AgentAccessAssumption ==
  /\ Stripped \in [Names -> Names \cup {Null}] /\ Null \notin Names \cup Keys
  /\ \A n \in Names : Stripped[n] # Null => Stripped[Stripped[n]] = Stripped[n]
  /\ RegistrationTTL \in Nat /\ PendingTTL \in Nat \ {0} /\ MaxPending \in Nat

VARIABLES
  agents,  \* the table agents: name, status, current key
  regs,    \* agent_registration_requests: status, name, ticks left
  asks,    \* the register_agent request of each: status, name, ticks left
  minted,  \* keys generated so far
  handed   \* history: the keys that answers to a registration's claims carried

accessVars == <<agents, regs, asks, minted, handed>>

Absent == [status |-> "none", name |-> Null, key |-> Null]
NoReg == [status |-> "none", name |-> Null, left |-> 0]

Live == {"pending", "approved"}
RegStatuses == Live \cup {"none", "denied", "claimed", "expired"}
AskStatuses == {"none", "pending", "applied", "application_failed", "denied",
                "expired"}
AgentStatuses == {"none", "active", "disabled", "revoked"}

\* A row that no deadline touches any more.
Ended(row, status) == [status |-> status, name |-> row.name, left |-> 0]
Put(table, r, row) == [s \in Regs |-> IF s = r THEN row ELSE table[s]]
Closed(table, r, status) == Put(table, r, Ended(table[r], status))

\* left goes down to -1, past the deadline.
Stale(r) == regs[r].status \in Live /\ regs[r].left < 0
Exists(a) == agents[a].status # "none"
Taken(n) == \E a \in Agents : Exists(a) /\ agents[a].name = n
Fresh(k) == k \in Keys \ minted

-----------------------------------------------------------------------------
(***************************************************************************)
(* services/agent_registration.py, as apply_register_agent and the deny    *)
(* paths call it.                                                          *)
(***************************************************************************)
\* approve_registration_row, on a table of registrations, raises unless:
Approvable(table, r, proposed) ==
  /\ table[r].status = "pending" /\ table[r].left >= 0
  /\ Stripped[proposed] # Null /\ ~ Taken(Stripped[proposed])

Approved(table, r, proposed) ==
  Put(table, r, [status |-> "approved", name |-> Stripped[proposed],
                 left |-> RegistrationTTL])

\* Mutant of Refused: a denial that is not mirrored on the registration.
NotRefused(table, r) == table

\* sync_registration_denied_from_approval
Refused(table, r) ==
  IF table[r].status \in Live
  THEN Closed(table, r, "denied")
  ELSE table

\* A verdict for r: what the request and the registrations become.
Settle(table, asked, r, verdict) ==
  \/ /\ verdict = "deny"
     /\ asks' = Closed(asked, r, "denied") /\ regs' = Refused(table, r)
  \/ /\ verdict = "approve" /\ Approvable(table, r, asked[r].name)
     /\ asks' = Closed(asked, r, "applied")
     /\ regs' = Approved(table, r, asked[r].name)
  \/ /\ verdict = "approve" /\ ~ Approvable(table, r, asked[r].name)
     /\ asks' = Closed(asked, r, "application_failed") /\ regs' = table
  \/ /\ verdict = "prompt"
     /\ asks' = asked /\ regs' = table

-----------------------------------------------------------------------------
(***************************************************************************)
(* api/internal_bootstrap.py                                               *)
(***************************************************************************)
\* _expire_stale
Swept == [r \in Regs |->
  IF Stale(r) THEN Ended(regs[r], "expired") ELSE regs[r]]
SweptAsks == [r \in Regs |->
  IF Stale(r) /\ asks[r].status = "pending"
  THEN Ended(asks[r], "expired")
  ELSE asks[r]]

PendingIn(table) == {r \in Regs : table[r].status = "pending"}

\* Mutant of NameFree: only the waiting registrations are looked at.
NameFreeOfPending(n) ==
  /\ ~ Taken(n)
  /\ \A r \in Regs : regs[r].status = "pending" /\ ~ Stale(r)
                       => regs[r].name # n

\* Neither an agent nor a live registration has the name.
NameFree(n) ==
  /\ ~ Taken(n)
  /\ \A r \in Regs : Swept[r].status \in Live => Swept[r].name # n

\* register_request: the verdict is that of submit_request.
Register(r, n, verdict) ==
  /\ regs[r].status = "none"
  /\ Cardinality(PendingIn(Swept)) < MaxPending
  /\ NameFree(n)
  /\ LET row == [status |-> "pending", name |-> n, left |-> RegistrationTTL]
         ask == [status |-> "pending", name |-> n, left |-> PendingTTL]
     IN  Settle(Put(Swept, r, row), Put(SweptAsks, r, ask), r, verdict)
  /\ UNCHANGED <<agents, minted, handed>>

\* Mutant of ClaimLate: only a waiting registration has a deadline.
ClaimLatePending(r) ==
  /\ Stale(r) /\ regs[r].status = "pending"
  /\ regs' = Closed(regs, r, "expired")
  /\ UNCHANGED <<agents, asks, minted, handed>>

\* claim_request for a live registration past its deadline.
ClaimLate(r) ==
  /\ Stale(r)
  /\ regs' = Closed(regs, r, "expired")
  /\ UNCHANGED <<agents, asks, minted, handed>>

\* Mutant of Claim: the registration is not closed.
ClaimAgain(r, a, k) ==
  /\ regs[r].status = "approved" /\ ~ Stale(r) /\ ~ Taken(regs[r].name)
  /\ ~ Exists(a) /\ Fresh(k)
  /\ agents' = [agents EXCEPT ![a] =
                  [status |-> "active", name |-> regs[r].name, key |-> k]]
  /\ minted' = minted \cup {k}
  /\ handed' = [handed EXCEPT ![r] = @ \cup {k}]
  /\ UNCHANGED <<regs, asks>>

\* claim_request: the agent and its key are made.  (The other answers change
\* nothing; a clash of names is an answer too.)
Claim(r, a, k) ==
  /\ regs[r].status = "approved" /\ ~ Stale(r) /\ ~ Taken(regs[r].name)
  /\ ~ Exists(a) /\ Fresh(k)
  /\ agents' = [agents EXCEPT ![a] =
                  [status |-> "active", name |-> regs[r].name, key |-> k]]
  /\ regs' = Closed(regs, r, "claimed")
  /\ minted' = minted \cup {k}
  /\ handed' = [handed EXCEPT ![r] = @ \cup {k}]
  /\ UNCHANGED asks

Poll(r) ==
  ClaimLate(r) \/ \E a \in Agents, k \in Keys : Claim(r, a, k)

\* The administrator, a bulk call or a sweep decides the request.
DecideAsk(r, verdict) ==
  /\ asks[r].status = "pending" /\ verdict # "prompt"
  /\ Settle(regs, asks, r, verdict)
  /\ UNCHANGED <<agents, minted, handed>>

\* expire_stale_pending: the request goes, the registration stays.
ExpireAsk(r) ==
  /\ asks[r].status = "pending" /\ asks[r].left <= 0
  /\ asks' = Closed(asks, r, "expired")
  /\ UNCHANGED <<agents, regs, minted, handed>>

-----------------------------------------------------------------------------
(***************************************************************************)
(* api/agents.py                                                           *)
(***************************************************************************)
Hired == Cardinality({a \in Agents : Exists(a)})

CreateAgent(a, n, k) ==
  /\ ~ Exists(a) /\ Hired < MaxHired
  /\ ~ Taken(n) /\ Fresh(k)
  /\ agents' = [agents EXCEPT ![a] =
                  [status |-> "active", name |-> n, key |-> k]]
  /\ minted' = minted \cup {k}
  /\ UNCHANGED <<regs, asks, handed>>

\* patch_agent, as far as the name goes.
RenameAgent(a, n) ==
  /\ Exists(a) /\ ~ Taken(n)
  /\ agents' = [agents EXCEPT ![a].name = n]
  /\ UNCHANGED <<regs, asks, minted, handed>>

\* enable_agent, disable_agent and revoke_agent
SetStatus(a, status) ==
  /\ Exists(a) /\ agents[a].status # status
  /\ status # "revoked" => agents[a].status # "revoked"
  /\ agents' = [agents EXCEPT ![a].status = status]
  /\ UNCHANGED <<regs, asks, minted, handed>>

RotateKey(a, k) ==
  /\ Exists(a) /\ agents[a].status # "revoked" /\ Fresh(k)
  /\ agents' = [agents EXCEPT ![a].key = k]
  /\ minted' = minted \cup {k}
  /\ UNCHANGED <<regs, asks, handed>>

-----------------------------------------------------------------------------
Elapse(row, floor) ==
  [row EXCEPT !.left = IF @ > floor THEN @ - 1 ELSE floor]

\* Time passes for what is still live.
TickAccess ==
  /\ regs' = [r \in Regs |->
                IF regs[r].status \in Live THEN Elapse(regs[r], -1)
                ELSE regs[r]]
  /\ asks' = [r \in Regs |->
                IF asks[r].status = "pending" THEN Elapse(asks[r], 0)
                ELSE asks[r]]
  /\ UNCHANGED <<agents, minted, handed>>

InitAccess ==
  /\ agents = [a \in Agents |-> Absent]
  /\ regs = [r \in Regs |-> NoReg]
  /\ asks = [r \in Regs |-> NoReg]
  /\ minted = {}
  /\ handed = [r \in Regs |-> {}]

EnrolStep ==
  \/ \E r \in Regs :
       \/ Poll(r) \/ ExpireAsk(r)
       \/ \E v \in {"prompt", "approve", "deny"} :
            DecideAsk(r, v) \/ \E n \in Names : Register(r, n, v)
  \/ \E a \in Agents, n \in Names :
       RenameAgent(a, n) \/ \E k \in Keys : CreateAgent(a, n, k)

\* The administrator handles an agent that exists.
HandleAgent ==
  \E a \in Agents :
    \/ \E k \in Keys : RotateKey(a, k)
    \/ \E status \in {"active", "disabled", "revoked"} : SetStatus(a, status)

SpecAccess ==
  InitAccess /\ [][EnrolStep \/ HandleAgent \/ TickAccess]_accessVars

-----------------------------------------------------------------------------
AccessTypeOK ==
  /\ agents \in [Agents -> [status : AgentStatuses, name : Names \cup {Null},
                            key : Keys \cup {Null}]]
  /\ regs \in [Regs -> [status : RegStatuses, name : Names \cup {Null},
                        left : -1..RegistrationTTL]]
  /\ asks \in [Regs -> [status : AskStatuses, name : Names \cup {Null},
                        left : 0..PendingTTL]]
  /\ minted \subseteq Keys
  /\ handed \in [Regs -> SUBSET Keys]

\* The registration a decision belongs to is where the decision put it, or has
\* expired: approvals and registrations are two tables that six handlers write
\* (apply_register_agent, sync_registration_denied_from_approval,
\* _expire_stale, expire_stale_pending, claim_request, register_request).
Fits(r) ==
  LET s == regs[r].status
  IN  CASE asks[r].status = "none" -> s = "none"
        [] asks[r].status = "applied" -> s \in {"approved", "claimed", "expired"}
        [] asks[r].status = "denied" -> s \in {"denied", "expired"}
        [] OTHER -> s \in {"pending", "expired"}

ClaimFollowsDecision == \A r \in Regs : Fits(r)

\* Agents' names are distinct, and two live registrations share one only if
\* one of them was asked for under a name that approval then stripped:
\* register_request compares names as they were sent, so that "duplicates
\* can't accumulate and dead-end".
NamesDistinct ==
  /\ \A a, b \in Agents :
       (a # b /\ Exists(a) /\ Exists(b)) => agents[a].name # agents[b].name
  /\ \A r, s \in Regs :
       (/\ r # s /\ regs[r].status \in Live /\ regs[s].status \in Live
        /\ regs[r].name = regs[s].name)
         => \E x \in {r, s} : asks[x].name # regs[x].name

\* Where a registration stands, seen from outside.
StageOf(r) ==
  CASE regs[r].status = "none" -> "none"
    [] regs[r].status = "pending" -> "open"
    [] regs[r].status = "approved" -> "admitted"
    [] regs[r].status = "claimed" -> "served"
    [] regs[r].status = "denied" -> "refused"
    [] regs[r].status = "expired" -> "lapsed"

E == INSTANCE Enrolment WITH stage <- [r \in Regs |-> StageOf(r)],
                             keys <- handed

\* The committed registrations behave as Enrolment promises: one key, only
\* after an approval that nothing took back, and never twice, whatever the
\* polls, decisions, deadlines and renamed agents do (claim_request).
ImplementsEnrolment == E!Spec

\* Polling ends: every registration that waits or is approved is one day served,
\* refused or past its deadline, also one whose name was taken meanwhile and one
\* whose request failed or expired (claim_request).
PollingEnds ==
  \A r \in Regs : regs[r].status \in Live ~> regs[r].status \notin Live
=============================================================================
