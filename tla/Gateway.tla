------------------------------ MODULE Gateway -------------------------------
(***************************************************************************)
(* A write of an agent on its way through the MCP process and the internal *)
(* API: the key is resolved, or found in the key cache (mcp/app/auth.py),  *)
(* an idempotency key is chosen (mcp/app/idem.py), the request is sent     *)
(* (mcp/app/backend.py), the agent is checked in a session of its own      *)
(* (internal_auth.py), the write lock is awaited, and the handler runs in  *)
(* one transaction (api/internal.py).  Its answer comes back as the        *)
(* envelope of mcp/app/tools.py, or not at all: after backend_timeout_s    *)
(* the tool gives up, and the handler goes on without it.                  *)
(*                                                                         *)
(* A call that the agent repeats is another call with the same arguments;  *)
(* calls are numbered as they begin.  All calls are of one tool: keys are  *)
(* derived, and answers kept, per agent and tool.                          *)
(* An idempotency key is named after the call it was minted for.           *)
(***************************************************************************)
EXTENDS AgentAccess

CONSTANTS
  MaxCalls,            \* bound: the tool calls of a behaviour
  Args,
  Supplied,            \* idempotency keys that agents choose themselves
  KeyTTL, IdemTTL,     \* auth_cache_ttl_s, idem_dedupe_ttl_s
  Timeout, BusyTimeout \* backend_timeout_s, SQLite's busy_timeout

Calls == 1..MaxCalls

VARIABLES
  known,    \* auth._cache: for a key, its agent and the ticks left, or Null
  chosen,   \* idem._cache: for agent and arguments, a key and the ticks left
  calls,    \* the tool calls in the MCP process
  jobs,     \* the requests they sent, in the backend
  stored,   \* the rows of request_idempotency for the tool's endpoint
  effect,   \* history: what the handler of a call has committed of its own
  gone,     \* history: ticks since a key stopped being valid, -1 while it is
  down      \* history: ticks since an agent stopped being active, -1 ditto

gatewayVars == <<known, chosen, calls, jobs, stored, effect, gone, down>>

Kept == {"applied", "pending", "denied", "application_failed"}
Problems == {"forbidden", "refused", "error"}
Told == {"applied", "pending", "denied", "application_failed", "unknown",
         "auth", "refused", "unavailable"}

ASSUME GatewayAssumption ==
  /\ MaxCalls \in Nat /\ Calls \cap Supplied = {}
  /\ Null \notin Calls \cup Supplied \cup Agents \cup Args
  /\ Null \notin Kept \cup Problems \cup Told
  /\ KeyTTL \in Nat \ {0} /\ IdemTTL \in Nat \ {0}
  /\ Timeout \in Nat /\ BusyTimeout \in Nat

NewCall == [at |-> "idle", token |-> Null, agent |-> Null, args |-> Null,
            given |-> Null, key |-> Null, told |-> Null, wait |-> 0]
NewJob == [at |-> "none", answer |-> Null, wait |-> 0]

Active(a) == agents[a].status = "active"
Valid(k) == \E a \in Agents : Active(a) /\ agents[a].key = k

\* The MCP side of call c moves to a stage; waiting starts over.
Goes(c, stage) == [calls[c] EXCEPT !.at = stage, !.wait = 0]
Ends(c, answer) == [calls[c] EXCEPT !.at = "over", !.told = answer, !.wait = 0]

-----------------------------------------------------------------------------
(***************************************************************************)
(* The MCP process.                                                        *)
(***************************************************************************)
\* _require_agent, resolve_token: a hit needs no request.
Begin(c, k, x, given) ==
  /\ calls[c].at = "idle" /\ k \in minted
  /\ \A d \in 1..(c - 1) : calls[d].at # "idle"
  /\ calls' = [calls EXCEPT ![c] =
                 [NewCall EXCEPT
                    !.at = IF known[k] = Null THEN "resolving" ELSE "known",
                    !.agent = IF known[k] = Null THEN Null
                              ELSE known[k].agent,
                    !.token = k, !.args = x, !.given = given]]
  /\ UNCHANGED <<known, chosen, jobs, stored, effect>>

\* resolve_key in the backend looks among the active agents.
ResolveKey(c) ==
  /\ calls[c].at = "resolving"
  /\ \/ \E a \in Agents :
          /\ Active(a) /\ agents[a].key = calls[c].token
          /\ calls' = [calls EXCEPT ![c].at = "resolved", ![c].agent = a]
     \/ /\ ~ Valid(calls[c].token)
        /\ calls' = [calls EXCEPT ![c] = Ends(c, "auth")]
  /\ UNCHANGED <<known, chosen, jobs, stored, effect>>

\* Its answer arrives.
Remember(c) ==
  /\ calls[c].at = "resolved"
  /\ calls' = [calls EXCEPT ![c] = Goes(c, "known")]
  /\ known' = [known EXCEPT ![calls[c].token] =
                 [agent |-> calls[c].agent, left |-> KeyTTL]]
  /\ UNCHANGED <<chosen, jobs, stored, effect>>

\* idem.acquire
Remembered(c) == chosen[<<calls[c].agent, calls[c].args>>]
KeyFor(c) ==
  IF calls[c].given # Null THEN calls[c].given
  ELSE IF Remembered(c) # Null THEN Remembered(c).key
  ELSE c

\* _acquire_idem_key and the request to the backend.
Send(c) ==
  /\ calls[c].at = "known"
  /\ calls' = [calls EXCEPT ![c] = [Goes(c, "sent") EXCEPT
                                        !.key = KeyFor(c), !.token = Null]]
  /\ chosen' = IF KeyFor(c) # c THEN chosen
               ELSE [chosen EXCEPT ![<<calls[c].agent, calls[c].args>>] =
                       [key |-> c, left |-> IdemTTL]]
  /\ jobs' = [jobs EXCEPT ![c].at = "sent"]
  /\ UNCHANGED <<known, stored, effect>>

\* _backend_error_to_mcp and _status_envelope: the write endpoints' callers
\* accept 403 and 500, whatever carries them.
Envelope(answer) ==
  CASE answer = "forbidden" -> "denied"
    [] answer = "error" -> "unknown"
    [] OTHER -> answer

Reply(c) ==
  /\ calls[c].at = "sent" /\ jobs[c].at = "answered"
  /\ calls' = [calls EXCEPT ![c] = Ends(c, Envelope(jobs[c].answer))]
  /\ UNCHANGED <<known, chosen, jobs, stored, effect>>

\* The request fails on the way, there or back, or takes too long.
GiveUp(c) ==
  /\ calls[c].at \in {"resolving", "resolved", "sent"}
  /\ calls' = [calls EXCEPT ![c] = Ends(c, "unavailable")]
  /\ UNCHANGED <<known, chosen, jobs, stored, effect>>

\* The MCP process ends, and with it both caches and the calls under way.
RestartGateway ==
  /\ \E c \in Calls : calls[c].at \notin {"idle", "over"}
  /\ known' = [k \in Keys |-> Null]
  /\ chosen' = [p \in Agents \X Args |-> Null]
  /\ calls' = [c \in Calls |->
                 IF calls[c].at \in {"idle", "over"} THEN calls[c]
                 ELSE Ends(c, "unavailable")]
  /\ UNCHANGED <<jobs, stored, effect>>

-----------------------------------------------------------------------------
(***************************************************************************)
(* The backend.                                                            *)
(***************************************************************************)
Answered(c, answer) ==
  jobs' = [jobs EXCEPT ![c] =
             [NewJob EXCEPT !.at = "answered", !.answer = answer]]

\* Mutant of CheckAgent: the check of the status is left to the key cache.
CheckNothing(c) ==
  /\ jobs[c].at = "sent"
  /\ jobs' = [jobs EXCEPT ![c].at = "checked"]
  /\ UNCHANGED <<known, chosen, calls, stored, effect>>

\* calling_agent, before the handler's session begins.
CheckAgent(c) ==
  /\ jobs[c].at = "sent"
  /\ IF Active(calls[c].agent)
     THEN jobs' = [jobs EXCEPT ![c].at = "checked"]
     ELSE Answered(c, "forbidden")
  /\ UNCHANGED <<known, chosen, calls, stored, effect>>

Row(c, answer) ==
  [agent |-> calls[c].agent, key |-> calls[c].key, answer |-> answer]
Replays(c) == {row \in stored : row = Row(c, row.answer)}

\* _begin_write finds the key.
Replay(c) ==
  /\ jobs[c].at = "checked"
  /\ \E row \in Replays(c) : Answered(c, row.answer)
  /\ UNCHANGED <<known, chosen, calls, stored, effect>>

\* Mutant of Execute: two requests with one key both find it unused.
ExecuteUnlocked(c, answer) ==
  /\ jobs[c].at = "checked"
  /\ Answered(c, answer)
  /\ stored' = stored \cup {Row(c, answer)}
  /\ effect' = [effect EXCEPT ![c] = answer]
  /\ UNCHANGED <<known, chosen, calls>>

\* The proposal is submitted and its answer stored.
Execute(c, answer) ==
  /\ jobs[c].at = "checked" /\ Replays(c) = {}
  /\ Answered(c, answer)
  /\ stored' = stored \cup {Row(c, answer)}
  /\ effect' = [effect EXCEPT ![c] = answer]
  /\ UNCHANGED <<known, chosen, calls>>

\* Mutant of Refuse: the transaction of a failing handler is committed.
RefuseKept(c, problem) ==
  /\ jobs[c].at = "checked"
  /\ Answered(c, problem)
  /\ effect' = [effect EXCEPT ![c] = "applied"]
  /\ UNCHANGED <<known, chosen, calls, stored>>

\* A problem is raised, and everything is rolled back: the rate limit, a
\* permission or a stale version, or the lock is not had in time.
Refuse(c, problem) ==
  /\ jobs[c].at = "checked"
  /\ Answered(c, problem)
  /\ UNCHANGED <<known, chosen, calls, stored, effect>>

-----------------------------------------------------------------------------
Count(age, cap) == IF age < 0 \/ age = cap THEN age ELSE age + 1
GoneCap == KeyTTL + Timeout + 1
DownCap == BusyTimeout + 1

\* History: what has become invalid, or valid again, with this step.
Note(key, act) ==
  /\ gone' = [k \in Keys |-> IF key[k] THEN -1
                             ELSE IF gone[k] < 0 THEN 0 ELSE gone[k]]
  /\ down' = [a \in Agents |-> IF act[a] THEN -1
                               ELSE IF down[a] < 0 THEN 0 ELSE down[a]]

\* What the administrator does to agents, as the calls see it.
ManageAgent ==
  /\ HandleAgent
  /\ Note([k \in Keys |-> Valid(k)'], [a \in Agents |-> Active(a)'])
  /\ UNCHANGED <<known, chosen, calls, jobs, stored, effect>>

\* Mutant of Age: what is cached is never thrown out.
AgeNever(entry) == entry

\* _purge_expired
Age(entry) ==
  IF entry = Null \/ entry.left = 1 THEN Null
  ELSE [entry EXCEPT !.left = @ - 1]

InFlight(c) == calls[c].at \in {"resolving", "resolved", "sent"}

\* Time passes, no further than the time-outs let it.
TickGateway ==
  /\ \A c \in Calls :
       /\ calls[c].at # "known"
       /\ InFlight(c) => calls[c].wait < Timeout
       /\ jobs[c].at = "checked" => jobs[c].wait < BusyTimeout
  /\ known' = [k \in Keys |-> Age(known[k])]
  /\ chosen' = [p \in Agents \X Args |-> Age(chosen[p])]
  /\ calls' = [c \in Calls |->
                 IF InFlight(c) THEN [calls[c] EXCEPT !.wait = @ + 1]
                 ELSE calls[c]]
  /\ jobs' = [c \in Calls |->
                IF jobs[c].at = "checked" THEN [jobs[c] EXCEPT !.wait = @ + 1]
                ELSE jobs[c]]
  /\ gone' = [k \in Keys |-> Count(gone[k], GoneCap)]
  /\ down' = [a \in Agents |-> Count(down[a], DownCap)]
  /\ UNCHANGED <<stored, effect>>

InitGateway ==
  /\ known = [k \in Keys |-> Null]
  /\ chosen = [p \in Agents \X Args |-> Null]
  /\ calls = [c \in Calls |-> NewCall]
  /\ jobs = [c \in Calls |-> NewJob]
  /\ stored = {}
  /\ effect = [c \in Calls |-> Null]
  /\ gone = [k \in Keys |-> IF Valid(k) THEN -1 ELSE GoneCap]
  /\ down = [a \in Agents |-> IF Active(a) THEN -1 ELSE DownCap]

CallStep ==
  /\ \/ RestartGateway
     \/ \E c \in Calls :
          \/ ResolveKey(c) \/ Remember(c) \/ Send(c) \/ Reply(c) \/ GiveUp(c)
          \/ CheckAgent(c) \/ Replay(c)
          \/ \E answer \in Kept : Execute(c, answer)
          \/ \E problem \in Problems : Refuse(c, problem)
          \/ \E k \in Keys, x \in Args, given \in Supplied \cup {Null} :
               Begin(c, k, x, given)
  /\ UNCHANGED <<agents, regs, asks, minted, handed, gone, down>>

GatewayStep ==
  CallStep \/ ManageAgent \/ (TickGateway /\ UNCHANGED accessVars)

\* The calls' agents are there from the beginning.
SpecCalls ==
  /\ AccessTypeOK /\ InitGateway
  /\ [][GatewayStep]_<<accessVars, gatewayVars>>

-----------------------------------------------------------------------------
GatewayTypeOK ==
  /\ known \in [Keys -> {Null} \cup [agent : Agents, left : 1..KeyTTL]]
  /\ chosen \in [Agents \X Args ->
                   {Null} \cup [key : Calls, left : 1..IdemTTL]]
  /\ calls \in [Calls ->
       [at : {"idle", "resolving", "resolved", "known", "sent", "over"},
        token : Keys \cup {Null}, agent : Agents \cup {Null},
        args : Args \cup {Null}, given : Supplied \cup {Null},
        key : Calls \cup Supplied \cup {Null}, told : Told \cup {Null},
        wait : 0..Timeout]]
  /\ jobs \in [Calls -> [at : {"none", "sent", "checked", "answered"},
                         answer : Kept \cup Problems \cup {Null},
                         wait : 0..BusyTimeout]]
  /\ stored \subseteq [agent : Agents, key : Calls \cup Supplied,
                       answer : Kept]
  /\ effect \in [Calls -> Kept \cup {Null}]
  /\ gone \in [Keys -> -1..GoneCap]
  /\ down \in [Agents -> -1..DownCap]

\* A rotated or revoked key is still taken for its agent's, but only for the
\* cache's TTL and the time an answer was under way when it was rotated
\* (resolve_token: the lock of the cache is not held while it asks; "Revocation
\* propagates within this window" of settings.py counts the TTL alone).
StaleKeyWindow ==
  \A c \in Calls :
    calls[c].at = "known" => gone[calls[c].token] <= KeyTTL + Timeout

\* Nothing is done for an agent later than the wait for the lock after it was
\* disabled or revoked, whatever the key cache says (calling_agent).
RevocationTakesHold ==
  [][\A c \in Calls :
       effect'[c] # effect[c] => down[calls[c].agent] <= BusyTimeout
    ]_<<accessVars, gatewayVars>>

\* However often a call is repeated, lost or late, one key of an agent has one
\* effect (_begin_write, store_response).
RetrySafe ==
  \A c, d \in Calls :
    (c # d /\ effect[c] # Null /\ effect[d] # Null
       /\ calls[c].agent = calls[d].agent)
      => calls[c].key # calls[d].key

\* What the tool tells the agent is so: "applied", "pending" and
\* "application_failed" are what became of a call with this key, and of these
\* arguments unless the agent chose the key; "denied" and an error other than
\* "unavailable" and "unknown" mean that this call has done nothing of its own
\* (_status_envelope, _backend_error_to_mcp, _cached_or_none).
Became(c, answer) ==
  \E d \in Calls :
    /\ effect[d] = answer /\ calls[d].key = calls[c].key
    /\ calls[d].agent = calls[c].agent
    /\ calls[c].given = Null => calls[d].args = calls[c].args

EnvelopeTruth ==
  \A c \in Calls :
    LET told == calls[c].told
    IN  /\ told \in {"applied", "pending", "application_failed"}
             => Became(c, told)
        /\ told \in {"denied", "auth", "refused", "unknown"}
             => effect[c] \in {Null, "denied"}
=============================================================================
