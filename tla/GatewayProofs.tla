--------------------------- MODULE GatewayProofs ---------------------------
(***************************************************************************)
(* A repeated call has one effect, the envelopes are true, and rotated     *)
(* keys and revoked agents lose their force in time, for any number of     *)
(* calls, agents and keys and any of the time-outs.                        *)
(***************************************************************************)
EXTENDS Gateway, TLAPS

Call ==
  [at : {"idle", "resolving", "resolved", "known", "sent", "over"},
   token : Keys \cup {Null}, agent : Agents \cup {Null},
   args : Args \cup {Null}, given : Supplied \cup {Null},
   key : Calls \cup Supplied \cup {Null}, told : Told \cup {Null},
   wait : 0..Timeout]
Job == [at : {"none", "sent", "checked", "answered"},
        answer : Kept \cup Problems \cup {Null}, wait : 0..BusyTimeout]

\* The tool has chosen its idempotency key, or given up.
Sent(c) == calls[c].at \in {"sent", "over"}

\* A request belongs to a call that was sent, and has an effect once.
Follows(c) ==
  /\ jobs[c].at # "none" =>
       /\ Sent(c) /\ calls[c].agent \in Agents
       /\ calls[c].key \in Calls \cup Supplied
  /\ effect[c] # Null =>
       jobs[c].at = "answered" /\ jobs[c].answer = effect[c]

\* Somebody's request with this key came to this.
Came(agent, key, answer) ==
  \E d \in Calls : /\ effect[d] = answer
                   /\ calls[d].agent = agent /\ calls[d].key = key

\* Effects, stored rows and answers go together.
Recorded ==
  /\ \A c \in Calls : effect[c] # Null => Row(c, effect[c]) \in stored
  /\ \A row \in stored : Came(row.agent, row.key, row.answer)
  /\ \A c \in Calls :
       (jobs[c].at = "answered" /\ jobs[c].answer \in Kept)
         => Came(calls[c].agent, calls[c].key, jobs[c].answer)

\* A minted key stands for the agent and the arguments of its call.
Stands(k, agent, args) ==
  /\ k \in Calls /\ Sent(k)
  /\ calls[k].agent = agent /\ calls[k].args = args

Minted(c) ==
  calls[c].key # Null =>
    /\ Sent(c)
    /\ calls[c].given # Null => calls[c].key = calls[c].given
    /\ calls[c].given = Null =>
         Stands(calls[c].key, calls[c].agent, calls[c].args)

Chosen ==
  \A a \in Agents, x \in Args :
    chosen[<<a, x>>] # Null => Stands(chosen[<<a, x>>].key, a, x)

\* A call under way has an agent once it is known, and arguments.
Known(c) ==
  /\ calls[c].at \in {"resolved", "known"} => calls[c].agent \in Agents
  /\ calls[c].at \in {"resolving", "resolved", "known"} =>
       calls[c].args \in Args /\ calls[c].token \in Keys
         /\ jobs[c].at = "none" /\ calls[c].key = Null
  /\ calls[c].at = "idle" => jobs[c].at = "none" /\ calls[c].key = Null

Truthful(c) ==
  LET told == calls[c].told
  IN  /\ told # Null => calls[c].at = "over"
      /\ told \in {"applied", "pending", "application_failed"} =>
           Came(calls[c].agent, calls[c].key, told)
             /\ calls[c].key \in Calls \cup Supplied
      /\ told \in {"denied", "auth", "refused", "unknown"} =>
           jobs[c].at \in {"none", "answered"} /\ effect[c] \in {Null, "denied"}

\* How long ago something became invalid is counted by whoever relies on it.
Clocked ==
  /\ \A k \in Keys :
       /\ Valid(k) => gone[k] = -1
       /\ known[k] # Null => gone[k] + known[k].left <= KeyTTL + Timeout
  /\ \A a \in Agents : Active(a) => down[a] = -1
  /\ \A c \in Calls :
       /\ calls[c].at = "resolved" => gone[calls[c].token] <= calls[c].wait
       /\ calls[c].at = "known" => gone[calls[c].token] <= KeyTTL + Timeout
       /\ jobs[c].at = "checked" => down[calls[c].agent] <= jobs[c].wait

CallsInv ==
  /\ GatewayTypeOK
  /\ \A c \in Calls : Follows(c) /\ Minted(c) /\ Known(c) /\ Truthful(c)
  /\ Recorded /\ Chosen /\ RetrySafe /\ Clocked

-----------------------------------------------------------------------------
LEMMA Distinctness ==
  /\ Null \notin Kept \cup Problems \cup Told /\ Null \notin Calls \cup Supplied
  /\ Null \notin Agents \cup Args
  /\ \A c \in Calls : c \notin Supplied
  /\ KeyTTL \in Nat /\ KeyTTL >= 1 /\ Timeout \in Nat /\ BusyTimeout \in Nat
  /\ IdemTTL \in Nat /\ IdemTTL >= 1
BY GatewayAssumption

LEMMA CallsStart ==
  ASSUME InitGateway PROVE CallsInv
<1>1. /\ \A c \in Calls : calls[c] = NewCall /\ jobs[c] = NewJob
                          /\ effect[c] = Null
      /\ stored = {}
  BY DEF InitGateway
<1>2. GatewayTypeOK
  <2>1. NewCall \in Call /\ NewJob \in Job
    BY GatewayAssumption DEF NewCall, NewJob, Call, Job
  <2>2. calls \in [Calls -> Call] /\ jobs \in [Calls -> Job]
    BY <2>1 DEF InitGateway
  <2>3. /\ gone \in [Keys -> -1..GoneCap] /\ down \in [Agents -> -1..DownCap]
    BY GatewayAssumption DEF InitGateway, GoneCap, DownCap
  <2>4. QED
    BY <2>2, <2>3 DEF InitGateway, GatewayTypeOK, Call, Job
<1>3. ASSUME NEW c \in Calls
      PROVE  Follows(c) /\ Minted(c) /\ Known(c) /\ Truthful(c)
  <2>1. calls[c].at = "idle" /\ calls[c].key = Null /\ calls[c].told = Null
        /\ jobs[c].at = "none" /\ effect[c] = Null
    BY <1>1 DEF NewCall, NewJob
  <2>2. QED
    BY <2>1, Distinctness DEF Follows, Minted, Known, Truthful, Told
<1>4. Recorded /\ RetrySafe
  BY <1>1 DEF Recorded, RetrySafe, NewJob
<1>5. Chosen
  BY DEF InitGateway, Chosen
<1>6. Clocked
  BY <1>1 DEF InitGateway, Clocked, NewCall, NewJob
<1>7. QED
  BY <1>2, <1>3, <1>4, <1>5, <1>6 DEF CallsInv

-----------------------------------------------------------------------------
(***************************************************************************)
(* What the steps of the MCP process and of the clock leave alone.         *)
(***************************************************************************)
\* A call that was sent keeps whose it is and its key.
Steady ==
  \A c \in Calls : Sent(c) =>
    /\ Sent(c)'
    /\ calls'[c].agent = calls[c].agent /\ calls'[c].args = calls[c].args
    /\ calls'[c].given = calls[c].given /\ calls'[c].key = calls[c].key

\* No request is answered; one may be sent for a call that has its key.
JobsSteady ==
  \A c \in Calls :
    \/ jobs'[c].at = jobs[c].at /\ jobs'[c].answer = jobs[c].answer
    \/ /\ jobs[c].at = "none" /\ jobs'[c].at = "sent"
       /\ Sent(c)' /\ calls'[c].told = Null
       /\ calls'[c].agent \in Agents /\ calls'[c].key \in Calls \cup Supplied

LEMMA CameStays ==
  ASSUME CallsInv, Steady, UNCHANGED effect,
         NEW a, NEW k, NEW answer \in Kept, Came(a, k, answer)
  PROVE  Came(a, k, answer)'
<1>1. PICK d \in Calls : /\ effect[d] = answer
                         /\ calls[d].agent = a /\ calls[d].key = k
  BY DEF Came
<1>2. Sent(d)
  BY <1>1, Distinctness DEF CallsInv, Follows
<1>3. QED
  BY <1>1, <1>2 DEF Steady, Came

LEMMA StandsStays ==
  ASSUME Steady, NEW k, NEW a, NEW x, Stands(k, a, x)
  PROVE  Stands(k, a, x)'
BY DEF Steady, Stands

LEMMA FollowsStays ==
  ASSUME CallsInv, Steady, JobsSteady, UNCHANGED <<stored, effect>>
  PROVE  (\A c \in Calls : Follows(c)') /\ Recorded' /\ RetrySafe'
<1>1. ASSUME NEW c \in Calls PROVE Follows(c)'
  BY <1>1 DEF CallsInv, Follows, Steady, JobsSteady
<1>2. ASSUME NEW c \in Calls, effect[c] # Null
      PROVE  Sent(c) /\ Row(c, effect[c])' = Row(c, effect[c])
  BY <1>2 DEF CallsInv, Follows, Steady, Row
<1>3. \A c \in Calls : effect'[c] # Null => Row(c, effect[c])' \in stored'
  BY <1>2 DEF CallsInv, Recorded
<1>4. ASSUME NEW row \in stored' PROVE Came(row.agent, row.key, row.answer)'
  <2>1. row.answer \in Kept /\ Came(row.agent, row.key, row.answer)
    BY <1>4 DEF CallsInv, Recorded, GatewayTypeOK
  <2>2. QED
    BY <2>1, CameStays
<1>5. ASSUME NEW c \in Calls, jobs'[c].at = "answered",
             jobs'[c].answer \in Kept
      PROVE  Came(calls[c].agent, calls[c].key, jobs[c].answer)'
  <2>1. jobs[c].at = "answered" /\ jobs'[c].answer = jobs[c].answer
    BY <1>5 DEF JobsSteady
  <2>2. Sent(c) /\ Came(calls[c].agent, calls[c].key, jobs[c].answer)
    BY <1>5, <2>1 DEF CallsInv, Follows, Recorded
  <2>3. PICK d \in Calls :
          /\ effect[d] = jobs[c].answer
          /\ calls[d].agent = calls[c].agent /\ calls[d].key = calls[c].key
    BY <2>2 DEF Came
  <2>4. Sent(d)
    BY <1>5, <2>1, <2>3, Distinctness DEF CallsInv, Follows
  <2>5. QED
    BY <2>1, <2>2, <2>3, <2>4 DEF Came, Steady
<1>6. RetrySafe'
  BY <1>2 DEF CallsInv, RetrySafe, Steady
<1>7. QED
  BY <1>1, <1>3, <1>4, <1>5, <1>6 DEF Recorded

\* Nothing but the time it has waited changes for a call and its request.
Idles(d) ==
  /\ calls'[d] = [calls[d] EXCEPT !.wait = calls'[d].wait]
  /\ jobs'[d] = [jobs[d] EXCEPT !.wait = jobs'[d].wait]

LEMMA IdlesKeeps ==
  ASSUME CallsInv, Steady, UNCHANGED effect, NEW d \in Calls, Idles(d)
  PROVE  Minted(d)' /\ Known(d)' /\ Truthful(d)'
<1>1. /\ calls[d] \in Call /\ jobs[d] \in Job
  BY DEF CallsInv, GatewayTypeOK, Call, Job
<1>2. /\ calls'[d].at = calls[d].at /\ calls'[d].token = calls[d].token
      /\ calls'[d].agent = calls[d].agent /\ calls'[d].args = calls[d].args
      /\ calls'[d].given = calls[d].given /\ calls'[d].key = calls[d].key
      /\ calls'[d].told = calls[d].told /\ jobs'[d].at = jobs[d].at
  BY <1>1 DEF Idles, Call, Job
<1>3. Minted(d)'
  <2>1. Minted(d)
    BY DEF CallsInv
  <2>2. CASE calls[d].key # Null /\ calls[d].given = Null
    <3>1. Stands(calls[d].key, calls[d].agent, calls[d].args)
      BY <2>1, <2>2 DEF Minted
    <3>2. Stands(calls[d].key, calls[d].agent, calls[d].args)'
      BY <1>2, <3>1 DEF Steady, Stands
    <3>3. QED
      BY <1>2, <2>1, <2>2, <3>2 DEF Minted, Sent
  <2>3. CASE calls[d].key = Null \/ calls[d].given # Null
    BY <1>2, <2>1, <2>3 DEF Minted, Sent
  <2>4. QED
    BY <2>2, <2>3
<1>4. Known(d)'
  BY <1>2 DEF CallsInv, Known
<1>5. Truthful(d)'
  <2>1. Truthful(d)
    BY DEF CallsInv
  <2>2. CASE calls[d].told \in {"applied", "pending", "application_failed"}
    <3>1. Came(calls[d].agent, calls[d].key, calls[d].told)
          /\ calls[d].told \in Kept
      BY <2>1, <2>2 DEF Truthful, Kept
    <3>2. Came(calls[d].agent, calls[d].key, calls[d].told)'
      <4>1. PICK b \in Calls : /\ effect[b] = calls[d].told
                               /\ calls[b].agent = calls[d].agent
                               /\ calls[b].key = calls[d].key
        BY <3>1 DEF Came
      <4>2. Sent(b)
        BY <3>1, <4>1, Distinctness DEF CallsInv, Follows
      <4>3. QED
        BY <1>2, <4>1, <4>2 DEF Steady, Came
    <3>3. QED
      BY <1>2, <2>1, <2>2, <3>2 DEF Truthful
  <2>3. CASE calls[d].told \notin {"applied", "pending", "application_failed"}
    BY <1>2, <2>1, <2>3 DEF Truthful
  <2>4. QED
    BY <2>2, <2>3
<1>6. QED
  BY <1>3, <1>4, <1>5

\* A step of the MCP process keeps the invariant if it does with the calls it
\* touches, with the two caches and with the clocks.
LEMMA StepKeeps ==
  ASSUME CallsInv, Steady, JobsSteady, UNCHANGED <<stored, effect>>,
         GatewayTypeOK', Chosen', Clocked',
         \A d \in Calls : Idles(d) \/ (Minted(d)' /\ Known(d)' /\ Truthful(d)')
  PROVE  CallsInv'
<1>1. \A d \in Calls : Minted(d)' /\ Known(d)' /\ Truthful(d)'
  BY IdlesKeeps
<1>2. QED
  BY <1>1, FollowsStays DEF CallsInv

\* What happens to one call leaves the others alone.
Alone(c) ==
  \A d \in Calls : d # c => calls'[d] = calls[d] /\ jobs'[d] = jobs[d]

LEMMA AloneIdles ==
  ASSUME GatewayTypeOK, NEW c \in Calls, Alone(c)
  PROVE  \A d \in Calls : d # c => Idles(d)
<1>1. ASSUME NEW d \in Calls, d # c PROVE Idles(d)
  <2>1. calls[d] \in Call /\ jobs[d] \in Job
    BY DEF GatewayTypeOK, Call, Job
  <2>2. calls'[d] = calls[d] /\ jobs'[d] = jobs[d]
    BY <1>1 DEF Alone
  <2>3. QED
    BY <2>1, <2>2 DEF Idles, Call, Job
<1>2. QED
  BY <1>1

\* One call at a time: what is left to show of a step on call c that no request
\* of c has seen yet.
LEMMA OneCallKeeps ==
  ASSUME CallsInv, UNCHANGED <<stored, effect, agents, gone, down>>,
         NEW c \in Calls, Alone(c), GatewayTypeOK', Chosen',
         Minted(c)' /\ Known(c)' /\ Truthful(c)',
         Sent(c) => /\ Sent(c)' /\ calls'[c].agent = calls[c].agent
                    /\ calls'[c].args = calls[c].args
                    /\ calls'[c].given = calls[c].given
                    /\ calls'[c].key = calls[c].key,
         \/ jobs'[c] = jobs[c]
         \/ /\ jobs[c].at = "none" /\ jobs'[c].at = "sent"
            /\ Sent(c)' /\ calls'[c].told = Null
            /\ calls'[c].agent \in Agents
            /\ calls'[c].key \in Calls \cup Supplied,
         \A k \in Keys : known'[k] # Null =>
           gone[k] + known'[k].left <= KeyTTL + Timeout,
         calls'[c].at = "resolved" => gone[calls'[c].token] <= calls'[c].wait,
         calls'[c].at = "known" =>
           gone[calls'[c].token] <= KeyTTL + Timeout
  PROVE  CallsInv'
<1>1. Steady
  BY DEF Steady, Alone, Sent
<1>2. JobsSteady
  BY DEF JobsSteady, Alone
<1>3. \A d \in Calls : Idles(d) \/ (Minted(d)' /\ Known(d)' /\ Truthful(d)')
  BY AloneIdles DEF CallsInv
<1>4. Clocked'
  <2>1. Clocked
    BY DEF CallsInv
  <2>2. \A k \in Keys : Valid(k)' => gone'[k] = -1
    BY <2>1 DEF Clocked, Valid, Active
  <2>3. \A a \in Agents : Active(a)' => down'[a] = -1
    BY <2>1 DEF Clocked, Active
  <2>4. ASSUME NEW d \in Calls
        PROVE  /\ calls'[d].at = "resolved" =>
                    gone'[calls'[d].token] <= calls'[d].wait
               /\ calls'[d].at = "known" =>
                    gone'[calls'[d].token] <= KeyTTL + Timeout
               /\ jobs'[d].at = "checked" =>
                    down'[calls'[d].agent] <= jobs'[d].wait
    <3>1. CASE d = c
      <4>1. jobs'[c].at = "checked" =>
              jobs'[c] = jobs[c] /\ calls'[c].agent = calls[c].agent
        BY <3>1 DEF CallsInv, Follows
      <4>2. QED
        BY <2>1, <3>1, <4>1 DEF Clocked
    <3>2. CASE d # c
      BY <2>1, <3>2 DEF Clocked, Alone
    <3>3. QED
      BY <3>1, <3>2
  <2>5. QED
    BY <2>2, <2>3, <2>4 DEF Clocked
<1>5. QED
  BY <1>1, <1>2, <1>3, <1>4, StepKeeps

-----------------------------------------------------------------------------
(***************************************************************************)
(* The steps of the MCP process.                                           *)
(***************************************************************************)
\* With the choices unchanged, what was chosen stands.
LEMMA ChosenStays ==
  ASSUME CallsInv, UNCHANGED chosen, Steady
  PROVE  Chosen'
<1>1. \A a \in Agents, x \in Args :
        chosen[<<a, x>>] # Null => Stands(chosen[<<a, x>>].key, a, x)
  BY DEF CallsInv, Chosen
<1>2. QED
  BY <1>1, StandsStays DEF Chosen

\* A request changes, if at all, for the call that the step is about.
LEMMA AloneSteady ==
  ASSUME NEW c \in Calls, Alone(c),
         Sent(c) => /\ Sent(c)' /\ calls'[c].agent = calls[c].agent
                    /\ calls'[c].args = calls[c].args
                    /\ calls'[c].given = calls[c].given
                    /\ calls'[c].key = calls[c].key
  PROVE  Steady
BY DEF Steady, Alone, Sent

Others == UNCHANGED <<agents, regs, asks, minted, handed, gone, down>>

LEMMA BeginKeeps ==
  ASSUME CallsInv, Others, NEW c \in Calls, NEW k \in Keys, NEW x \in Args,
         NEW given \in Supplied \cup {Null}, Begin(c, k, x, given)
  PROVE  CallsInv'
<1>1. /\ calls \in [Calls -> Call] /\ jobs \in [Calls -> Job]
      /\ calls[c].at = "idle" /\ ~ Sent(c)
      /\ jobs[c].at = "none"
  BY DEF CallsInv, GatewayTypeOK, Call, Job, Begin, Known, Sent
<1> DEFINE new == [NewCall EXCEPT
                    !.at = IF known[k] = Null THEN "resolving" ELSE "known",
                    !.agent = IF known[k] = Null THEN Null
                              ELSE known[k].agent,
                    !.token = k, !.args = x, !.given = given]
<1>2. known[k] # Null => /\ known[k].agent \in Agents
                         /\ known[k].left \in 1..KeyTTL
  BY DEF CallsInv, GatewayTypeOK
<1>3. /\ new.at = IF known[k] = Null THEN "resolving" ELSE "known"
      /\ new.agent = IF known[k] = Null THEN Null ELSE known[k].agent
      /\ new.token = k /\ new.args = x /\ new.given = given
      /\ new.key = Null /\ new.told = Null /\ new.wait = 0
      /\ new \in Call
  <2>1. 0 \in 0..Timeout
    BY Distinctness
  <2>2. QED
    BY <1>2, <2>1 DEF NewCall, Call
<1>4. /\ calls' = [calls EXCEPT ![c] = new]
      /\ UNCHANGED <<known, chosen, jobs, stored, effect>>
  BY DEF Begin
<1> HIDE DEF new
<1>5. calls'[c] = new /\ jobs'[c] = jobs[c] /\ Alone(c)
  BY <1>1, <1>4 DEF Alone
<1>6. GatewayTypeOK'
  <2>1. calls' \in [Calls -> Call]
    BY <1>1, <1>3, <1>4
  <2>2. QED
    BY <2>1, <1>4 DEF CallsInv, GatewayTypeOK, Call, Others
<1>7. Chosen'
  BY <1>1, <1>4, <1>5, AloneSteady, ChosenStays
<1>8. Minted(c)' /\ Known(c)' /\ Truthful(c)'
  BY <1>1, <1>2, <1>3, <1>5, Distinctness DEF Minted, Known, Truthful, Told
<1>9. \A j \in Keys : known[j] # Null =>
        gone[j] + known[j].left <= KeyTTL + Timeout
  BY DEF CallsInv, Clocked
<1>10. calls'[c].at = "known" => gone[calls'[c].token] <= KeyTTL + Timeout
  <2>1. gone[k] \in Int
    BY DEF CallsInv, GatewayTypeOK
  <2>2. QED
    BY <1>2, <1>3, <1>5, <1>9, <2>1, Distinctness
<1>11. QED
  BY <1>1, <1>3, <1>4, <1>5, <1>6, <1>7, <1>8, <1>9, <1>10, OneCallKeeps
     DEF Others

\* A call may end with an answer that is true.
LEMMA EndsKeeps ==
  ASSUME CallsInv, Others, NEW c \in Calls, NEW answer \in Told \cup {Null},
         calls[c].at # "idle",
         calls' = [calls EXCEPT ![c] = Ends(c, answer)],
         UNCHANGED <<known, chosen, jobs, stored, effect>>,
         answer \in {"applied", "pending", "application_failed"} =>
           Came(calls[c].agent, calls[c].key, answer)
             /\ calls[c].key \in Calls \cup Supplied,
         answer \in {"denied", "auth", "refused", "unknown"} =>
           jobs[c].at \in {"none", "answered"} /\ effect[c] \in {Null, "denied"}
  PROVE  CallsInv'
<1> DEFINE new == Ends(c, answer)
<1>1. /\ calls \in [Calls -> Call] /\ jobs \in [Calls -> Job]
      /\ calls[c] \in Call
  BY DEF CallsInv, GatewayTypeOK, Call, Job
<1>2. /\ new \in Call /\ new.at = "over" /\ new.told = answer
      /\ new.agent = calls[c].agent /\ new.args = calls[c].args
      /\ new.given = calls[c].given /\ new.key = calls[c].key
  <2>1. 0 \in 0..Timeout
    BY Distinctness
  <2>2. QED
    BY <1>1, <2>1 DEF Call, Ends
<1> HIDE DEF new
<1>3. calls'[c] = new /\ jobs'[c] = jobs[c] /\ Alone(c)
  BY <1>1 DEF Alone, new
<1>4. Steady
  BY <1>2, <1>3, AloneSteady DEF Sent
<1>5. GatewayTypeOK'
  <2>1. calls' \in [Calls -> Call]
    BY <1>1, <1>2 DEF new
  <2>2. QED
    BY <2>1 DEF CallsInv, GatewayTypeOK, Call, Others
<1>6. Minted(c)'
  <2>1. Minted(c)
    BY DEF CallsInv
  <2>2. CASE calls[c].key # Null /\ calls[c].given = Null
    <3>1. Stands(calls[c].key, calls[c].agent, calls[c].args)
      BY <2>1, <2>2 DEF Minted
    <3>2. Stands(calls[c].key, calls[c].agent, calls[c].args)'
      BY <1>2, <1>3, <1>4, <3>1 DEF Steady, Stands
    <3>3. QED
      BY <1>2, <1>3, <2>1, <2>2, <3>2 DEF Minted, Sent
  <2>3. CASE calls[c].key = Null \/ calls[c].given # Null
    BY <1>2, <1>3, <2>1, <2>3 DEF Minted, Sent
  <2>4. QED
    BY <2>2, <2>3
<1>7. Known(c)'
  BY <1>2, <1>3 DEF Known
<1>8. Truthful(c)'
  <2>1. CASE answer \in {"applied", "pending", "application_failed"}
    <3>1. answer \in Kept
      BY <2>1 DEF Kept
    <3>2. Came(calls[c].agent, calls[c].key, answer)'
      <4>1. PICK b \in Calls : /\ effect[b] = answer
                               /\ calls[b].agent = calls[c].agent
                               /\ calls[b].key = calls[c].key
        BY <2>1 DEF Came
      <4>2. Sent(b)
        BY <3>1, <4>1, Distinctness DEF CallsInv, Follows
      <4>3. /\ effect'[b] = answer /\ calls'[b].agent = calls[c].agent
            /\ calls'[b].key = calls[c].key
        BY <1>4, <4>1, <4>2 DEF Steady
      <4>4. QED
        BY <1>2, <1>3, <4>3 DEF Came
    <3>3. QED
      BY <1>2, <1>3, <2>1, <3>2 DEF Truthful
  <2>2. CASE answer \notin {"applied", "pending", "application_failed"}
    BY <1>2, <1>3, <2>2 DEF Truthful
  <2>3. QED
    BY <2>1, <2>2
<1>9. Chosen'
  BY <1>4, ChosenStays
<1>10. \A j \in Keys : known[j] # Null =>
         gone[j] + known[j].left <= KeyTTL + Timeout
  BY DEF CallsInv, Clocked
<1>11. QED
  BY <1>2, <1>3, <1>5, <1>6, <1>7, <1>8, <1>9, <1>10, OneCallKeeps
     DEF Others, Sent

LEMMA ResolveKeyKeeps ==
  ASSUME CallsInv, Others, NEW c \in Calls, ResolveKey(c)
  PROVE  CallsInv'
<1>1. /\ calls \in [Calls -> Call] /\ jobs \in [Calls -> Job]
      /\ calls[c] \in Call /\ calls[c].at = "resolving" /\ ~ Sent(c)
      /\ jobs[c].at = "none" /\ calls[c].key = Null /\ calls[c].told = Null
      /\ calls[c].args \in Args /\ calls[c].token \in Keys
      /\ effect[c] = Null
  BY DEF CallsInv, GatewayTypeOK, Call, Job, ResolveKey, Known, Sent, Truthful,
         Follows
<1>2. UNCHANGED <<known, chosen, jobs, stored, effect>>
  BY DEF ResolveKey
<1>3. \A j \in Keys : known[j] # Null =>
        gone[j] + known[j].left <= KeyTTL + Timeout
  BY DEF CallsInv, Clocked
<1>4. CASE \E a \in Agents :
             /\ Active(a) /\ agents[a].key = calls[c].token
             /\ calls' = [calls EXCEPT ![c].at = "resolved", ![c].agent = a]
  <2>1. PICK a \in Agents :
          /\ Active(a) /\ agents[a].key = calls[c].token
          /\ calls' = [calls EXCEPT ![c].at = "resolved", ![c].agent = a]
    BY <1>4
  <2> DEFINE new == [calls[c] EXCEPT !.at = "resolved", !.agent = a]
  <2>2. /\ new \in Call /\ new.at = "resolved" /\ new.agent = a
        /\ new.token = calls[c].token /\ new.args = calls[c].args
        /\ new.key = Null /\ new.told = Null /\ new.wait = calls[c].wait
    BY <1>1 DEF Call
  <2>3. calls' = [calls EXCEPT ![c] = new]
    BY <1>1, <2>1 DEF Call
  <2> HIDE DEF new
  <2>4. calls'[c] = new /\ jobs'[c] = jobs[c] /\ Alone(c)
    BY <1>1, <1>2, <2>3 DEF Alone
  <2>5. GatewayTypeOK'
    <3>1. calls' \in [Calls -> Call]
      BY <1>1, <2>2, <2>3
    <3>2. QED
      BY <1>2, <3>1 DEF CallsInv, GatewayTypeOK, Call, Others
  <2>6. Chosen'
    BY <1>1, <1>2, <2>4, AloneSteady, ChosenStays
  <2>7. Minted(c)' /\ Known(c)' /\ Truthful(c)'
    BY <1>1, <2>2, <2>4, Distinctness DEF Minted, Known, Truthful, Told
  <2>8. gone[new.token] <= new.wait
    <3>1. gone[calls[c].token] = -1
      BY <1>1, <2>1 DEF CallsInv, Clocked, Valid
    <3>2. QED
      BY <1>1, <2>2, <3>1 DEF Call
  <2>9. QED
    BY <1>1, <1>2, <1>3, <2>2, <2>4, <2>5, <2>6, <2>7, <2>8, OneCallKeeps
       DEF Others
<1>5. CASE calls' = [calls EXCEPT ![c] = Ends(c, "auth")]
  BY <1>1, <1>2, <1>5, EndsKeeps DEF Told
<1>6. QED
  BY <1>4, <1>5 DEF ResolveKey

LEMMA ReplyKeeps ==
  ASSUME CallsInv, Others, NEW c \in Calls, Reply(c)
  PROVE  CallsInv'
<1> DEFINE answer == Envelope(jobs[c].answer)
<1>1. /\ calls[c].at = "sent" /\ jobs[c].at = "answered"
      /\ calls' = [calls EXCEPT ![c] = Ends(c, answer)]
      /\ UNCHANGED <<known, chosen, jobs, stored, effect>>
  BY DEF Reply
<1>2. /\ jobs[c].answer \in Kept \cup Problems \cup {Null}
      /\ effect[c] \in Kept \cup {Null}
      /\ calls[c].key \in Calls \cup Supplied
      /\ effect[c] # Null => jobs[c].answer = effect[c]
  BY <1>1 DEF CallsInv, GatewayTypeOK, Follows
<1>3. answer \in Told \cup {Null}
  BY <1>2, Distinctness DEF Envelope, Kept, Problems, Told
<1>4. ASSUME answer \in {"applied", "pending", "application_failed"}
      PROVE  Came(calls[c].agent, calls[c].key, answer)
  <2>1. jobs[c].answer = answer /\ jobs[c].answer \in Kept
    BY <1>2, <1>4, Distinctness DEF Envelope, Kept, Problems
  <2>2. QED
    BY <1>1, <2>1 DEF CallsInv, Recorded
<1>5. ASSUME answer \in {"denied", "auth", "refused", "unknown"}
      PROVE  effect[c] \in {Null, "denied"}
  BY <1>2, <1>5, Distinctness DEF Envelope, Kept, Problems
<1> HIDE DEF answer
<1>6. QED
  BY <1>1, <1>2, <1>3, <1>4, <1>5, EndsKeeps

LEMMA GiveUpKeeps ==
  ASSUME CallsInv, Others, NEW c \in Calls, GiveUp(c)
  PROVE  CallsInv'
<1>1. /\ calls[c].at # "idle" /\ "unavailable" \in Told
      /\ calls' = [calls EXCEPT ![c] = Ends(c, "unavailable")]
      /\ UNCHANGED <<known, chosen, jobs, stored, effect>>
  BY DEF GiveUp, Told
<1>2. QED
  BY <1>1, EndsKeeps

LEMMA RememberKeeps ==
  ASSUME CallsInv, Others, NEW c \in Calls, Remember(c)
  PROVE  CallsInv'
<1> DEFINE new == Goes(c, "known")
           token == calls[c].token
           entry == [agent |-> calls[c].agent, left |-> KeyTTL]
<1>1. /\ calls \in [Calls -> Call] /\ jobs \in [Calls -> Job]
      /\ calls[c] \in Call /\ calls[c].at = "resolved" /\ ~ Sent(c)
      /\ jobs[c].at = "none" /\ calls[c].key = Null /\ calls[c].told = Null
      /\ calls[c].args \in Args /\ token \in Keys /\ calls[c].agent \in Agents
      /\ gone[token] <= calls[c].wait /\ gone \in [Keys -> -1..GoneCap]
  BY DEF CallsInv, GatewayTypeOK, Call, Job, Remember, Known, Sent, Truthful,
         Clocked
<1>2. /\ calls' = [calls EXCEPT ![c] = new]
      /\ known' = [known EXCEPT ![token] = entry]
      /\ UNCHANGED <<chosen, jobs, stored, effect>>
  BY DEF Remember
<1>3. /\ new \in Call /\ new.at = "known" /\ new.told = Null
      /\ new.token = token /\ new.key = Null
      /\ new.agent = calls[c].agent /\ new.args = calls[c].args
  <2>1. 0 \in 0..Timeout
    BY Distinctness
  <2>2. QED
    BY <1>1, <2>1 DEF Call, Goes
<1>4. /\ KeyTTL \in 1..KeyTTL /\ calls[c].wait \in 0..Timeout
      /\ KeyTTL \in Nat /\ Timeout \in Nat /\ gone[token] \in Int
  BY <1>1, Distinctness DEF Call
<1> HIDE DEF new
<1>5. calls'[c] = new /\ jobs'[c] = jobs[c] /\ Alone(c)
  BY <1>1, <1>2 DEF Alone
<1>6. GatewayTypeOK'
  <2>1. calls' \in [Calls -> Call]
    BY <1>1, <1>2, <1>3
  <2>2. entry \in [agent : Agents, left : 1..KeyTTL]
    BY <1>1, <1>4
  <2>3. known' \in [Keys -> {Null} \cup [agent : Agents, left : 1..KeyTTL]]
    BY <1>2, <2>2 DEF CallsInv, GatewayTypeOK
  <2>4. QED
    BY <1>2, <2>1, <2>3 DEF CallsInv, GatewayTypeOK, Call, Others
<1>7. Chosen'
  BY <1>1, <1>2, <1>5, AloneSteady, ChosenStays
<1>8. Minted(c)' /\ Known(c)' /\ Truthful(c)'
  BY <1>1, <1>3, <1>5, Distinctness DEF Minted, Known, Truthful, Told
<1>9. ASSUME NEW k \in Keys, known'[k] # Null
      PROVE  gone[k] + known'[k].left <= KeyTTL + Timeout
  <2>1. CASE k = token
    <3>1. known'[k] = entry
      BY <1>1, <1>2, <2>1 DEF CallsInv, GatewayTypeOK
    <3>2. QED
      BY <1>1, <1>4, <2>1, <3>1
  <2>2. CASE k # token
    BY <1>2, <1>9, <2>2 DEF CallsInv, Clocked, GatewayTypeOK
  <2>3. QED
    BY <2>1, <2>2
<1>10. gone[token] <= KeyTTL + Timeout
  BY <1>1, <1>4
<1>11. QED
  BY <1>1, <1>2, <1>3, <1>5, <1>6, <1>7, <1>8, <1>9, <1>10, OneCallKeeps
     DEF Others

LEMMA SendKeeps ==
  ASSUME CallsInv, Others, NEW c \in Calls, Send(c)
  PROVE  CallsInv'
<1> DEFINE new == [Goes(c, "sent") EXCEPT !.key = KeyFor(c), !.token = Null]
           pair == <<calls[c].agent, calls[c].args>>
           job == [jobs[c] EXCEPT !.at = "sent"]
<1>1. /\ calls \in [Calls -> Call] /\ jobs \in [Calls -> Job]
      /\ calls[c] \in Call /\ calls[c].at = "known" /\ ~ Sent(c)
      /\ jobs[c] \in Job /\ jobs[c].at = "none" /\ calls[c].told = Null
      /\ calls[c].args \in Args /\ calls[c].agent \in Agents
      /\ pair \in Agents \X Args
  BY DEF CallsInv, GatewayTypeOK, Call, Job, Send, Known, Sent, Truthful
<1>2. /\ calls' = [calls EXCEPT ![c] = new]
      /\ chosen' = IF KeyFor(c) # c THEN chosen
                   ELSE [chosen EXCEPT ![pair] = [key |-> c, left |-> IdemTTL]]
      /\ jobs' = [jobs EXCEPT ![c] = job]
      /\ UNCHANGED <<known, stored, effect>>
  BY <1>1 DEF Send, Job
<1>3. /\ KeyFor(c) \in Calls \cup Supplied
      /\ calls[c].given # Null => KeyFor(c) = calls[c].given
      /\ (calls[c].given = Null /\ KeyFor(c) # c) =>
           Stands(KeyFor(c), calls[c].agent, calls[c].args)
  <2>1. Chosen
    BY DEF CallsInv
  <2>2. calls[c].given \in Supplied \cup {Null}
    BY <1>1 DEF Call
  <2>3. chosen[pair] # Null =>
          Stands(chosen[pair].key, calls[c].agent, calls[c].args)
    BY <1>1, <2>1 DEF Chosen
  <2>4. chosen[pair] # Null => chosen[pair].key \in Calls
    BY <2>3 DEF Stands
  <2>5. QED
    BY <2>2, <2>3, <2>4 DEF KeyFor, Remembered
<1>4. /\ new \in Call /\ new.at = "sent" /\ new.told = Null
      /\ new.key = KeyFor(c) /\ new.given = calls[c].given
      /\ new.agent = calls[c].agent /\ new.args = calls[c].args
  <2>1. 0 \in 0..Timeout
    BY Distinctness
  <2>2. QED
    BY <1>1, <1>3, <2>1 DEF Call, Goes
<1>5. job \in Job /\ job.at = "sent" /\ job.answer = jobs[c].answer
  BY <1>1 DEF Job
<1> HIDE DEF new, job, pair
<1>6. calls'[c] = new /\ jobs'[c] = job /\ Alone(c)
  BY <1>1, <1>2 DEF Alone
<1>7. Steady
  BY <1>1, <1>6, AloneSteady
<1>8. GatewayTypeOK'
  <2>1. calls' \in [Calls -> Call] /\ jobs' \in [Calls -> Job]
    BY <1>1, <1>2, <1>4, <1>5
  <2>2. IdemTTL \in 1..IdemTTL
    BY Distinctness
  <2>3. chosen' \in [Agents \X Args ->
                       {Null} \cup [key : Calls, left : 1..IdemTTL]]
    BY <1>1, <1>2, <2>2 DEF CallsInv, GatewayTypeOK
  <2>4. QED
    BY <1>2, <2>1, <2>3 DEF CallsInv, GatewayTypeOK, Call, Job, Others
<1>9. ASSUME KeyFor(c) = c
      PROVE  Stands(c, calls[c].agent, calls[c].args)'
  BY <1>4, <1>6 DEF Stands, Sent
<1>10. Minted(c)'
  <2>1. CASE calls[c].given # Null
    BY <1>3, <1>4, <1>6, <2>1 DEF Minted, Sent
  <2>2. CASE calls[c].given = Null /\ KeyFor(c) # c
    <3>1. PICK k : k = KeyFor(c) /\ Stands(k, calls[c].agent, calls[c].args)
      BY <1>3, <2>2
    <3>2. /\ k \in Calls /\ Sent(k)'
          /\ calls'[k].agent = calls[c].agent
          /\ calls'[k].args = calls[c].args
      BY <1>7, <3>1 DEF Steady, Stands
    <3>3. QED
      BY <1>4, <1>6, <2>2, <3>1, <3>2 DEF Minted, Stands, Sent
  <2>3. CASE calls[c].given = Null /\ KeyFor(c) = c
    BY <1>4, <1>6, <2>3 DEF Minted, Stands, Sent
  <2>4. QED
    BY <2>1, <2>2, <2>3
<1>11. Known(c)' /\ Truthful(c)'
  BY <1>4, <1>5, <1>6, Distinctness DEF Known, Truthful, Told
<1>12. Chosen'
  <2>1. ASSUME NEW a \in Agents, NEW x \in Args, chosen'[<<a, x>>] # Null
        PROVE  Stands(chosen[<<a, x>>].key, a, x)'
    <3>1. CASE KeyFor(c) # c \/ <<a, x>> # pair
      <4>1. chosen'[<<a, x>>] = chosen[<<a, x>>]
        BY <1>2, <3>1 DEF CallsInv, GatewayTypeOK
      <4>2. Stands(chosen[<<a, x>>].key, a, x)
        BY <2>1, <4>1 DEF CallsInv, Chosen
      <4>3. QED
        BY <1>7, <4>1, <4>2 DEF Steady, Stands
    <3>2. CASE KeyFor(c) = c /\ <<a, x>> = pair
      <4>1. chosen'[<<a, x>>].key = c
        BY <1>1, <1>2, <3>2 DEF CallsInv, GatewayTypeOK
      <4>2. a = calls[c].agent /\ x = calls[c].args
        BY <3>2 DEF pair
      <4>3. QED
        BY <1>4, <1>6, <4>1, <4>2 DEF Stands, Sent
    <3>3. QED
      BY <3>1, <3>2
  <2>2. QED
    BY <2>1 DEF Chosen
<1>13. \A k \in Keys : known[k] # Null =>
         gone[k] + known[k].left <= KeyTTL + Timeout
  BY DEF CallsInv, Clocked
<1>14. QED
  BY <1>1, <1>2, <1>3, <1>4, <1>5, <1>6, <1>8, <1>10, <1>11, <1>12, <1>13,
     OneCallKeeps DEF Others, Sent

-----------------------------------------------------------------------------
(***************************************************************************)
(* The steps of the backend: the request of one call goes on.              *)
(***************************************************************************)
LEMMA RequestKeeps ==
  ASSUME CallsInv, Others, UNCHANGED <<known, chosen, calls>>,
         NEW c \in Calls, jobs[c].at \in {"sent", "checked"},
         NEW job \in Job, job.at \in {"checked", "answered"},
         jobs' = [jobs EXCEPT ![c] = job],
         job.at = "checked" => down[calls[c].agent] <= job.wait,
         stored' \subseteq [agent : Agents, key : Calls \cup Supplied,
                            answer : Kept],
         effect' \in [Calls -> Kept \cup {Null}],
         \A d \in Calls : d # c => effect'[d] = effect[d],
         effect'[c] # Null => job.at = "answered" /\ job.answer = effect'[c],
         Recorded', RetrySafe'
  PROVE  CallsInv'
<1>1. /\ jobs \in [Calls -> Job] /\ calls \in [Calls -> Call]
      /\ effect[c] = Null
      /\ Sent(c) /\ calls[c].at \in {"sent", "over"}
  BY DEF CallsInv, GatewayTypeOK, Call, Job, Follows, Sent
<1>2. jobs'[c] = job /\ \A d \in Calls : d # c => jobs'[d] = jobs[d]
  BY <1>1
<1>3. GatewayTypeOK'
  <2>1. jobs' \in [Calls -> Job]
    BY <1>1
  <2>2. QED
    BY <2>1 DEF CallsInv, GatewayTypeOK, Job, Others
<1>4. ASSUME NEW d \in Calls
      PROVE  Follows(d)' /\ Minted(d)' /\ Known(d)'
  <2>1. Follows(d) /\ Minted(d) /\ Known(d)
    BY DEF CallsInv
  <2>2. CASE d = c
    BY <1>1, <1>2, <2>1, <2>2 DEF Follows, Minted, Stands, Known, Sent
  <2>3. CASE d # c
    BY <1>2, <2>1, <2>3 DEF Follows, Minted, Stands, Known, Sent
  <2>4. QED
    BY <2>2, <2>3
<1>5. ASSUME NEW a, NEW k, NEW answer \in Kept, Came(a, k, answer)
      PROVE  Came(a, k, answer)'
  BY <1>1, <1>5, Distinctness DEF Came
<1>6. ASSUME NEW d \in Calls PROVE Truthful(d)'
  <2>1. Truthful(d)
    BY DEF CallsInv
  <2>2. CASE calls[d].told \in {"applied", "pending", "application_failed"}
    <3>1. calls[d].told \in Kept
          /\ Came(calls[d].agent, calls[d].key, calls[d].told)
      BY <2>1, <2>2 DEF Truthful, Kept
    <3>2. Came(calls[d].agent, calls[d].key, calls[d].told)'
      BY <1>5, <3>1 DEF Came
    <3>3. QED
      BY <2>1, <2>2, <3>2 DEF Truthful
  <2>3. CASE calls[d].told \in {"denied", "auth", "refused", "unknown"}
    <3>1. d # c
      BY <2>1, <2>3 DEF Truthful
    <3>2. QED
      BY <1>2, <2>1, <2>3, <3>1 DEF Truthful
  <2>4. CASE calls[d].told \notin {"applied", "pending", "application_failed",
                                   "denied", "auth", "refused", "unknown"}
    BY <2>1, <2>4 DEF Truthful
  <2>5. QED
    BY <2>2, <2>3, <2>4
<1>7. Chosen'
  BY DEF CallsInv, Chosen, Stands, Sent
<1>8. Clocked'
  <2>1. Clocked
    BY DEF CallsInv
  <2>2. ASSUME NEW d \in Calls, jobs'[d].at = "checked"
        PROVE  down'[calls'[d].agent] <= jobs'[d].wait
    BY <1>2, <2>1, <2>2 DEF Clocked, Others
  <2>3. QED
    BY <2>1, <2>2 DEF Clocked, Valid, Active, Others
<1>9. QED
  BY <1>3, <1>4, <1>6, <1>7, <1>8 DEF CallsInv

\* The request is checked or answered, with nothing new committed.
LEMMA AnswerKeeps ==
  ASSUME CallsInv, Others, UNCHANGED <<known, chosen, calls, stored, effect>>,
         NEW c \in Calls, jobs[c].at \in {"sent", "checked"},
         NEW job \in Job, job.at \in {"checked", "answered"},
         jobs' = [jobs EXCEPT ![c] = job],
         job.at = "checked" => down[calls[c].agent] <= job.wait,
         (job.at = "answered" /\ job.answer \in Kept) =>
           Came(calls[c].agent, calls[c].key, job.answer)
  PROVE  CallsInv'
<1>1. jobs \in [Calls -> Job] /\ effect[c] = Null
  BY DEF CallsInv, GatewayTypeOK, Job, Follows
<1>2. Recorded'
  <2>1. Recorded
    BY DEF CallsInv
  <2>2. ASSUME NEW d \in Calls, jobs'[d].at = "answered",
               jobs'[d].answer \in Kept
        PROVE  Came(calls[d].agent, calls[d].key, jobs[d].answer)'
    <3>1. CASE d = c
      BY <1>1, <2>2, <3>1 DEF Came
    <3>2. CASE d # c
      BY <1>1, <2>1, <2>2, <3>2 DEF Recorded, Came
    <3>3. QED
      BY <3>1, <3>2
  <2>3. QED
    BY <2>1, <2>2 DEF Recorded, Came, Row
<1>3. RetrySafe'
  BY DEF CallsInv, RetrySafe
<1>4. QED
  BY <1>1, <1>2, <1>3, RequestKeeps DEF CallsInv, GatewayTypeOK

LEMMA CheckAgentKeeps ==
  ASSUME CallsInv, Others, NEW c \in Calls, CheckAgent(c)
  PROVE  CallsInv'
<1>1. /\ jobs \in [Calls -> Job] /\ jobs[c] \in Job /\ jobs[c].at = "sent"
      /\ calls[c].agent \in Agents /\ 0 \in 0..BusyTimeout
      /\ UNCHANGED <<known, chosen, calls, stored, effect>>
  BY Distinctness DEF CallsInv, GatewayTypeOK, Job, Follows, CheckAgent
<1>2. CASE Active(calls[c].agent)
  <2> DEFINE job == [jobs[c] EXCEPT !.at = "checked"]
  <2>1. /\ job \in Job /\ job.at = "checked" /\ job.wait = jobs[c].wait
        /\ job.answer = jobs[c].answer
    BY <1>1 DEF Job
  <2>2. jobs' = [jobs EXCEPT ![c] = job]
    BY <1>1, <1>2 DEF CheckAgent, Job
  <2>3. down[calls[c].agent] <= job.wait
    <3>1. down[calls[c].agent] = -1 /\ job.wait \in 0..BusyTimeout
      BY <1>1, <1>2, <2>1 DEF CallsInv, Clocked, Job
    <3>2. QED
      BY <3>1, Distinctness
  <2> HIDE DEF job
  <2>4. QED
    BY <1>1, <2>1, <2>2, <2>3, AnswerKeeps
<1>3. CASE ~ Active(calls[c].agent)
  <2> DEFINE job == [NewJob EXCEPT !.at = "answered", !.answer = "forbidden"]
  <2>1. job \in Job /\ job.at = "answered" /\ job.answer \notin Kept
    BY <1>1 DEF Job, NewJob, Kept, Problems
  <2>2. jobs' = [jobs EXCEPT ![c] = job]
    BY <1>3 DEF CheckAgent, Answered
  <2> HIDE DEF job
  <2>3. QED
    BY <1>1, <2>1, <2>2, AnswerKeeps
<1>4. QED
  BY <1>2, <1>3

LEMMA RefuseKeeps ==
  ASSUME CallsInv, Others, NEW c \in Calls, NEW problem \in Problems,
         Refuse(c, problem)
  PROVE  CallsInv'
<1> DEFINE job == [NewJob EXCEPT !.at = "answered", !.answer = problem]
<1>1. 0 \in 0..BusyTimeout
  BY Distinctness
<1>2. job \in Job /\ job.at = "answered" /\ job.answer \notin Kept
  BY <1>1 DEF Job, NewJob, Kept, Problems
<1>3. /\ jobs[c].at = "checked" /\ jobs' = [jobs EXCEPT ![c] = job]
      /\ UNCHANGED <<known, chosen, calls, stored, effect>>
  BY DEF Refuse, Answered
<1> HIDE DEF job
<1>4. QED
  BY <1>2, <1>3, AnswerKeeps

LEMMA ReplayKeeps ==
  ASSUME CallsInv, Others, NEW c \in Calls, Replay(c)
  PROVE  CallsInv'
<1>1. PICK row \in Replays(c) : Answered(c, row.answer)
  BY DEF Replay
<1> DEFINE job == [NewJob EXCEPT !.at = "answered", !.answer = row.answer]
<1>2. row \in stored /\ row = Row(c, row.answer) /\ row.answer \in Kept
  BY <1>1 DEF Replays, CallsInv, GatewayTypeOK
<1>3. Came(calls[c].agent, calls[c].key, row.answer)
  BY <1>2 DEF CallsInv, Recorded, Row
<1>4. 0 \in 0..BusyTimeout
  BY Distinctness
<1>5. job \in Job /\ job.at = "answered" /\ job.answer = row.answer
  BY <1>2, <1>4 DEF Job, NewJob
<1>6. /\ jobs[c].at = "checked" /\ jobs' = [jobs EXCEPT ![c] = job]
      /\ UNCHANGED <<known, chosen, calls, stored, effect>>
  BY <1>1 DEF Replay, Answered
<1> HIDE DEF job
<1>7. QED
  BY <1>3, <1>5, <1>6, AnswerKeeps

LEMMA ExecuteKeeps ==
  ASSUME CallsInv, Others, NEW c \in Calls, NEW answer \in Kept,
         Execute(c, answer)
  PROVE  CallsInv'
<1> DEFINE job == [NewJob EXCEPT !.at = "answered", !.answer = answer]
<1>1. /\ jobs[c].at = "checked" /\ Replays(c) = {}
      /\ jobs' = [jobs EXCEPT ![c] = job]
      /\ stored' = stored \cup {Row(c, answer)}
      /\ effect' = [effect EXCEPT ![c] = answer]
      /\ UNCHANGED <<known, chosen, calls>>
  BY DEF Execute, Answered
<1>2. 0 \in 0..BusyTimeout
  BY Distinctness
<1>3. job \in Job /\ job.at = "answered" /\ job.answer = answer
  BY <1>2 DEF Job, NewJob
<1> HIDE DEF job
<1>4. /\ jobs \in [Calls -> Job] /\ effect \in [Calls -> Kept \cup {Null}]
      /\ calls[c].agent \in Agents /\ calls[c].key \in Calls \cup Supplied
      /\ effect[c] = Null
  BY <1>1 DEF CallsInv, GatewayTypeOK, Job, Follows
<1>5. /\ effect'[c] = answer /\ jobs'[c] = job
      /\ \A d \in Calls : d # c => effect'[d] = effect[d]
                                   /\ jobs'[d] = jobs[d]
  BY <1>1, <1>4
<1>6. Row(c, answer) \in [agent : Agents, key : Calls \cup Supplied,
                          answer : Kept]
  BY <1>4 DEF Row
<1>7. Recorded'
  <2>1. Recorded
    BY DEF CallsInv
  <2>2. ASSUME NEW a, NEW k, NEW was \in Kept, Came(a, k, was)
        PROVE  Came(a, k, was)'
    BY <1>1, <1>4, <1>5, <2>2, Distinctness DEF Came
  <2>3. Came(calls[c].agent, calls[c].key, answer)'
    BY <1>1, <1>5 DEF Came
  <2>4. ASSUME NEW d \in Calls, effect'[d] # Null
        PROVE  Row(d, effect[d])' \in stored'
    <3>1. CASE d = c
      BY <1>1, <1>5, <3>1 DEF Row
    <3>2. CASE d # c
      <4>1. effect'[d] = effect[d] /\ Row(d, effect[d]) \in stored
        BY <1>5, <2>1, <2>4, <3>2 DEF Recorded
      <4>2. QED
        BY <1>1, <4>1 DEF Row
    <3>3. QED
      BY <3>1, <3>2
  <2>5. ASSUME NEW row \in stored'
        PROVE  Came(row.agent, row.key, row.answer)'
    <3>1. CASE row \in stored
      <4>1. row.answer \in Kept /\ Came(row.agent, row.key, row.answer)
        BY <2>1, <3>1 DEF Recorded, CallsInv, GatewayTypeOK
      <4>2. QED
        BY <2>2, <4>1
    <3>2. CASE row = Row(c, answer)
      BY <1>1, <2>3, <3>2 DEF Row, Came
    <3>3. QED
      BY <1>1, <3>1, <3>2
  <2>6. ASSUME NEW d \in Calls, jobs'[d].at = "answered",
               jobs'[d].answer \in Kept
        PROVE  Came(calls[d].agent, calls[d].key, jobs[d].answer)'
    <3>1. CASE d = c
      BY <1>1, <1>3, <1>5, <3>1 DEF Came
    <3>2. CASE d # c
      <4>1. Came(calls[d].agent, calls[d].key, jobs[d].answer)
        BY <1>5, <2>1, <2>6, <3>2 DEF Recorded
      <4>2. QED
        BY <1>1, <1>4, <1>5, <2>6, <3>2, <4>1, Distinctness DEF Came
    <3>3. QED
      BY <3>1, <3>2
  <2>7. QED
    BY <2>4, <2>5, <2>6 DEF Recorded
<1>8. RetrySafe'
  <2>1. ASSUME NEW d \in Calls, d # c, effect[d] # Null,
               calls[d].agent = calls[c].agent
        PROVE  calls[d].key # calls[c].key
    <3>1. Row(d, effect[d]) \in stored
      BY <2>1 DEF CallsInv, Recorded
    <3>2. ASSUME calls[d].key = calls[c].key
          PROVE  Row(d, effect[d]) = Row(c, Row(d, effect[d]).answer)
      BY <2>1, <3>2 DEF Row
    <3>3. QED
      BY <1>1, <3>1, <3>2 DEF Replays
  <2>2. QED
    BY <1>1, <1>5, <2>1 DEF CallsInv, RetrySafe
<1>9. stored' \subseteq [agent : Agents, key : Calls \cup Supplied,
                         answer : Kept]
      /\ effect' \in [Calls -> Kept \cup {Null}]
  BY <1>1, <1>4, <1>6 DEF CallsInv, GatewayTypeOK
<1>10. QED
  BY <1>1, <1>3, <1>5, <1>7, <1>8, <1>9, RequestKeeps

-----------------------------------------------------------------------------
(***************************************************************************)
(* A restart, the clock, the administrator.                                *)
(***************************************************************************)
LEMMA RestartKeeps ==
  ASSUME CallsInv, Others, RestartGateway
  PROVE  CallsInv'
<1>1. /\ calls \in [Calls -> Call] /\ jobs \in [Calls -> Job]
  BY DEF CallsInv, GatewayTypeOK, Call, Job
<1>2. /\ known' = [k \in Keys |-> Null]
      /\ chosen' = [p \in Agents \X Args |-> Null]
      /\ calls' = [c \in Calls |->
                     IF calls[c].at \in {"idle", "over"} THEN calls[c]
                     ELSE Ends(c, "unavailable")]
      /\ UNCHANGED <<jobs, stored, effect>>
  BY DEF RestartGateway
<1>3. ASSUME NEW c \in Calls
      PROVE  /\ Ends(c, "unavailable") \in Call
             /\ Ends(c, "unavailable").at = "over"
             /\ Ends(c, "unavailable").told = "unavailable"
             /\ Ends(c, "unavailable").agent = calls[c].agent
             /\ Ends(c, "unavailable").args = calls[c].args
             /\ Ends(c, "unavailable").given = calls[c].given
             /\ Ends(c, "unavailable").key = calls[c].key
  <2>1. calls[c] \in Call /\ 0 \in 0..Timeout
    BY <1>1, Distinctness
  <2>2. QED
    BY <2>1 DEF Call, Ends, Told
<1>4. \A c \in Calls :
        \/ calls[c].at \in {"idle", "over"} /\ calls'[c] = calls[c]
        \/ calls[c].at \notin {"idle", "over"}
           /\ calls'[c] = Ends(c, "unavailable")
  BY <1>2
<1>5. Steady /\ JobsSteady
  BY <1>2, <1>3, <1>4 DEF Steady, JobsSteady, Sent
<1>6. GatewayTypeOK'
  <2>1. calls' \in [Calls -> Call]
    BY <1>1, <1>2, <1>3
  <2>2. known' \in [Keys -> {Null} \cup [agent : Agents, left : 1..KeyTTL]]
        /\ chosen' \in [Agents \X Args ->
                          {Null} \cup [key : Calls, left : 1..IdemTTL]]
    BY <1>2
  <2>3. QED
    BY <1>2, <2>1, <2>2 DEF CallsInv, GatewayTypeOK, Call, Others
<1>7. Chosen'
  BY <1>2 DEF Chosen
<1>8. Clocked'
  BY <1>2, <1>3, <1>4 DEF CallsInv, Clocked, Valid, Active, Others
<1>9. ASSUME NEW c \in Calls
      PROVE  Idles(c) \/ (Minted(c)' /\ Known(c)' /\ Truthful(c)')
  <2>1. CASE calls[c].at \in {"idle", "over"}
    <3>1. calls[c] \in Call /\ jobs[c] \in Job /\ calls'[c] = calls[c]
      BY <1>1, <1>4, <2>1
    <3>2. QED
      BY <1>2, <3>1 DEF Idles, Call, Job
  <2>2. CASE calls[c].at \notin {"idle", "over"}
    <3>1. /\ calls'[c].at = "over" /\ calls'[c].told = "unavailable"
          /\ calls'[c].agent = calls[c].agent /\ calls'[c].key = calls[c].key
          /\ calls'[c].args = calls[c].args /\ calls'[c].given = calls[c].given
      BY <1>3, <1>4, <2>2
    <3>2. Minted(c)'
      <4>1. Minted(c)
        BY DEF CallsInv
      <4>2. CASE calls[c].key # Null /\ calls[c].given = Null
        <5>1. PICK k : k = calls[c].key
                       /\ Stands(k, calls[c].agent, calls[c].args)
          BY <4>1, <4>2 DEF Minted
        <5>2. /\ k \in Calls /\ Sent(k)' /\ calls'[k].agent = calls[c].agent
              /\ calls'[k].args = calls[c].args
          BY <1>5, <5>1 DEF Steady, Stands
        <5>3. QED
          BY <3>1, <4>2, <5>1, <5>2 DEF Minted, Stands, Sent
      <4>3. CASE calls[c].key = Null \/ calls[c].given # Null
        BY <3>1, <4>1, <4>3 DEF Minted, Sent
      <4>4. QED
        BY <4>2, <4>3
    <3>3. Known(c)' /\ Truthful(c)'
      BY <3>1 DEF Known, Truthful
    <3>4. QED
      BY <3>2, <3>3
  <2>3. QED
    BY <2>1, <2>2
<1>10. QED
  BY <1>2, <1>5, <1>6, <1>7, <1>8, <1>9, StepKeeps

LEMMA TickKeeps ==
  ASSUME CallsInv, UNCHANGED accessVars, TickGateway
  PROVE  CallsInv'
<1>1. /\ calls \in [Calls -> Call] /\ jobs \in [Calls -> Job]
      /\ known \in [Keys -> {Null} \cup [agent : Agents, left : 1..KeyTTL]]
      /\ chosen \in [Agents \X Args ->
                       {Null} \cup [key : Calls, left : 1..IdemTTL]]
      /\ gone \in [Keys -> -1..GoneCap] /\ down \in [Agents -> -1..DownCap]
      /\ KeyTTL \in Nat /\ IdemTTL \in Nat /\ Timeout \in Nat
      /\ BusyTimeout \in Nat
  BY Distinctness DEF CallsInv, GatewayTypeOK, Call, Job
<1>2. ASSUME NEW c \in Calls
      PROVE  /\ calls[c].at # "known"
             /\ calls'[c] \in Call /\ jobs'[c] \in Job /\ Idles(c)
             /\ calls[c].at = "resolved" =>
                  calls'[c].wait = calls[c].wait + 1
             /\ jobs[c].at = "checked" => jobs'[c].wait = jobs[c].wait + 1
  <2>1. /\ calls[c] \in Call /\ jobs[c] \in Job /\ calls[c].at # "known"
        /\ calls'[c] = IF InFlight(c)
                       THEN [calls[c] EXCEPT !.wait = calls[c].wait + 1]
                       ELSE calls[c]
        /\ jobs'[c] = IF jobs[c].at = "checked"
                      THEN [jobs[c] EXCEPT !.wait = jobs[c].wait + 1]
                      ELSE jobs[c]
        /\ InFlight(c) => calls[c].wait < Timeout
        /\ jobs[c].at = "checked" => jobs[c].wait < BusyTimeout
    BY <1>1 DEF TickGateway
  <2>2. /\ calls[c].wait \in 0..Timeout /\ jobs[c].wait \in 0..BusyTimeout
    BY <2>1 DEF Call, Job
  <2>3. /\ InFlight(c) => calls[c].wait + 1 \in 0..Timeout
        /\ jobs[c].at = "checked" => jobs[c].wait + 1 \in 0..BusyTimeout
    BY <1>1, <2>1, <2>2
  <2>4. calls'[c] \in Call /\ (calls[c].at = "resolved" =>
                                 calls'[c].wait = calls[c].wait + 1)
        /\ calls'[c] = [calls[c] EXCEPT !.wait = calls'[c].wait]
    BY <2>1, <2>3 DEF Call, InFlight
  <2>5. jobs'[c] \in Job /\ (jobs[c].at = "checked" =>
                               jobs'[c].wait = jobs[c].wait + 1)
        /\ jobs'[c] = [jobs[c] EXCEPT !.wait = jobs'[c].wait]
    BY <2>1, <2>3 DEF Job
  <2>6. QED
    BY <2>1, <2>4, <2>5 DEF Idles
<1>3. ASSUME NEW k \in Keys
      PROVE  /\ known'[k] \in {Null} \cup [agent : Agents, left : 1..KeyTTL]
             /\ known'[k] # Null => known[k] # Null
                                    /\ known'[k].left = known[k].left - 1
             /\ gone'[k] \in -1..GoneCap /\ gone'[k] <= gone[k] + 1
             /\ gone[k] = -1 => gone'[k] = -1
  <2>1. known'[k] = Age(known[k]) /\ gone'[k] = Count(gone[k], GoneCap)
        /\ gone[k] \in -1..GoneCap
    BY <1>1 DEF TickGateway
  <2>2. gone'[k] \in -1..GoneCap /\ gone'[k] <= gone[k] + 1
        /\ (gone[k] = -1 => gone'[k] = -1)
    BY <1>1, <2>1 DEF Count, GoneCap
  <2>3. CASE known[k] = Null \/ known[k].left = 1
    BY <2>1, <2>2, <2>3 DEF Age
  <2>4. CASE known[k] # Null /\ known[k].left # 1
    <3>1. known[k] \in [agent : Agents, left : 1..KeyTTL]
      BY <1>1, <2>4
    <3>2. known[k].left - 1 \in 1..KeyTTL
      BY <1>1, <2>4, <3>1
    <3>3. known'[k] = [known[k] EXCEPT !.left = known[k].left - 1]
      BY <2>1, <2>4 DEF Age
    <3>4. QED
      BY <2>2, <2>4, <3>1, <3>2, <3>3
  <2>5. QED
    BY <2>3, <2>4
<1>4. ASSUME NEW p \in Agents \X Args
      PROVE  /\ chosen'[p] \in {Null} \cup [key : Calls, left : 1..IdemTTL]
             /\ chosen'[p] # Null => chosen[p] # Null
                                     /\ chosen'[p].key = chosen[p].key
  <2>1. chosen'[p] = Age(chosen[p])
    BY DEF TickGateway
  <2>2. CASE chosen[p] = Null \/ chosen[p].left = 1
    BY <2>1, <2>2 DEF Age
  <2>3. CASE chosen[p] # Null /\ chosen[p].left # 1
    <3>1. chosen[p] \in [key : Calls, left : 1..IdemTTL]
      BY <1>1, <2>3
    <3>2. chosen[p].left - 1 \in 1..IdemTTL
      BY <1>1, <2>3, <3>1
    <3>3. chosen'[p] = [chosen[p] EXCEPT !.left = chosen[p].left - 1]
      BY <2>1, <2>3 DEF Age
    <3>4. QED
      BY <2>3, <3>1, <3>2, <3>3
  <2>4. QED
    BY <2>2, <2>3
<1>5. ASSUME NEW a \in Agents
      PROVE  /\ down'[a] \in -1..DownCap /\ down'[a] <= down[a] + 1
             /\ down[a] = -1 => down'[a] = -1
  <2>1. down'[a] = Count(down[a], DownCap) /\ down[a] \in -1..DownCap
    BY <1>1 DEF TickGateway
  <2>2. QED
    BY <1>1, <2>1 DEF Count, DownCap
<1>6. ASSUME NEW c \in Calls
      PROVE  /\ calls'[c].at = calls[c].at /\ calls'[c].agent = calls[c].agent
             /\ calls'[c].token = calls[c].token
             /\ calls'[c].args = calls[c].args
             /\ calls'[c].given = calls[c].given
             /\ calls'[c].key = calls[c].key /\ jobs'[c].at = jobs[c].at
             /\ jobs'[c].answer = jobs[c].answer
  <2>1. calls[c] \in Call /\ jobs[c] \in Job /\ Idles(c)
    BY <1>1, <1>2
  <2>2. QED
    BY <2>1 DEF Idles, Call, Job
<1>7. Steady /\ JobsSteady
  BY <1>6 DEF Steady, JobsSteady, Sent
<1>8. UNCHANGED <<stored, effect, agents>>
  BY DEF TickGateway, accessVars
<1>9. GatewayTypeOK'
  <2>1. calls' \in [Calls -> Call] /\ jobs' \in [Calls -> Job]
    BY <1>2 DEF TickGateway
  <2>2. /\ known' \in [Keys -> {Null} \cup [agent : Agents, left : 1..KeyTTL]]
        /\ gone' \in [Keys -> -1..GoneCap]
    BY <1>3 DEF TickGateway
  <2>3. /\ chosen' \in [Agents \X Args ->
                          {Null} \cup [key : Calls, left : 1..IdemTTL]]
        /\ down' \in [Agents -> -1..DownCap]
    BY <1>4, <1>5 DEF TickGateway
  <2>4. QED
    BY <1>8, <2>1, <2>2, <2>3 DEF CallsInv, GatewayTypeOK, Call, Job
<1>10. Chosen'
  <2>1. ASSUME NEW a \in Agents, NEW x \in Args, chosen'[<<a, x>>] # Null
        PROVE  Stands(chosen[<<a, x>>].key, a, x)'
    <3>1. PICK k : k = chosen[<<a, x>>].key /\ Stands(k, a, x)
                   /\ chosen'[<<a, x>>].key = k
      BY <1>4, <2>1 DEF CallsInv, Chosen
    <3>2. QED
      BY <1>7, <3>1 DEF Steady, Stands
  <2>2. QED
    BY <2>1 DEF Chosen
<1>11. Clocked'
  <2>1. Clocked
    BY DEF CallsInv
  <2>2. ASSUME NEW k \in Keys
        PROVE  /\ Valid(k)' => gone'[k] = -1
               /\ known'[k] # Null =>
                    gone'[k] + known'[k].left <= KeyTTL + Timeout
    <3>1. Valid(k)' => gone'[k] = -1
      BY <1>3, <1>8, <2>1 DEF Clocked, Valid, Active
    <3>2. ASSUME known'[k] # Null
          PROVE  gone'[k] + known'[k].left <= KeyTTL + Timeout
      <4>1. /\ gone[k] + known[k].left <= KeyTTL + Timeout
            /\ known'[k].left = known[k].left - 1
            /\ known[k].left \in Int /\ gone[k] \in Int /\ gone'[k] \in Int
            /\ gone'[k] <= gone[k] + 1
        BY <1>1, <1>3, <2>1, <3>2 DEF Clocked
      <4>2. QED
        BY <1>1, <4>1
    <3>3. QED
      BY <3>1, <3>2
  <2>3. \A a \in Agents : Active(a)' => down'[a] = -1
    BY <1>5, <1>8, <2>1 DEF Clocked, Active
  <2>4. ASSUME NEW c \in Calls
        PROVE  /\ calls'[c].at = "resolved" =>
                    gone'[calls'[c].token] <= calls'[c].wait
               /\ calls'[c].at # "known"
               /\ jobs'[c].at = "checked" =>
                    down'[calls'[c].agent] <= jobs'[c].wait
    <3>1. ASSUME calls[c].at = "resolved"
          PROVE  gone'[calls[c].token] <= calls'[c].wait
      <4>1. /\ calls[c].token \in Keys /\ calls[c].wait \in Int
            /\ gone[calls[c].token] <= calls[c].wait
        BY <1>1, <2>1, <3>1 DEF CallsInv, Known, Clocked, Call
      <4>2. /\ calls'[c].wait = calls[c].wait + 1
            /\ gone'[calls[c].token] <= gone[calls[c].token] + 1
            /\ gone'[calls[c].token] \in Int /\ gone[calls[c].token] \in Int
        BY <1>1, <1>2, <1>3, <3>1, <4>1
      <4>3. QED
        BY <4>1, <4>2
    <3>2. ASSUME jobs[c].at = "checked"
          PROVE  down'[calls[c].agent] <= jobs'[c].wait
      <4>1. /\ calls[c].agent \in Agents /\ jobs[c].wait \in Int
            /\ down[calls[c].agent] <= jobs[c].wait
        BY <1>1, <2>1, <3>2 DEF CallsInv, Follows, Clocked, Job
      <4>2. /\ jobs'[c].wait = jobs[c].wait + 1
            /\ down'[calls[c].agent] <= down[calls[c].agent] + 1
            /\ down'[calls[c].agent] \in Int /\ down[calls[c].agent] \in Int
        BY <1>1, <1>2, <1>5, <3>2, <4>1
      <4>3. QED
        BY <4>1, <4>2
    <3>3. QED
      BY <1>2, <1>6, <3>1, <3>2
  <2>5. QED
    BY <2>2, <2>3, <2>4 DEF Clocked
<1>12. QED
  BY <1>2, <1>7, <1>8, <1>9, <1>10, <1>11, StepKeeps

LEMMA ManageKeeps ==
  ASSUME CallsInv, ManageAgent
  PROVE  CallsInv'
<1>1. /\ UNCHANGED <<known, chosen, calls, jobs, stored, effect>>
      /\ gone' = [k \in Keys |-> IF Valid(k)' THEN -1
                                 ELSE IF gone[k] < 0 THEN 0 ELSE gone[k]]
      /\ down' = [a \in Agents |-> IF Active(a)' THEN -1
                                   ELSE IF down[a] < 0 THEN 0 ELSE down[a]]
  BY DEF ManageAgent, Note
<1>2. /\ calls \in [Calls -> Call] /\ jobs \in [Calls -> Job]
      /\ known \in [Keys -> {Null} \cup [agent : Agents, left : 1..KeyTTL]]
      /\ gone \in [Keys -> -1..GoneCap] /\ down \in [Agents -> -1..DownCap]
      /\ KeyTTL \in Nat /\ Timeout \in Nat /\ BusyTimeout \in Nat
      /\ 0 \in -1..GoneCap /\ 0 \in -1..DownCap
      /\ -1 \in -1..GoneCap /\ -1 \in -1..DownCap
  BY Distinctness DEF CallsInv, GatewayTypeOK, Call, Job, GoneCap, DownCap
<1>3. ASSUME NEW k \in Keys
      PROVE  /\ gone'[k] \in -1..GoneCap /\ (Valid(k)' => gone'[k] = -1)
             /\ gone'[k] <= gone[k] \/ gone'[k] = 0
  BY <1>1, <1>2
<1>4. ASSUME NEW a \in Agents
      PROVE  /\ down'[a] \in -1..DownCap /\ (Active(a)' => down'[a] = -1)
             /\ down'[a] <= down[a] \/ down'[a] = 0
  BY <1>1, <1>2
<1>5. Steady /\ JobsSteady
  BY <1>1 DEF Steady, JobsSteady, Sent
<1>6. GatewayTypeOK'
  <2>1. gone' \in [Keys -> -1..GoneCap] /\ down' \in [Agents -> -1..DownCap]
    BY <1>1, <1>2
  <2>2. QED
    BY <1>1, <2>1 DEF CallsInv, GatewayTypeOK
<1>7. Chosen'
  BY <1>1, <1>5, ChosenStays
<1>8. Clocked'
  <2>1. Clocked
    BY DEF CallsInv
  <2>2. ASSUME NEW k \in Keys, known[k] # Null
        PROVE  gone'[k] + known[k].left <= KeyTTL + Timeout
    <3>1. /\ gone[k] + known[k].left <= KeyTTL + Timeout
          /\ known[k].left \in 1..KeyTTL /\ gone[k] \in Int /\ gone'[k] \in Int
      BY <1>2, <1>3, <2>1, <2>2 DEF Clocked
    <3>2. QED
      BY <1>2, <1>3, <3>1
  <2>3. ASSUME NEW c \in Calls
        PROVE  /\ calls[c].at = "resolved" =>
                    gone'[calls[c].token] <= calls[c].wait
               /\ calls[c].at = "known" =>
                    gone'[calls[c].token] <= KeyTTL + Timeout
               /\ jobs[c].at = "checked" =>
                    down'[calls[c].agent] <= jobs[c].wait
    <3>1. calls[c].wait \in Nat /\ jobs[c].wait \in Nat
      <4>1. calls[c].wait \in 0..Timeout /\ jobs[c].wait \in 0..BusyTimeout
        BY <1>2 DEF Call, Job
      <4>2. QED
        BY <4>1
    <3>2. ASSUME calls[c].at \in {"resolved", "known"}
          PROVE  calls[c].token \in Keys
      BY <3>2 DEF CallsInv, Known
    <3>3. ASSUME jobs[c].at = "checked"
          PROVE  calls[c].agent \in Agents
      BY <3>3 DEF CallsInv, Follows
    <3>4. CASE calls[c].at = "resolved"
      <4>1. gone'[calls[c].token] <= calls[c].wait
        BY <1>2, <1>3, <2>1, <3>1, <3>2, <3>4 DEF Clocked
      <4>2. jobs[c].at # "checked"
        BY <3>4 DEF CallsInv, Known
      <4>3. QED
        BY <3>4, <4>1, <4>2
    <3>5. CASE calls[c].at = "known"
      <4>1. gone'[calls[c].token] <= KeyTTL + Timeout
        BY <1>2, <1>3, <2>1, <3>2, <3>5 DEF Clocked
      <4>2. jobs[c].at # "checked"
        BY <3>5 DEF CallsInv, Known
      <4>3. QED
        BY <3>5, <4>1, <4>2
    <3>6. CASE calls[c].at \notin {"resolved", "known"}
      BY <1>2, <1>4, <2>1, <3>1, <3>3, <3>6 DEF Clocked
    <3>7. QED
      BY <3>4, <3>5, <3>6
  <2>4. QED
    BY <1>1, <1>3, <1>4, <2>2, <2>3 DEF Clocked
<1>9. \A c \in Calls : Idles(c)
  <2>1. ASSUME NEW c \in Calls PROVE Idles(c)
    <3>1. calls[c] \in Call /\ jobs[c] \in Job
      BY <1>2
    <3>2. QED
      BY <1>1, <3>1 DEF Idles, Call, Job
  <2>2. QED
    BY <2>1
<1>10. QED
  BY <1>1, <1>5, <1>6, <1>7, <1>8, <1>9, StepKeeps

-----------------------------------------------------------------------------
LEMMA CallsInvStep ==
  ASSUME CallsInv, [GatewayStep]_<<accessVars, gatewayVars>>
  PROVE  CallsInv'
<1>1. CASE CallStep
  <2>1. Others
    BY <1>1 DEF CallStep, Others
  <2>2. CASE RestartGateway
    BY <2>1, <2>2, RestartKeeps
  <2>3. CASE \E c \in Calls : ResolveKey(c)
    BY <2>1, <2>3, ResolveKeyKeeps
  <2>4. CASE \E c \in Calls : Remember(c)
    BY <2>1, <2>4, RememberKeeps
  <2>5. CASE \E c \in Calls : Send(c)
    BY <2>1, <2>5, SendKeeps
  <2>6. CASE \E c \in Calls : Reply(c)
    BY <2>1, <2>6, ReplyKeeps
  <2>7. CASE \E c \in Calls : GiveUp(c)
    BY <2>1, <2>7, GiveUpKeeps
  <2>8. CASE \E c \in Calls : CheckAgent(c)
    BY <2>1, <2>8, CheckAgentKeeps
  <2>9. CASE \E c \in Calls : Replay(c)
    BY <2>1, <2>9, ReplayKeeps
  <2>10. CASE \E c \in Calls, answer \in Kept : Execute(c, answer)
    BY <2>1, <2>10, ExecuteKeeps
  <2>11. CASE \E c \in Calls, problem \in Problems : Refuse(c, problem)
    BY <2>1, <2>11, RefuseKeeps
  <2>12. CASE \E c \in Calls, k \in Keys, x \in Args,
                 given \in Supplied \cup {Null} : Begin(c, k, x, given)
    BY <2>1, <2>12, BeginKeeps
  <2>13. QED
    BY <1>1, <2>2, <2>3, <2>4, <2>5, <2>6, <2>7, <2>8, <2>9, <2>10, <2>11,
       <2>12 DEF CallStep
<1>2. CASE ManageAgent
  BY <1>2, ManageKeeps
<1>3. CASE TickGateway /\ UNCHANGED accessVars
  BY <1>3, TickKeeps
<1>4. CASE UNCHANGED <<accessVars, gatewayVars>>
  BY <1>4 DEF CallsInv, GatewayTypeOK, Follows, Minted, Known, Truthful,
     Recorded, Chosen, RetrySafe, Clocked, Came, Stands, Sent, Row, Valid,
     Active, accessVars, gatewayVars
<1>5. QED
  BY <1>1, <1>2, <1>3, <1>4 DEF GatewayStep

\* The invariant holds throughout.
THEOREM CallsInvariant == SpecCalls => []CallsInv
<1>1. SpecCalls => CallsInv
  BY CallsStart DEF SpecCalls
<1>2. CallsInv /\ [GatewayStep]_<<accessVars, gatewayVars>> => CallsInv'
  BY CallsInvStep
<1>3. QED
  BY <1>1, <1>2, PTL DEF SpecCalls

\* However often a call is repeated, lost or late, one idempotency key of an
\* agent has one effect (_begin_write, store_response).
THEOREM RetrySafeHolds == SpecCalls => []RetrySafe
<1>1. CallsInv => RetrySafe
  BY DEF CallsInv
<1>2. QED
  BY <1>1, CallsInvariant, PTL

\* What the tool tells the agent is what became of its key and arguments, and
\* an answer that denies an effect is given only where there is none.
THEOREM EnvelopeTruthHolds == SpecCalls => []EnvelopeTruth
<1>1. ASSUME CallsInv PROVE EnvelopeTruth
  <2>1. ASSUME NEW c \in Calls,
               calls[c].told \in {"applied", "pending", "application_failed"}
        PROVE  Became(c, calls[c].told)
    <3>1. Truthful(c) /\ Minted(c)
      BY <1>1 DEF CallsInv
    <3>2. PICK d \in Calls : /\ effect[d] = calls[c].told
                             /\ calls[d].agent = calls[c].agent
                             /\ calls[d].key = calls[c].key
      BY <2>1, <3>1 DEF Truthful, Came
    <3>3. calls[c].key # Null /\ effect[d] # Null
      BY <2>1, <3>1, <3>2, Distinctness DEF Truthful, Kept
    <3>4. ASSUME calls[c].given = Null PROVE calls[d].args = calls[c].args
      <4>1. Stands(calls[c].key, calls[c].agent, calls[c].args)
        BY <3>1, <3>3, <3>4 DEF Minted
      <4>2. calls[d].given \in Supplied \cup {Null} /\ Minted(d)
        BY <1>1 DEF CallsInv, GatewayTypeOK
      <4>3. calls[d].given = Null
        BY <3>2, <3>3, <4>1, <4>2, Distinctness DEF Minted, Stands
      <4>4. Stands(calls[d].key, calls[d].agent, calls[d].args)
        BY <3>2, <3>3, <4>2, <4>3 DEF Minted
      <4>5. QED
        BY <3>2, <4>1, <4>4 DEF Stands
    <3>5. QED
      BY <3>2, <3>4 DEF Became
  <2>2. ASSUME NEW c \in Calls,
               calls[c].told \in {"denied", "auth", "refused", "unknown"}
        PROVE  effect[c] \in {Null, "denied"}
    BY <1>1, <2>2 DEF CallsInv, Truthful
  <2>3. QED
    BY <2>1, <2>2 DEF EnvelopeTruth
<1>2. QED
  BY <1>1, CallsInvariant, PTL

\* A key that is no longer valid is taken for its agent's for no longer than
\* the cache's TTL and the time an answer may be under way.
THEOREM StaleKeyWindowHolds == SpecCalls => []StaleKeyWindow
<1>1. CallsInv => StaleKeyWindow
  BY DEF CallsInv, Clocked, StaleKeyWindow
<1>2. QED
  BY <1>1, CallsInvariant, PTL

\* Nothing is done for an agent later than the wait for the write lock after
\* it was disabled or revoked.
THEOREM RevocationTakesHoldHolds == SpecCalls => RevocationTakesHold
<1> DEFINE Done == \A c \in Calls :
              effect'[c] # effect[c] => down[calls[c].agent] <= BusyTimeout
<1>1. ASSUME CallsInv, [GatewayStep]_<<accessVars, gatewayVars>>
      PROVE  Done
  <2>1. ASSUME NEW c \in Calls, NEW answer \in Kept, Execute(c, answer),
               NEW d \in Calls, effect'[d] # effect[d]
        PROVE  down[calls[d].agent] <= BusyTimeout
    <3>1. d = c /\ jobs[c].at = "checked"
      BY <2>1 DEF CallsInv, GatewayTypeOK, Execute
    <3>2. /\ down[calls[c].agent] <= jobs[c].wait
          /\ jobs[c].wait \in 0..BusyTimeout
          /\ calls[c].agent \in Agents /\ down \in [Agents -> -1..DownCap]
      BY <1>1, <3>1 DEF CallsInv, Clocked, Follows, GatewayTypeOK
    <3>3. QED
      BY <3>1, <3>2, Distinctness
  <2>2. CASE \E c \in Calls, answer \in Kept : Execute(c, answer)
    BY <2>1, <2>2
  <2>3. CASE ~ \E c \in Calls, answer \in Kept : Execute(c, answer)
    <3>1. UNCHANGED effect
      BY <1>1, <2>3 DEF GatewayStep, CallStep, ManageAgent, TickGateway,
         gatewayVars, RestartGateway, ResolveKey, Remember, Send, Reply,
         GiveUp, CheckAgent, Replay, Refuse, Begin
    <3>2. QED
      BY <3>1
  <2>4. QED
    BY <2>2, <2>3
<1>2. CallsInv /\ [GatewayStep]_<<accessVars, gatewayVars>>
        => [Done]_<<accessVars, gatewayVars>>
  BY <1>1
<1> HIDE DEF Done
<1>3. SpecCalls => [][Done]_<<accessVars, gatewayVars>>
  BY <1>2, CallsInvariant, PTL DEF SpecCalls
<1>4. QED
  BY <1>3 DEF RevocationTakesHold, Done
=============================================================================
