----------------------------- MODULE RateLimit ------------------------------
(***************************************************************************)
(* The token bucket of services/rate_limit.py, for one agent and one class *)
(* of calls.  A read charges it in a transaction of its own; a write       *)
(* charges it in the transaction of its handler, and a handler that raises *)
(* takes the charge back.                                                  *)
(*                                                                         *)
(* A tick brings one grain, and a call costs Cost grains: the code keeps   *)
(* fractions of a token.  The clock does not go back.  The code refills up *)
(* to one reading of it and stores another, cut to the millisecond: the    *)
(* part of a millisecond that was cut off is credited again by the next    *)
(* refill.                                                                 *)
(***************************************************************************)
EXTENDS Integers

CONSTANTS Capacity, Cost, NoBucket,
          Milli,      \* ticks of a stored millisecond
          MaxTime,    \* bound: the clock
          MaxCharges  \* bound: the charges of a window

ASSUME RateLimitAssumption ==
  /\ Cost \in Nat \ {0} /\ Capacity \in Nat /\ Capacity >= Cost
  /\ Milli \in Nat \ {0} /\ MaxTime \in Nat /\ MaxCharges \in Nat
  /\ NoBucket \notin [tokens : Int, at : Int]

VARIABLES
  bucket,   \* the row of agent_rate_limits: grains, and the time stored
  now,      \* the clock
  since,    \* history: the beginning of some window
  charged,  \* history: the rows written since then, for calls served or not
  served    \* history: the calls served since then, as far as they were charged

rateVars == <<bucket, now, since, charged, served>>

Buckets == {NoBucket} \cup [tokens : 0..Capacity, at : 0..(MaxTime + 1)]

\* iso_millis
Truncated(time) == time - (time % Milli)

\* What a second reading of the clock in the handler can show (utcnow_iso).
Readings == {now, now + 1}

\* What time brought since the row was written, none if the row is ahead.
Elapsed == IF now > bucket.at THEN now - bucket.at ELSE 0

\* _refill; a bucket without a row is full.
Tokens ==
  IF bucket = NoBucket \/ bucket.tokens + Elapsed > Capacity THEN Capacity
  ELSE bucket.tokens + Elapsed

\* Mutant of CountCall: an UPDATE that leaves last_refill as it was.
CountUndated(tokens) ==
  /\ charged < MaxCharges /\ charged' = charged + 1
  /\ \E read \in Readings :
       bucket' = [tokens |-> tokens,
                  at |-> IF bucket = NoBucket THEN Truncated(read)
                         ELSE bucket.at]

\* What _consume_in_session writes, whether it allows the call or not.
CountCall(tokens) ==
  /\ charged < MaxCharges /\ charged' = charged + 1
  /\ \E read \in Readings :
       bucket' = [tokens |-> tokens, at |-> Truncated(read)]

\* Mutant of ChargeRead: the token is taken before it is looked for.
ChargeReadFirst ==
  /\ CountCall(Tokens - Cost)
  /\ served' = IF Tokens >= Cost THEN served + 1 ELSE served
  /\ UNCHANGED <<now, since>>

\* consume without a session: committed at once.
ChargeRead ==
  /\ \/ Tokens >= Cost /\ CountCall(Tokens - Cost) /\ served' = served + 1
     \/ Tokens < Cost /\ CountCall(Tokens) /\ UNCHANGED served
  /\ UNCHANGED <<now, since>>

\* consume in the handler's session, and the handler commits.  A refusal
\* raises, and a handler that raises changes nothing here.
ChargeWrite ==
  /\ Tokens >= Cost /\ CountCall(Tokens - Cost) /\ served' = served + 1
  /\ UNCHANGED <<now, since>>

\* A window begins.
Watch ==
  /\ since < now
  /\ since' = now /\ charged' = 0 /\ served' = 0
  /\ UNCHANGED <<bucket, now>>

TickRate ==
  /\ now < MaxTime
  /\ now' = now + 1
  /\ UNCHANGED <<bucket, since, charged, served>>

InitRate ==
  bucket = NoBucket /\ now = 0 /\ since = 0 /\ charged = 0 /\ served = 0

RateStep == ChargeRead \/ ChargeWrite \/ Watch \/ TickRate

SpecRate == InitRate /\ [][RateStep]_rateVars

-----------------------------------------------------------------------------
RateTypeOK ==
  /\ bucket \in Buckets
  /\ now \in 0..MaxTime /\ since \in 0..now
  /\ charged \in 0..MaxCharges /\ served \in 0..charged

\* In no window is more served than a full bucket, what the window brings, and
\* less than a millisecond's refill for each call that was counted in it,
\* served or refused: no run of calls gains more than its cut-off parts
\* (_consume_in_session, _refill, utcnow_iso).
BucketBound ==
  Cost * served <= Capacity + (now - since) + (Milli - 1) * charged
=============================================================================
