--------------------------- MODULE EntranceProofs ---------------------------
(***************************************************************************)
(* Two bounds at the entrance.  What an agent is served in any window, for *)
(* every capacity, cost and length of time; and who may write gave the     *)
(* password, and guesses keep their distance, for any number of concurrent *)
(* logins and hosts, and any delays and lifetimes.  At the end, all that   *)
(* stands at the entrance together.                                        *)
(***************************************************************************)
EXTENDS MCAccess, AgentAccessProofs, GatewayProofs, TLAPS

-----------------------------------------------------------------------------
(***************************************************************************)
(* The rate limit.  The bound by itself is not inductive: a bucket that    *)
(* was counted inside the window has to account for what it served.        *)
(***************************************************************************)

\* A bucket that was counted in the window holds, with what was served, no more
\* than a full bucket, what came until then, and the slack of the charges:
\* reckoned up to the time it carries, which the next refill starts from, and
\* up to now, for a row whose time is ahead.  Without such a count nothing was
\* served.
Slack == (Milli - 1) * charged
Accounted ==
  charged > 0 =>
    /\ bucket # NoBucket
    /\ bucket.tokens + Cost * served <= Capacity + (bucket.at - since) + Slack
    /\ bucket.tokens + Cost * served <= Capacity + (now - since) + Slack

RateInv == RateTypeOK /\ Accounted

-----------------------------------------------------------------------------
LEMMA NoBucketIsNoRow == \A t \in Int, u \in Int :
                           NoBucket # [tokens |-> t, at |-> u]
BY RateLimitAssumption

\* The cut takes less than a millisecond (iso_millis).
LEMMA TruncatedBound ==
  ASSUME NEW time \in Nat
  PROVE  /\ Truncated(time) \in 0..time
         /\ time - Truncated(time) <= Milli - 1
<1>1. Milli \in Nat /\ Milli > 0
  BY RateLimitAssumption
<1>2. time % Milli \in 0..(Milli - 1)
  BY <1>1
<1>3. time % Milli <= time
  BY <1>1
<1>4. QED
  BY <1>1, <1>2, <1>3 DEF Truncated

\* What a bucket holds is within its capacity, and within what it held and the
\* time brought.
LEMMA TokensBound ==
  ASSUME RateTypeOK
  PROVE  /\ Tokens \in 0..Capacity
         /\ bucket # NoBucket =>
              \/ Tokens <= bucket.tokens
              \/ Tokens <= bucket.tokens + (now - bucket.at)
<1>1. Capacity \in Nat /\ now \in Nat
  BY RateLimitAssumption DEF RateTypeOK
<1>2. CASE bucket = NoBucket
  BY <1>1, <1>2 DEF Tokens
<1>3. CASE bucket # NoBucket
  <2>1. bucket.tokens \in 0..Capacity /\ bucket.at \in Nat
    BY <1>3, RateLimitAssumption DEF RateTypeOK, Buckets
  <2>2. QED
    BY <1>1, <1>3, <2>1 DEF Tokens, Elapsed
<1>4. QED
  BY <1>2, <1>3

\* One more of n costs k more.
LEMMA OneMore ==
  ASSUME NEW k \in Nat, NEW n \in Nat
  PROVE  k * n \in Nat /\ k * (n + 1) = k * n + k
OBVIOUS

\* Whatever is counted as spent was there (_consume_in_session).
LEMMA CountKeepsInv ==
  ASSUME RateInv, NEW spent \in {0, 1}, Cost * spent <= Tokens,
         CountCall(Tokens - Cost * spent),
         served' = served + spent, UNCHANGED <<now, since>>
  PROVE  RateInv'
<1> DEFINE left == Tokens - Cost * spent
<1>1. /\ Cost \in Nat \ {0} /\ Capacity \in Nat /\ now \in 0..MaxTime
      /\ since \in 0..now /\ charged \in Nat /\ served \in 0..charged
      /\ MaxTime \in Nat /\ MaxCharges \in Nat
      /\ Milli - 1 \in Nat /\ Milli \in Nat
  BY RateLimitAssumption DEF RateInv, RateTypeOK
<1>2. Tokens \in 0..Capacity
  BY TokensBound DEF RateInv
<1>3. Cost * spent \in Nat
  BY <1>1
<1>4. left \in 0..Capacity
  BY <1>1, <1>2, <1>3
<1>5. PICK read \in Readings :
        bucket' = [tokens |-> left, at |-> Truncated(read)]
  BY DEF CountCall
<1>6. charged < MaxCharges /\ charged' = charged + 1
  BY DEF CountCall
<1> DEFINE at == Truncated(read)
<1>7. at \in 0..(MaxTime + 1) /\ now - (Milli - 1) <= at
  <2>1. read \in Nat /\ now <= read /\ read <= now + 1
    BY <1>1, <1>5 DEF Readings
  <2>2. at \in 0..read /\ read - at <= Milli - 1
    BY <2>1, TruncatedBound
  <2> HIDE DEF at
  <2>3. QED
    BY <1>1, <2>1, <2>2
<1> HIDE DEF at, left
<1>8. bucket' = [tokens |-> left, at |-> at]
  BY <1>5 DEF at, left
<1>9. bucket' # NoBucket /\ bucket' \in Buckets /\ bucket'.at = at
        /\ bucket'.tokens = left
  BY <1>1, <1>4, <1>7, <1>8, NoBucketIsNoRow DEF Buckets
<1>10. RateTypeOK'
  BY <1>1, <1>6, <1>9 DEF RateTypeOK
<1>11. Cost * served \in Nat /\ Cost * served' = Cost * served + Cost * spent
  BY <1>1, OneMore
<1>12. Slack \in Nat /\ Slack' = Slack + (Milli - 1)
  BY <1>1, <1>6, OneMore DEF Slack
\* Before the charge the account stands at the clock.
<1>13. Tokens + Cost * served <= Capacity + (now - since) + Slack
  <2>1. CASE charged > 0
    <3>1. /\ bucket # NoBucket
          /\ bucket.tokens + Cost * served
               <= Capacity + (bucket.at - since) + Slack
          /\ bucket.tokens + Cost * served <= Capacity + (now - since) + Slack
      BY <2>1 DEF RateInv, Accounted
    <3>2. bucket.tokens \in Nat /\ bucket.at \in Nat
      BY <3>1, RateLimitAssumption DEF RateInv, RateTypeOK, Buckets
    <3>3. \/ Tokens <= bucket.tokens
          \/ Tokens <= bucket.tokens + (now - bucket.at)
      BY <3>1, TokensBound DEF RateInv
    <3>4. QED
      BY <1>1, <1>2, <1>11, <1>12, <3>1, <3>2, <3>3
  <2>2. CASE ~ charged > 0
    <3>1. served = 0 /\ Cost * 0 = 0
      BY <1>1, <2>2
    <3>2. QED
      BY <1>1, <1>2, <1>12, <3>1
  <2>3. QED
    BY <2>1, <2>2
<1>14. left + Cost * served' = Tokens + Cost * served
  BY <1>1, <1>2, <1>3, <1>11 DEF left
<1>15. /\ left + Cost * served' <= Capacity + (now - since) + Slack'
       /\ left + Cost * served' <= Capacity + (at - since) + Slack'
  BY <1>1, <1>2, <1>4, <1>7, <1>11, <1>12, <1>13, <1>14
<1>16. Accounted'
  BY <1>9, <1>15 DEF Accounted
<1>17. QED
  BY <1>10, <1>16 DEF RateInv

-----------------------------------------------------------------------------
LEMMA InitRateInv == InitRate => RateInv
BY RateLimitAssumption DEF InitRate, RateInv, RateTypeOK, Accounted, Buckets

LEMMA StepRateInv == RateInv /\ [RateStep]_rateVars => RateInv'
<1> SUFFICES ASSUME RateInv, [RateStep]_rateVars PROVE RateInv'
  OBVIOUS
<1>1. /\ Cost \in Nat \ {0} /\ Capacity \in Nat /\ now \in 0..MaxTime
      /\ since \in 0..now /\ charged \in 0..MaxCharges /\ served \in 0..charged
      /\ MaxTime \in Nat /\ MaxCharges \in Nat /\ Tokens \in 0..Capacity
  BY RateLimitAssumption, TokensBound DEF RateInv, RateTypeOK
<1>2. Cost * 1 = Cost /\ Cost * 0 = 0
  BY <1>1
<1>3. ASSUME Tokens >= Cost, CountCall(Tokens - Cost),
             served' = served + 1, UNCHANGED <<now, since>>
      PROVE  RateInv'
  <2>1. Cost * 1 <= Tokens /\ CountCall(Tokens - Cost * 1)
    BY <1>1, <1>2, <1>3
  <2>2. QED
    BY <1>3, <2>1, CountKeepsInv
<1>4. CASE ChargeRead
  <2>1. CASE Tokens >= Cost
    <3>1. /\ CountCall(Tokens - Cost) /\ served' = served + 1
          /\ UNCHANGED <<now, since>>
      BY <1>1, <1>4, <2>1 DEF ChargeRead
    <3>2. QED
      BY <1>3, <2>1, <3>1
  <2>2. CASE ~ Tokens >= Cost
    <3>1. CountCall(Tokens) /\ served' = served /\ UNCHANGED <<now, since>>
      BY <1>4, <2>2 DEF ChargeRead
    <3>2. Cost * 0 <= Tokens /\ Tokens - Cost * 0 = Tokens /\ served + 0 = served
      BY <1>1, <1>2
    <3>3. CountCall(Tokens - Cost * 0) /\ served' = served + 0
      BY <3>1, <3>2
    <3>4. QED
      BY <3>1, <3>2, <3>3, CountKeepsInv
  <2>3. QED
    BY <2>1, <2>2
<1>5. CASE ChargeWrite
  BY <1>3, <1>5 DEF ChargeWrite
<1>6. CASE Watch
  <2>1. /\ since' = now /\ charged' = 0 /\ served' = 0
        /\ bucket' = bucket /\ now' = now
    BY <1>6 DEF Watch
  <2>2. QED
    BY <1>1, <2>1 DEF RateInv, RateTypeOK, Buckets, Accounted
<1>7. CASE TickRate
  <2>1. /\ now' = now + 1 /\ now' \in 0..MaxTime
        /\ UNCHANGED <<bucket, since, charged, served>>
    BY <1>1, <1>7 DEF TickRate
  <2>2. RateTypeOK'
    BY <1>1, <2>1 DEF RateInv, RateTypeOK, Buckets
  <2>3. Accounted'
    <3>1. SUFFICES ASSUME charged > 0 PROVE Accounted'
      BY <2>1 DEF Accounted
    <3>2. bucket # NoBucket /\ bucket.tokens \in Nat
      BY <3>1, RateLimitAssumption DEF RateInv, RateTypeOK, Accounted, Buckets
    <3>3. Cost * served \in Nat /\ Slack \in Nat /\ Slack' = Slack
      BY <1>1, <2>1, OneMore, RateLimitAssumption DEF Slack
    <3>4. QED
      BY <1>1, <2>1, <3>1, <3>2, <3>3 DEF RateInv, Accounted
  <2>4. QED
    BY <2>2, <2>3 DEF RateInv
<1>8. CASE UNCHANGED rateVars
  BY <1>8 DEF rateVars, RateInv, RateTypeOK, Accounted, Slack
<1>9. QED
  BY <1>4, <1>5, <1>6, <1>7, <1>8 DEF RateStep

LEMMA RateInvImplies == RateInv => RateTypeOK /\ BucketBound
<1> SUFFICES ASSUME RateInv PROVE BucketBound
  BY DEF RateInv
<1>1. /\ Capacity \in Nat /\ now \in Nat /\ since \in 0..now
      /\ charged \in Nat /\ served \in 0..charged
      /\ Cost * served \in Nat /\ Slack \in Nat
  BY RateLimitAssumption, OneMore DEF RateInv, RateTypeOK, Slack
<1>2. CASE charged > 0
  <2>1. bucket # NoBucket /\ bucket.tokens \in Nat
    BY <1>2, RateLimitAssumption DEF RateInv, RateTypeOK, Accounted, Buckets
  <2>2. QED
    BY <1>1, <1>2, <2>1 DEF RateInv, Accounted, BucketBound, Slack
<1>3. CASE ~ charged > 0
  <2>1. served = 0 /\ Cost * 0 = 0
    BY <1>1, <1>3, RateLimitAssumption
  <2>2. QED
    BY <1>1, <2>1 DEF BucketBound, Slack
<1>4. QED
  BY <1>2, <1>3

\* In every window an agent is served no more than a full bucket, what the
\* window brings, and less than a millisecond's refill for each call counted in
\* it: for every capacity, cost and precision of the stored time, whatever
\* reads, writes and rollbacks there are (services/rate_limit.py).
THEOREM RateLimitHolds == SpecRate => [](RateTypeOK /\ BucketBound)
BY InitRateInv, StepRateInv, RateInvImplies, PTL DEF SpecRate

-----------------------------------------------------------------------------
(***************************************************************************)
(* Logins and sessions.                                                    *)
(***************************************************************************)

Login == [at : {"idle", "waiting", "delayed"}, host : Hosts \cup {NoOne},
          left : 0..Never]

\* The delay that was computed is still the one to wait: nobody else counts
\* failures while the lock is held.
DelayStands ==
  \A l \in Logins :
    /\ logins[l].at # "idle" => logins[l].host \in Hosts
    /\ logins[l].at = "delayed" =>
         /\ holder = l
         /\ logins[l].left + ago[logins[l].host]
              >= Delays[failures[logins[l].host]]

LoginInv ==
  /\ SessionsTypeOK
  /\ DelayStands
  /\ \A k \in cookies : k.epoch <= epoch
  /\ WritesByAdmin

-----------------------------------------------------------------------------
LEMMA DelayBounds ==
  /\ Never \in Nat
  /\ \A n \in 0..MaxFailures : Delays[n] \in Nat /\ Delays[n] <= Never
<1>1. MaxFailures \in 0..MaxFailures
  BY SessionsAssumption
<1>2. QED
  BY <1>1, SessionsAssumption DEF Never

LEMMA RemainingWait ==
  ASSUME SessionsTypeOK, NEW h \in Hosts
  PROVE  /\ Remaining(h) \in 0..Never
         /\ Remaining(h) + ago[h] >= Delays[failures[h]]
<1>1. /\ failures[h] \in 0..MaxFailures /\ ago[h] \in 0..Never
  BY DEF SessionsTypeOK
<1>2. /\ Delays[failures[h]] \in Nat /\ Delays[failures[h]] <= Never
      /\ Never \in Nat
  BY <1>1, DelayBounds
<1>3. QED
  BY <1>1, <1>2 DEF Remaining

LEMMA LoginsStart ==
  ASSUME InitLogins PROVE LoginInv
<1>1. /\ Never \in Nat /\ 0 \in 0..MaxFailures /\ 0 \in 0..MaxEpoch
      /\ -1 \in -1..Lifetime
  BY DelayBounds, SessionsAssumption
<1>2. SessionsTypeOK
  BY <1>1 DEF InitLogins, SessionsTypeOK, NoLogin
<1>3. DelayStands
  BY DEF InitLogins, DelayStands, NoLogin
<1>4. QED
  BY <1>2, <1>3 DEF InitLogins, LoginInv, WritesByAdmin

LEMMA StepArrive ==
  ASSUME LoginInv, NEW l \in Logins, NEW h \in Hosts, Arrive(l, h)
  PROVE  LoginInv'
<1>1. /\ logins' = [logins EXCEPT ![l] =
                      [at |-> "waiting", host |-> h, left |-> 0]]
      /\ UNCHANGED <<failures, ago, holder, epoch, cookies, trusted>>
  BY DEF Arrive
<1>2. 0 \in 0..Never
  BY DelayBounds
<1>3. /\ logins' \in [Logins -> Login]
      /\ logins'[l] = [at |-> "waiting", host |-> h, left |-> 0]
      /\ \A m \in Logins \ {l} : logins'[m] = logins[m]
  BY <1>1, <1>2 DEF LoginInv, SessionsTypeOK, Login
<1>4. SessionsTypeOK'
  BY <1>1, <1>3 DEF LoginInv, SessionsTypeOK, Login
<1>5. DelayStands'
  BY <1>1, <1>3 DEF LoginInv, DelayStands
<1>6. QED
  BY <1>1, <1>4, <1>5 DEF LoginInv, WritesByAdmin, MayWrite, Genuine

LEMMA StepTakeLock ==
  ASSUME LoginInv, NEW l \in Logins, TakeLock(l)
  PROVE  LoginInv'
<1>1. /\ logins[l].at = "waiting" /\ holder = NoOne
      /\ holder' = l
      /\ logins' = [logins EXCEPT ![l].at = "delayed",
                                  ![l].left = Remaining(logins[l].host)]
      /\ UNCHANGED <<failures, ago, epoch, cookies, trusted>>
  BY DEF TakeLock
<1>2. logins[l].host \in Hosts /\ logins[l] \in Login
  BY <1>1 DEF LoginInv, DelayStands, SessionsTypeOK, Login
<1>3. /\ Remaining(logins[l].host) \in 0..Never
      /\ Remaining(logins[l].host) + ago[logins[l].host]
           >= Delays[failures[logins[l].host]]
  BY <1>2, RemainingWait DEF LoginInv
<1>4. /\ logins'[l] = [at |-> "delayed", host |-> logins[l].host,
                      left |-> Remaining(logins[l].host)]
      /\ \A m \in Logins \ {l} : logins'[m] = logins[m]
      /\ logins' = [m \in Logins |-> logins'[m]]
  BY <1>1, <1>2 DEF LoginInv, SessionsTypeOK, Login
<1>5. logins' \in [Logins -> Login]
  BY <1>2, <1>3, <1>4 DEF LoginInv, SessionsTypeOK, Login
<1>6. SessionsTypeOK'
  BY <1>1, <1>5 DEF LoginInv, SessionsTypeOK, Login
<1>7. DelayStands'
  <2>1. \A m \in Logins : logins[m].at # "delayed"
    BY <1>1, SessionsAssumption DEF LoginInv, DelayStands
  <2>2. ASSUME NEW m \in Logins
        PROVE  /\ logins'[m].at # "idle" => logins'[m].host \in Hosts
               /\ logins'[m].at = "delayed" =>
                    /\ holder' = m
                    /\ logins'[m].left + ago[logins'[m].host]
                         >= Delays[failures[logins'[m].host]]
    <3>1. CASE m = l
      <4>1. /\ logins'[m].host = logins[l].host
            /\ logins'[m].left = Remaining(logins[l].host)
        BY <1>4, <3>1
      <4>2. QED
        BY <1>1, <1>2, <1>3, <3>1, <4>1
    <3>2. CASE m # l
      BY <1>4, <2>1, <3>2 DEF LoginInv, DelayStands
    <3>3. QED
      BY <3>1, <3>2
  <2>3. QED
    BY <1>1, <2>2 DEF DelayStands
<1>8. QED
  BY <1>1, <1>6, <1>7 DEF LoginInv, WritesByAdmin, MayWrite, Genuine

LEMMA StepMissLock ==
  ASSUME LoginInv, NEW l \in Logins, MissLock(l)
  PROVE  LoginInv'
<1>1. /\ logins' = [logins EXCEPT ![l] = NoLogin]
      /\ UNCHANGED <<failures, ago, holder, epoch, cookies, trusted>>
  BY DEF MissLock
<1>2. NoLogin \in Login /\ NoLogin.at = "idle"
  BY DelayBounds DEF NoLogin, Login
<1>3. SessionsTypeOK'
  BY <1>1, <1>2 DEF LoginInv, SessionsTypeOK, Login
<1>4. /\ logins'[l] = NoLogin
      /\ \A m \in Logins \ {l} : logins'[m] = logins[m]
  BY <1>1 DEF LoginInv, SessionsTypeOK
<1>5. DelayStands'
  BY <1>1, <1>2, <1>4 DEF LoginInv, DelayStands
<1>6. QED
  BY <1>1, <1>3, <1>5 DEF LoginInv, WritesByAdmin, MayWrite, Genuine

\* What an accepted login signs for no longer than it is trusted, and no other
\* cookie outlives it.
LEMMA StepVerify ==
  ASSUME LoginInv, NEW l \in Logins, Verify(l)
  PROVE  LoginInv'
<1> DEFINE h == logins[l].host
<1>1. /\ logins[l].at = "delayed"
      /\ logins' = [logins EXCEPT ![l] = NoLogin]
      /\ holder' = NoOne /\ epoch' = epoch
  BY DEF Verify
<1>2. h \in Hosts /\ holder = l /\ Never \in Nat
  BY <1>1, DelayBounds DEF LoginInv, DelayStands
<1>3. NoLogin \in Login /\ NoLogin.at = "idle"
  BY DelayBounds DEF NoLogin, Login
<1>4. /\ logins' \in [Logins -> Login]
      /\ logins'[l] = NoLogin
      /\ \A m \in Logins \ {l} : logins'[m] = logins[m]
  BY <1>1, <1>3 DEF LoginInv, SessionsTypeOK, Login
<1>5. DelayStands'
  <2>1. \A m \in Logins \ {l} : logins[m].at # "delayed"
    BY <1>2 DEF LoginInv, DelayStands
  <2>2. QED
    BY <1>3, <1>4, <2>1 DEF LoginInv, DelayStands
<1>6. CASE /\ failures' = [failures EXCEPT ![h] =
                             IF @ = MaxFailures THEN @ ELSE @ + 1]
           /\ ago' = [ago EXCEPT ![h] = 0]
           /\ UNCHANGED <<cookies, trusted>>
  <2>1. failures' \in [Hosts -> 0..MaxFailures] /\ ago' \in [Hosts -> 0..Never]
    BY <1>2, <1>6, SessionsAssumption DEF LoginInv, SessionsTypeOK
  <2>2. SessionsTypeOK'
    BY <1>1, <1>4, <1>6, <2>1 DEF LoginInv, SessionsTypeOK, Login
  <2>3. QED
    BY <1>1, <1>5, <1>6, <2>2 DEF LoginInv, WritesByAdmin, MayWrite, Genuine
<1>7. CASE /\ failures' = [failures EXCEPT ![h] = 0]
           /\ ago' = [ago EXCEPT ![h] = Never]
           /\ Sign(Lifetime, "admin")
           /\ trusted' = Lifetime
  <2> DEFINE new == [epoch |-> epoch, left |-> Lifetime,
                     audience |-> "admin"]
  <2>1. cookies' = cookies \cup {new}
    BY <1>7 DEF Sign
  <2>2. failures' \in [Hosts -> 0..MaxFailures] /\ ago' \in [Hosts -> 0..Never]
    BY <1>2, <1>7, SessionsAssumption DEF LoginInv, SessionsTypeOK
  <2>3. new \in Cookie /\ trusted' \in -1..Lifetime
    BY <1>7, SessionsAssumption DEF LoginInv, SessionsTypeOK, Cookie
  <2>4. SessionsTypeOK'
    BY <1>1, <1>4, <2>1, <2>2, <2>3 DEF LoginInv, SessionsTypeOK, Login
  <2>5. \A k \in cookies' : k.epoch <= epoch'
    BY <1>1, <2>1, SessionsAssumption DEF LoginInv, SessionsTypeOK
  <2>6. ASSUME NEW k \in cookies', MayWrite(k)'
        PROVE  trusted' >= k.left
    <3>1. CASE k = new
      BY <1>7, <3>1, SessionsAssumption
    <3>2. CASE k \in cookies
      <4>1. MayWrite(k)
        BY <1>1, <2>6 DEF MayWrite, Genuine
      <4>2. trusted >= k.left /\ k.left \in Int /\ trusted \in -1..Lifetime
        BY <3>2, <4>1 DEF LoginInv, WritesByAdmin, SessionsTypeOK, Cookie
      <4>3. QED
        BY <1>7, <4>2, SessionsAssumption
    <3>3. QED
      BY <2>1, <3>1, <3>2
  <2>7. QED
    BY <1>5, <2>4, <2>5, <2>6 DEF LoginInv, WritesByAdmin
<1>8. QED
  BY <1>6, <1>7 DEF Verify

LEMMA StepScreenshot ==
  ASSUME LoginInv, Screenshot
  PROVE  LoginInv'
<1> DEFINE new == [epoch |-> epoch, left |-> ShotTTL,
                   audience |-> "screenshot"]
<1>1. /\ cookies' = cookies \cup {new}
      /\ UNCHANGED <<failures, ago, holder, logins, epoch, trusted>>
  BY DEF Screenshot, Sign
<1>2. new \in Cookie
  BY SessionsAssumption DEF LoginInv, SessionsTypeOK, Cookie
<1>3. SessionsTypeOK'
  BY <1>1, <1>2 DEF LoginInv, SessionsTypeOK
<1>4. DelayStands'
  BY <1>1 DEF LoginInv, DelayStands
<1>5. \A k \in cookies' : k.epoch <= epoch'
  BY <1>1, SessionsAssumption DEF LoginInv, SessionsTypeOK
<1>6. WritesByAdmin'
  BY <1>1 DEF LoginInv, WritesByAdmin, MayWrite, Genuine
<1>7. QED
  BY <1>3, <1>4, <1>5, <1>6 DEF LoginInv

\* No cookie is of the epoch that begins.
LEMMA StepReplaceSecrets ==
  ASSUME LoginInv, ReplaceSecrets
  PROVE  LoginInv'
<1>1. /\ epoch < MaxEpoch /\ epoch' = epoch + 1 /\ trusted' = -1
      /\ UNCHANGED <<failures, ago, holder, logins, cookies>>
  BY DEF ReplaceSecrets
<1>2. epoch' \in 0..MaxEpoch /\ trusted' \in -1..Lifetime
  BY <1>1, SessionsAssumption DEF LoginInv, SessionsTypeOK
<1>3. SessionsTypeOK'
  BY <1>1, <1>2 DEF LoginInv, SessionsTypeOK
<1>4. DelayStands'
  BY <1>1 DEF LoginInv, DelayStands
<1>5. \A k \in cookies' : k.epoch <= epoch /\ k.epoch \in Int /\ epoch \in Int
  BY <1>1 DEF LoginInv, SessionsTypeOK, Cookie
<1>6. \A k \in cookies' : k.epoch <= epoch' /\ k.epoch # epoch'
  BY <1>1, <1>5
<1>7. WritesByAdmin'
  BY <1>6 DEF WritesByAdmin, MayWrite, Genuine
<1>8. QED
  BY <1>3, <1>4, <1>6, <1>7 DEF LoginInv

LEMMA StepRestartLogins ==
  ASSUME LoginInv, RestartLogins
  PROVE  LoginInv'
<1>1. /\ failures' = [h \in Hosts |-> 0] /\ ago' = [h \in Hosts |-> Never]
      /\ holder' = NoOne /\ logins' = [l \in Logins |-> NoLogin]
      /\ UNCHANGED <<epoch, cookies, trusted>>
  BY DEF RestartLogins
<1>2. Never \in Nat /\ 0 \in 0..MaxFailures
  BY DelayBounds, SessionsAssumption
<1>3. SessionsTypeOK'
  BY <1>1, <1>2 DEF LoginInv, SessionsTypeOK, NoLogin
<1>4. DelayStands'
  BY <1>1 DEF DelayStands, NoLogin
<1>5. QED
  BY <1>1, <1>3, <1>4 DEF LoginInv, WritesByAdmin, MayWrite, Genuine

\* A tick takes as much from the wait as it adds to the distance, and as much
\* from the cookies as from the trust.
LEMMA StepTickLogins ==
  ASSUME LoginInv, TickLogins
  PROVE  LoginInv'
<1>1. /\ ago' = [h \in Hosts |-> IF ago[h] < Never THEN ago[h] + 1 ELSE Never]
      /\ logins' = [l \in Logins |-> [logins[l] EXCEPT !.left = Less(@, 0)]]
      /\ cookies' = {[k EXCEPT !.left = Less(@, -1)] : k \in cookies}
      /\ trusted' = Less(trusted, -1)
      /\ UNCHANGED <<failures, holder, epoch>>
  BY DEF TickLogins
<1>2. Never \in Nat /\ Lifetime \in Nat /\ ShotTTL \in Nat
  BY DelayBounds, SessionsAssumption
<1>3. \A h \in Hosts : /\ ago[h] \in 0..Never /\ ago'[h] \in 0..Never
                       /\ ago'[h] = IF ago[h] < Never THEN ago[h] + 1 ELSE Never
  BY <1>1, <1>2 DEF LoginInv, SessionsTypeOK
<1>4. ASSUME NEW l \in Logins
      PROVE  /\ logins[l].left \in 0..Never
             /\ logins'[l].at = logins[l].at
             /\ logins'[l].host = logins[l].host
             /\ logins'[l].left = IF logins[l].left > 0
                                  THEN logins[l].left - 1 ELSE 0
             /\ logins'[l] \in Login
  <2>1. logins[l] \in Login
    BY DEF LoginInv, SessionsTypeOK, Login
  <2>2. logins'[l] = [logins[l] EXCEPT !.left = Less(@, 0)]
    BY <1>1
  <2>3. logins[l].left \in 0..Never
    BY <2>1 DEF Login
  <2>4. logins'[l] = [at |-> logins[l].at, host |-> logins[l].host,
                     left |-> Less(logins[l].left, 0)]
    BY <2>1, <2>2 DEF Login
  <2>5. Less(logins[l].left, 0) \in 0..Never
    BY <1>2, <2>3 DEF Less
  <2>6. QED
    BY <2>1, <2>3, <2>4, <2>5 DEF Login, Less
<1>5. logins' \in [Logins -> Login]
  BY <1>1, <1>4
<1>6. ASSUME NEW k \in cookies'
      PROVE  \E old \in cookies :
               /\ old \in Cookie
               /\ k = [epoch |-> old.epoch, left |-> Less(old.left, -1),
                       audience |-> old.audience]
               /\ k \in Cookie
  <2>1. PICK old \in cookies : k = [old EXCEPT !.left = Less(@, -1)]
    BY <1>1, <1>6
  <2>2. old \in Cookie
    BY DEF LoginInv, SessionsTypeOK
  <2>3. k = [epoch |-> old.epoch, left |-> Less(old.left, -1),
             audience |-> old.audience]
    BY <2>1, <2>2 DEF Cookie
  <2>4. Less(old.left, -1) \in -1..(Lifetime + ShotTTL)
    BY <1>2, <2>2 DEF Less, Cookie
  <2>5. k \in Cookie
    BY <2>2, <2>3, <2>4 DEF Cookie
  <2>6. QED
    BY <2>2, <2>3, <2>5
<1>7. trusted \in -1..Lifetime /\ trusted' \in -1..Lifetime
  BY <1>1, <1>2 DEF LoginInv, SessionsTypeOK, Less
<1>8. SessionsTypeOK'
  BY <1>1, <1>3, <1>5, <1>6, <1>7 DEF LoginInv, SessionsTypeOK, Login
<1>9. DelayStands'
  <2>1. ASSUME NEW l \in Logins
        PROVE  /\ logins'[l].at # "idle" => logins'[l].host \in Hosts
               /\ logins'[l].at = "delayed" =>
                    /\ holder' = l
                    /\ logins'[l].left + ago'[logins'[l].host]
                         >= Delays[failures'[logins'[l].host]]
    <3>1. /\ logins'[l].at = logins[l].at /\ logins'[l].host = logins[l].host
          /\ logins[l].left \in 0..Never
          /\ logins'[l].left = IF logins[l].left > 0
                               THEN logins[l].left - 1 ELSE 0
      BY <1>4
    <3>2. /\ logins[l].at # "idle" => logins[l].host \in Hosts
          /\ logins[l].at = "delayed" => holder = l
      BY DEF LoginInv, DelayStands
    <3> SUFFICES ASSUME logins[l].at = "delayed"
                 PROVE  logins'[l].left + ago'[logins[l].host]
                          >= Delays[failures[logins[l].host]]
      <4>1. failures' = failures /\ holder' = holder
        BY <1>1
      <4>2. QED
        BY <3>1, <3>2, <4>1
    <3>3. /\ logins[l].host \in Hosts
          /\ logins[l].left + ago[logins[l].host]
               >= Delays[failures[logins[l].host]]
      BY DEF LoginInv, DelayStands
    <3>4. /\ Delays[failures[logins[l].host]] \in Nat
          /\ Delays[failures[logins[l].host]] <= Never
      BY <3>3, DelayBounds DEF LoginInv, SessionsTypeOK
    <3>5. /\ ago[logins[l].host] \in 0..Never
          /\ ago'[logins[l].host] = IF ago[logins[l].host] < Never
                                    THEN ago[logins[l].host] + 1 ELSE Never
      BY <1>3, <3>3
    <3>6. ASSUME NEW before \in 0..Never, NEW wait \in 0..Never,
                 NEW after, after = IF before < Never THEN before + 1 ELSE Never,
                 NEW less, less = IF wait > 0 THEN wait - 1 ELSE 0,
                 NEW delay \in Nat, delay <= Never, wait + before >= delay
          PROVE  less + after >= delay
      BY <1>2, <3>6
    <3>7. QED
      BY <3>1, <3>3, <3>4, <3>5, <3>6
  <2>2. QED
    BY <2>1 DEF DelayStands
<1>10. \A k \in cookies' : k.epoch <= epoch'
  BY <1>1, <1>6 DEF LoginInv
<1>11. WritesByAdmin'
  <2>1. ASSUME NEW k \in cookies', MayWrite(k)'
        PROVE  trusted' >= k.left
    <3>1. PICK old \in cookies :
            /\ old \in Cookie
            /\ k = [epoch |-> old.epoch, left |-> Less(old.left, -1),
                    audience |-> old.audience]
      BY <1>6
    <3>2. /\ k.epoch = old.epoch /\ k.audience = old.audience
          /\ k.left = Less(old.left, -1)
      BY <3>1
    <3>3. old.left \in Int /\ k.left >= 0
      BY <2>1, <3>1 DEF MayWrite, Genuine, Cookie
    <3>4. k.left = old.left - 1 /\ old.left >= 1
      BY <3>2, <3>3 DEF Less
    <3>5. MayWrite(old)
      BY <1>1, <2>1, <3>2, <3>3, <3>4 DEF MayWrite, Genuine
    <3>6. trusted >= old.left
      BY <3>5 DEF LoginInv, WritesByAdmin
    <3>7. QED
      BY <1>1, <1>7, <3>3, <3>4, <3>6 DEF Less
  <2>2. QED
    BY <2>1 DEF WritesByAdmin
<1>12. QED
  BY <1>8, <1>9, <1>10, <1>11 DEF LoginInv

LEMMA LoginsHold ==
  ASSUME LoginInv, [LoginStep]_loginVars
  PROVE  LoginInv'
<1>1. CASE UNCHANGED loginVars
  BY <1>1 DEF loginVars, LoginInv, SessionsTypeOK, DelayStands, WritesByAdmin,
              MayWrite, Genuine
<1>2. CASE LoginStep
  BY <1>2, StepArrive, StepTakeLock, StepMissLock, StepVerify, StepScreenshot,
     StepReplaceSecrets, StepRestartLogins, StepTickLogins DEF LoginStep
<1>3. QED
  BY <1>1, <1>2

\* Only a failed password puts a host's last failure at zero ticks, and only
\* after the delay.
LEMMA LoginsSpaced ==
  ASSUME LoginInv, [LoginStep]_loginVars, NEW h \in Hosts,
         failures'[h] # 0, ago'[h] = 0, ago[h] # 0
  PROVE  ago[h] >= Delays[failures[h]]
<1>1. ago \in [Hosts -> 0..Never] /\ failures \in [Hosts -> 0..MaxFailures]
  BY DEF LoginInv, SessionsTypeOK
<1>2. Never \in Nat
  BY DelayBounds
<1>3. ASSUME NEW l \in Logins, Verify(l) PROVE ago[h] >= Delays[failures[h]]
  <2>1. logins[l].host = h
    BY <1>1, <1>3 DEF Verify
  <2>2. /\ logins[l].at = "delayed" /\ logins[l].left = 0
    BY <1>3 DEF Verify
  <2>3. 0 + ago[h] >= Delays[failures[h]]
    BY <2>1, <2>2 DEF LoginInv, DelayStands
  <2>4. QED
    BY <1>1, <2>3
<1>4. ~ TickLogins
  <2>1. ASSUME TickLogins PROVE FALSE
    <3>1. ago'[h] = IF ago[h] < Never THEN ago[h] + 1 ELSE Never
      BY <2>1 DEF TickLogins
    <3>2. QED
      BY <1>1, <1>2, <3>1
  <2>2. QED
    BY <2>1
<1>5. ~ RestartLogins
  BY DEF RestartLogins
<1>6. ago' # ago
  BY <1>1
<1>7. PICK l \in Logins : Verify(l)
  BY <1>4, <1>5, <1>6
     DEF LoginStep, loginVars, Screenshot, ReplaceSecrets, TakeLock, MissLock,
         Arrive
<1>8. QED
  BY <1>3, <1>7

-----------------------------------------------------------------------------
(***************************************************************************)
(* A cookie that may write is never good for longer than the trust that    *)
(* the password in force earned, whoever holds which cookie and whatever   *)
(* restarts, screenshots and `cli init`s do.                               *)
(***************************************************************************)
THEOREM OnlyAdminWrites == SpecLogins => [](SessionsTypeOK /\ WritesByAdmin)
<1>1. InitLogins => LoginInv
  BY LoginsStart
<1>2. LoginInv /\ [LoginStep]_loginVars => LoginInv'
  BY LoginsHold
<1>3. LoginInv => SessionsTypeOK /\ WritesByAdmin
  BY DEF LoginInv
<1>4. QED
  BY <1>1, <1>2, <1>3, PTL DEF SpecLogins

(***************************************************************************)
(* However many logins run at once, two failed guesses of one host are as  *)
(* far apart as the delay for the failures counted before the second.      *)
(***************************************************************************)
THEOREM GuessesKeepTheirDistance == SpecLogins => AttemptsSpaced
<1>1. InitLogins => LoginInv
  BY LoginsStart
<1>2. LoginInv /\ [LoginStep]_loginVars => LoginInv'
  BY LoginsHold
<1>3. LoginInv /\ [LoginStep]_loginVars =>
        [\A h \in Hosts :
           (failures'[h] # 0 /\ ago'[h] = 0 /\ ago[h] # 0)
             => ago[h] >= Delays[failures[h]]]_loginVars
  BY LoginsSpaced
<1>4. QED
  BY <1>1, <1>2, <1>3, PTL DEF SpecLogins, AttemptsSpaced

-----------------------------------------------------------------------------
(***************************************************************************)
(* The scenes of MCAccess: what the others do is not in a call's sight,    *)
(* nor a call in theirs, and so each keeps the invariant of its component. *)
(* The calls' invariant speaks of agents, who come and go in the enrolment.*)
(***************************************************************************)
EntranceInv ==
  /\ AccessInv /\ GatewayTypeOK /\ RateInv /\ LoginInv
  /\ scene = "call" => CallsInv

\* The agent that the calls are made for is employed, and nobody else is.
LEMMA Employed ==
  ASSUME Employ
  PROVE  AccessInv
<1>1. a1 \in Agents /\ k1 \in Keys /\ plain \in Names
  BY MCAccessAssumption
<1>2. /\ "none" \in RegStatuses /\ "none" \in AskStatuses
      /\ {"none", "active"} \subseteq AgentStatuses /\ "none" \notin Live
  BY DEF RegStatuses, AskStatuses, AgentStatuses, Live
<1>3. regs \in RegTable /\ asks \in AskTable
  BY <1>2, Ranges DEF Employ, RegTable, AskTable, NoReg
<1>4. \A r \in Regs : regs[r].status = "none" /\ asks[r].status = "none"
  BY DEF Employ, NoReg
<1>5. Registers(regs, asks)
  BY <1>2, <1>3, <1>4 DEF Registers, Distinct, Agree
<1>6. Handing
  BY <1>1 DEF Employ, Handing
<1>7. Staff
  <2>1. \A a \in Agents :
          agents[a] = IF a = a1
                      THEN [status |-> "active", name |-> plain, key |-> k1]
                      ELSE Absent
    BY DEF Employ
  <2>2. \A a \in Agents \ {a1} : ~ Exists(a)
    BY <2>1 DEF Exists, Absent
  <2>3. agents \in [Agents -> [status : AgentStatuses,
                              name : Names \cup {Null},
                              key : Keys \cup {Null}]]
    BY <1>1, <1>2 DEF Employ, Absent
  <2>4. QED
    BY <2>2, <2>3 DEF Staff
<1>8. QED
  BY <1>5, <1>6, <1>7 DEF AccessInv

\* Each of the scenes begins in order.
LEMMA InitEntrance == Init => EntranceInv
<1> SUFFICES ASSUME Init PROVE EntranceInv
  OBVIOUS
<1>1. AccessInv
  BY Employed, EnrolStarts DEF Init
<1>2. CallsInv /\ RateInv /\ LoginInv
  BY CallsStart, InitRateInv, LoginsStart DEF Init
<1>3. QED
  BY <1>1, <1>2 DEF EntranceInv, CallsInv

\* A step of one scene keeps it in order and leaves the others alone.
LEMMA NextEntrance == EntranceInv /\ [Next]_vars => EntranceInv'
<1> SUFFICES ASSUME EntranceInv, [Next]_vars PROVE EntranceInv'
  OBVIOUS
<1>1. AccessInv /\ GatewayTypeOK /\ RateInv /\ LoginInv
  BY DEF EntranceInv
<1>2. UNCHANGED scene
  BY DEF Next, vars
<1>3. UNCHANGED gatewayVars => GatewayTypeOK'
  BY <1>1 DEF gatewayVars, GatewayTypeOK
<1>4. [RateStep]_rateVars => RateInv'
  BY <1>1, StepRateInv
<1>5. [LoginStep]_loginVars => LoginInv'
  BY <1>1, LoginsHold
<1>6. [EnrolStep \/ HandleAgent \/ TickAccess]_accessVars => AccessInv'
  BY <1>1, EnrolHolds
<1>7. CASE /\ scene = "enrol" /\ (EnrolStep \/ TickAccess)
           /\ UNCHANGED <<gatewayVars, rateVars, loginVars>>
  BY <1>2, <1>3, <1>4, <1>5, <1>6, <1>7 DEF EntranceInv
<1>8. CASE /\ scene = "call" /\ GatewayStep
           /\ UNCHANGED <<rateVars, loginVars>>
  <2>1. CallsInv'
    BY <1>8, CallsInvStep DEF EntranceInv
  <2>2. HandleAgent \/ UNCHANGED accessVars
    BY <1>8 DEF GatewayStep, CallStep, ManageAgent, accessVars
  <2>3. QED
    BY <1>2, <1>4, <1>5, <1>6, <1>8, <2>1, <2>2 DEF EntranceInv, CallsInv
<1>9. CASE /\ scene = "rate" /\ RateStep
           /\ UNCHANGED <<accessVars, gatewayVars, loginVars>>
  BY <1>2, <1>3, <1>4, <1>5, <1>6, <1>9 DEF EntranceInv
<1>10. CASE /\ scene = "login" /\ LoginStep
            /\ UNCHANGED <<accessVars, gatewayVars, rateVars>>
  BY <1>2, <1>3, <1>4, <1>5, <1>6, <1>10 DEF EntranceInv
<1>11. CASE UNCHANGED vars
  <2>1. /\ UNCHANGED <<accessVars, gatewayVars>>
        /\ UNCHANGED <<gatewayVars, rateVars, loginVars>>
    BY <1>11 DEF vars
  <2>2. scene = "call" => CallsInv'
    BY <2>1, CallsInvStep DEF EntranceInv
  <2>3. QED
    BY <1>2, <1>3, <1>4, <1>5, <1>6, <2>1, <2>2 DEF EntranceInv
<1>12. QED
  BY <1>7, <1>8, <1>9, <1>10, <1>11 DEF Next

\* Registrations, agents, keys, calls, buckets, logins and cookies keep their
\* types, and the deadlines, waits and counters in them their bounds, in each
\* of the scenes (api/agents.py, mcp/app/auth.py, rate_limit.py, throttle.py).
THEOREM EntranceTyped == Spec => []TypeOK
<1>1. EntranceInv => TypeOK
  BY InvImplies DEF EntranceInv, RateInv, LoginInv, TypeOK
<1>2. QED
  BY <1>1, InitEntrance, NextEntrance, PTL DEF Spec
=============================================================================
