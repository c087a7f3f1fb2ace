------------------------------ MODULE Sessions ------------------------------
(***************************************************************************)
(* The administrator's login and sessions: the delay after failed logins   *)
(* (auth/throttle.py), the signed cookies (auth/cookies.py, auth/deps.py), *)
(* the read-only cookie of a screenshot (api/internal.py), and the secrets *)
(* and password that `cli init` replaces (cli.py).                         *)
(*                                                                         *)
(* A login holds the write lock from before its delay to its end, because  *)
(* get_session begins before the handler does.  Cookies are signed and     *)
(* nowhere kept: a cookie is a record that anyone who has it may present.  *)
(***************************************************************************)
EXTENDS Integers

CONSTANTS
  Logins, Hosts, NoOne,
  Delays,            \* _delay_for, in ticks, constant from MaxFailures on
  MaxFailures,
  Lifetime, ShotTTL, \* session_lifetime_seconds, screenshot_session_ttl_seconds
  MaxEpoch           \* bound: the runs of `cli init`

ASSUME SessionsAssumption ==
  /\ NoOne \notin Logins \cup Hosts /\ MaxFailures \in Nat
  /\ Delays \in [0..MaxFailures -> Nat]
  /\ \A m, n \in 0..MaxFailures : m <= n => Delays[m] <= Delays[n]
  /\ Lifetime \in Nat /\ ShotTTL \in Nat /\ MaxEpoch \in Nat

VARIABLES
  failures,  \* throttle._states: the failures of each host ...
  ago,       \* ... and the ticks since the last, as far as they matter
  holder,    \* the login that holds the write lock, or NoOne
  logins,    \* the logins: stage, host, ticks still to wait
  epoch,     \* how often the secrets and the password were replaced
  cookies,   \* the cookies that were signed: epoch, ticks left, audience
  trusted    \* history: the lifetime left to who last gave the password in
             \* force, -1 if nobody did

loginVars == <<failures, ago, holder, logins, epoch, cookies, trusted>>

Never == Delays[MaxFailures]
NoLogin == [at |-> "idle", host |-> NoOne, left |-> 0]
Cookie == [epoch : 0..MaxEpoch, left : -1..(Lifetime + ShotTTL),
           audience : {"admin", "screenshot"}]

\* await_delay, once the lock is held.
Remaining(h) ==
  LET delay == Delays[failures[h]]
  IN  IF ago[h] >= delay THEN 0 ELSE delay - ago[h]

Arrive(l, h) ==
  /\ logins[l].at = "idle"
  /\ logins' = [logins EXCEPT ![l] =
                  [at |-> "waiting", host |-> h, left |-> 0]]
  /\ UNCHANGED <<failures, ago, holder, epoch, cookies, trusted>>

\* Mutant of TakeLock: the lock is taken when the delay is over.
DelayFirst(l) ==
  /\ logins[l].at = "waiting"
  /\ holder' = l
  /\ logins' = [logins EXCEPT ![l].at = "delayed",
                              ![l].left = Remaining(logins[l].host)]
  /\ UNCHANGED <<failures, ago, epoch, cookies, trusted>>

\* get_session, then await_delay.
TakeLock(l) ==
  /\ logins[l].at = "waiting" /\ holder = NoOne
  /\ holder' = l
  /\ logins' = [logins EXCEPT ![l].at = "delayed",
                              ![l].left = Remaining(logins[l].host)]
  /\ UNCHANGED <<failures, ago, epoch, cookies, trusted>>

\* busy_timeout passes; the handler does not run.
MissLock(l) ==
  /\ logins[l].at = "waiting" /\ holder # NoOne
  /\ logins' = [logins EXCEPT ![l] = NoLogin]
  /\ UNCHANGED <<failures, ago, holder, epoch, cookies, trusted>>

Sign(left, audience) ==
  cookies' = cookies \cup {[epoch |-> epoch, left |-> left,
                            audience |-> audience]}

\* The rest of login, when the delay is over.
Verify(l) ==
  LET h == logins[l].host
  IN  /\ logins[l].at = "delayed" /\ logins[l].left = 0
      /\ \/ /\ failures' = [failures EXCEPT ![h] =
                              IF @ = MaxFailures THEN @ ELSE @ + 1]
            /\ ago' = [ago EXCEPT ![h] = 0]
            /\ UNCHANGED <<cookies, trusted>>
         \/ /\ failures' = [failures EXCEPT ![h] = 0]
            /\ ago' = [ago EXCEPT ![h] = Never]
            /\ Sign(Lifetime, "admin")
            /\ trusted' = Lifetime
      /\ holder' = NoOne
      /\ logins' = [logins EXCEPT ![l] = NoLogin]
      /\ UNCHANGED epoch

\* screenshot_page signs a cookie of its own.
Screenshot ==
  /\ Sign(ShotTTL, "screenshot")
  /\ UNCHANGED <<failures, ago, holder, logins, epoch, trusted>>

\* _bootstrap_kv, in a process of its own, under the same lock.
ReplaceSecrets ==
  /\ holder = NoOne /\ epoch < MaxEpoch
  /\ epoch' = epoch + 1
  /\ trusted' = -1
  /\ UNCHANGED <<failures, ago, holder, logins, cookies>>

\* The throttle is in memory.
RestartLogins ==
  /\ failures' = [h \in Hosts |-> 0] /\ ago' = [h \in Hosts |-> Never]
  /\ holder' = NoOne
  /\ logins' = [l \in Logins |-> NoLogin]
  /\ UNCHANGED <<epoch, cookies, trusted>>

Less(n, floor) == IF n > floor THEN n - 1 ELSE floor

TickLogins ==
  /\ ago' = [h \in Hosts |-> IF ago[h] < Never THEN ago[h] + 1 ELSE Never]
  /\ logins' = [l \in Logins |-> [logins[l] EXCEPT !.left = Less(@, 0)]]
  /\ cookies' = {[k EXCEPT !.left = Less(@, -1)] : k \in cookies}
  /\ trusted' = Less(trusted, -1)
  /\ UNCHANGED <<failures, holder, epoch>>

InitLogins ==
  /\ failures = [h \in Hosts |-> 0] /\ ago = [h \in Hosts |-> Never]
  /\ holder = NoOne /\ logins = [l \in Logins |-> NoLogin]
  /\ epoch = 0 /\ cookies = {} /\ trusted = -1

LoginStep ==
  \/ Screenshot \/ ReplaceSecrets \/ RestartLogins \/ TickLogins
  \/ \E l \in Logins :
       TakeLock(l) \/ MissLock(l) \/ Verify(l) \/ \E h \in Hosts : Arrive(l, h)

SpecLogins == InitLogins /\ [][LoginStep]_loginVars

-----------------------------------------------------------------------------
\* verify_session: the signature and the lifetime.
Genuine(cookie) == cookie.epoch = epoch /\ cookie.left >= 0

\* Mutant of MayWrite: the audience is not looked at.
MayWriteAny(cookie) == Genuine(cookie)

\* current_user, for a method that changes state.
MayWrite(cookie) == Genuine(cookie) /\ cookie.audience = "admin"

SessionsTypeOK ==
  /\ failures \in [Hosts -> 0..MaxFailures]
  /\ ago \in [Hosts -> 0..Never]
  /\ holder \in Logins \cup {NoOne}
  /\ logins \in [Logins -> [at : {"idle", "waiting", "delayed"},
                            host : Hosts \cup {NoOne}, left : 0..Never]]
  /\ epoch \in 0..MaxEpoch
  /\ cookies \subseteq Cookie
  /\ trusted \in -1..Lifetime

\* Guesses from one address keep the delay's distance, however many run at
\* once: a delay is computed when the login begins and not again after it, and
\* only the write lock keeps a second login from having computed its own before
\* the first one failed (await_delay, login).
AttemptsSpaced ==
  [][\A h \in Hosts :
       (failures'[h] # 0 /\ ago'[h] = 0 /\ ago[h] # 0)
         => ago[h] >= Delays[failures[h]]]_loginVars

\* Whoever may change anything gave the password in force, under the secrets in
\* force, less than a session's lifetime ago: no screenshot's cookie and no
\* cookie from before `cli init` will do (verify_session, current_user).
WritesByAdmin ==
  \A cookie \in cookies : MayWrite(cookie) => trusted >= cookie.left
=============================================================================
