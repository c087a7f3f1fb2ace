----------------------------- MODULE RuleEngine -----------------------------
(***************************************************************************)
(* The rule matcher of src/backend/app/approval/engine.py.                 *)
(*                                                                         *)
(* An approval rule names a scope (agent, action type, module type,        *)
(* module, page, ownership) and an outcome.  A proposal is judged by the   *)
(* most specific enabled rule that matches it; if none matches, it waits   *)
(* for the administrator.  The code sorts each action's bucket once, when  *)
(* the cache is loaded, and scans it for the first match; here the same    *)
(* order is the relation Precedes and the verdict is the matching rule     *)
(* that precedes all others.                                               *)
(*                                                                         *)
(* created_at orders rules like their ids, so one number stands for both.  *)
(* In a rule's scope, None and "*" are both "any value" to the code, and   *)
(* both are Wild here; an absent field of a query is Null.                 *)
(***************************************************************************)
EXTENDS Integers

CONSTANTS Agents, Actions, MTypes, Modules, Pages, Wild, Null

ASSUME RuleEngineAssumption ==
  Wild \notin Agents \cup MTypes \cup Modules \cup Pages

Outcomes == {"deny", "prompt", "auto_approve"}
OwnerScopes == {"any", "self", "other"}

\* A row of approval_rules, as the cache keeps it.
Rule ==
  [id : Nat, agent : Agents \cup {Wild}, action : Actions,
   mtype : MTypes \cup {Wild}, module : Modules \cup {Wild},
   page : Pages \cup {Wild}, owner : OwnerScopes, outcome : Outcomes,
   priority : Nat, enabled : BOOLEAN, builtin : BOOLEAN]

\* DecisionRequest: what the matcher is told about a proposal.
Query ==
  [agent : Agents, action : Actions, mtype : MTypes \cup {Null},
   module : Modules \cup {Null}, page : Pages \cup {Null}, owns : BOOLEAN]

-----------------------------------------------------------------------------
Score(narrows) == IF narrows THEN 1 ELSE 0

\* One point for each dimension of the scope that narrows the rule.
Specificity(r) ==
  Score(r.module # Wild) + Score(r.page # Wild) + Score(r.mtype # Wild)
    + Score(r.agent # Wild) + Score(r.owner # "any")

OutcomeRank(outcome) ==
  CASE outcome = "deny" -> 0
    [] outcome = "prompt" -> 1
    [] outcome = "auto_approve" -> 2

\* Mutant of Precedes: the sort key without its outcome rank.
PrecedesUnranked(r, s) ==
  \/ Specificity(r) > Specificity(s)
  \/ /\ Specificity(r) = Specificity(s)
     /\ \/ r.priority < s.priority
        \/ r.priority = s.priority /\ r.id > s.id

\* The key a bucket is sorted by: specificity falling, priority rising,
\* outcome rank rising, newest first.
Precedes(r, s) ==
  \/ Specificity(r) > Specificity(s)
  \/ /\ Specificity(r) = Specificity(s)
     /\ \/ r.priority < s.priority
        \/ /\ r.priority = s.priority
           /\ \/ OutcomeRank(r.outcome) < OutcomeRank(s.outcome)
              \/ /\ r.outcome = s.outcome
                 /\ r.id > s.id

\* _rule_matches
Matches(r, q) ==
  /\ r.agent \in {Wild, q.agent}
  /\ r.mtype \in {Wild, q.mtype}
  /\ r.module \in {Wild, q.module}
  /\ r.page \in {Wild, q.page}
  /\ r.owner = "self" => q.owns
  /\ r.owner = "other" => ~ q.owns

\* Mutant of Enabled: a load without the filter on enabled.
EveryRule(rules) == rules

\* The rules _load_cache reads.
Enabled(rules) == {r \in rules : r.enabled}

\* The members of the query's bucket that match it.
Candidates(rules, q) == {r \in rules : r.action = q.action /\ Matches(r, q)}

\* Mutant of IsFirst: the scan of a bucket that was never sorted.
IsOldest(r, S) == r \in S /\ \A s \in S : r.id <= s.id

\* The member of a sorted bucket's matches that the scan meets first.
IsFirst(r, S) == r \in S /\ \A s \in S \ {r} : Precedes(r, s)

\* decide: the first match of the sorted bucket, else a prompt by no rule.
Decide(rules, q) ==
  LET found == Candidates(rules, q)
      first == CHOOSE r \in found : IsFirst(r, found)
  IN  IF found = {}
      THEN [outcome |-> "prompt", rule |-> Null]
      ELSE [outcome |-> first.outcome, rule |-> first.id]

Decisions == [outcome : Outcomes, rule : Nat \cup {Null}]

\* No proposal is auto-approved while a matching rule at least as specific,
\* and of at least as urgent a priority, denies it or asks for a prompt:
\* "deny beats auto_approve" of the comment in _outcome_rank.
Cautious(rules, q) ==
  LET verdict == Decide(rules, q)
  IN  verdict.outcome = "auto_approve" =>
        \A w \in rules : w.id = verdict.rule =>
          ~ \E r \in Candidates(rules, q) :
              /\ r.outcome # "auto_approve"
              /\ Specificity(r) >= Specificity(w)
              /\ r.priority <= w.priority
=============================================================================
