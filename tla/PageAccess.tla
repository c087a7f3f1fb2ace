----------------------------- MODULE PageAccess -----------------------------
(***************************************************************************)
(* The quick toggles of src/backend/app/api/page_agent_access.py: for an   *)
(* agent and a page the administrator picks a level, which is kept as      *)
(* ordinary rules, one for each action on modules, and read back from the  *)
(* shape of the rules that are there, whoever made them.                   *)
(***************************************************************************)
EXTENDS RuleEngine, FiniteSets

CONSTANTS PageActions, \* PAGE_ACCESS_ACTION_TYPES
          PagePriority, \* of the rules the toggles make
          MaxRuleId     \* bound: ids of rules

ASSUME PageAccessAssumption ==
  /\ PageActions \subseteq Actions /\ PageActions # {}
  /\ IsFiniteSet(PageActions)
  /\ PagePriority \in Nat /\ MaxRuleId \in Nat \ {0}

VARIABLES table  \* approval_rules

Levels == {"default", "free", "blocked"}
LevelOutcome(level) == IF level = "free" THEN "auto_approve" ELSE "deny"

\* _agent_page_rules
Between(a, p) == {r \in table : r.agent = a /\ r.page = p}

\* _is_managed_shape
Managed(r) ==
  /\ ~ r.builtin /\ r.mtype = Wild /\ r.module = Wild /\ r.owner = "any"
  /\ r.action \in PageActions

\* Mutant of LevelShown: one rule is enough to be shown.
LevelOfAny(a, p) ==
  LET managed == {r \in Enabled(Between(a, p)) : Managed(r)}
      outcomes == {r.outcome : r \in managed}
  IN  IF managed = {} THEN "default"
      ELSE IF outcomes = {"auto_approve"} THEN "free"
      ELSE IF outcomes = {"deny"} THEN "blocked"
      ELSE "custom"

\* _classify: the level the panel shows.
LevelShown(a, p) ==
  LET managed == {r \in Enabled(Between(a, p)) : Managed(r)}
      outcomes == {r.outcome : r \in managed}
      complete == {r.action : r \in managed} = PageActions
  IN  IF managed = {} THEN "default"
      ELSE IF complete /\ outcomes = {"auto_approve"} THEN "free"
      ELSE IF complete /\ outcomes = {"deny"} THEN "blocked"
      ELSE "custom"

LevelRule(a, p, action, level, id) ==
  [id |-> id, agent |-> a, action |-> action, mtype |-> Wild,
   module |-> Wild, page |-> p, owner |-> "any",
   outcome |-> LevelOutcome(level), priority |-> PagePriority,
   enabled |-> TRUE, builtin |-> FALSE]

\* The ids of a set of new rules: one number after another.
Numberings(first) ==
  {f \in [PageActions -> first..(first + Cardinality(PageActions) - 1)] :
     \A x, y \in PageActions : x # y => f[x] # f[y]}

NextId == 1 + Cardinality({n \in 1..MaxRuleId : \E r \in table : r.id >= n})

\* set_page_agent_access: the set is replaced as a whole.
SetAccess(a, p, level) ==
  LET kept == table \ {r \in Between(a, p) : Managed(r)}
      number == CHOOSE f \in Numberings(NextId) : TRUE
      made == {LevelRule(a, p, x, level, number[x]) : x \in PageActions}
  IN  /\ NextId + Cardinality(PageActions) <= MaxRuleId + 1
      /\ table' = IF level = "default" THEN kept ELSE kept \cup made

\* BUILTIN_IMMUTABLE_FIELDS
BuiltinFixed == {"agent", "mtype", "module", "page", "owner", "outcome"}

\* update_rule: whatever is sent takes the place of what was there, but for the
\* action, and of a built-in rule only the priority and the switch.
EditRule(r, new) ==
  /\ r \in table
  /\ \A f \in {"id", "action", "builtin"} : new[f] = r[f]
  /\ r.builtin => \A f \in BuiltinFixed : new[f] = r[f]
  /\ table' = (table \ {r}) \cup {new}

\* delete_rule
DeleteRule(r) ==
  /\ r \in table /\ ~ r.builtin
  /\ table' = table \ {r}

-----------------------------------------------------------------------------
\* What the panel shows is what the agent gets on the page, for each action it
\* lists, unless a rule with two narrowings or more says otherwise: the toggles
\* outrank whatever names an agent, a page, a module or an owner alone, and the
\* level is recognized however the rules came to be what they are (_classify).
ShownLevelHolds(a, p, q) ==
  LET level == LevelShown(a, p)
      verdict == Decide(Enabled(table), q)
  IN  (level \in {"free", "blocked"} /\ q.action \in PageActions)
        => \/ verdict.outcome = LevelOutcome(level)
           \/ \E r \in Enabled(table) :
                r.id = verdict.rule /\ ~ Managed(r) /\ Specificity(r) >= 2

=============================================================================
