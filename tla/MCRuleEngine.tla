---------------------------- MODULE MCRuleEngine ----------------------------
(***************************************************************************)
(* Checks the matcher of RuleEngine on every set of up to MaxTable rules   *)
(* drawn from a small universe, against every query; and the access panel  *)
(* of a page, with one more rule, while rules are edited and deleted.      *)
(***************************************************************************)
EXTENDS PageAccess, SequencesExt

CONSTANTS MaxTable,   \* bound: rules of a table
          MaxOthers,  \* bound: rules beside the panel's, at a time
          Priorities, \* those the rules draw on
          a1, m1, p1  \* whom and what the panel is about

ASSUME MCRuleEngineAssumption ==
  /\ MaxTable \in Nat /\ MaxOthers \in Nat /\ Priorities \subseteq Nat
  /\ a1 \in Agents /\ m1 \in Modules /\ p1 \in Pages

VARIABLES asked, scene

vars == <<table, asked, scene>>

FirstAction == CHOOSE a \in Actions : TRUE

\* Agent, module type, module and page enter the key and the matcher in the
\* same way: the module stands for the four, with specificities 0 to 2.
Universe ==
  [id : 1..MaxTable, agent : {Wild}, action : Actions, mtype : {Wild},
   module : Modules \cup {Wild}, page : {Wild}, owner : OwnerScopes,
   outcome : Outcomes, priority : Priorities, enabled : {TRUE},
   builtin : {FALSE}]

\* What the fields of a rule are set to.
Values ==
  [agent |-> {Wild, a1}, mtype |-> {Wild}, module |-> {Wild, m1},
   page |-> {Wild, p1}, owner |-> {"any", "self"}, outcome |-> Outcomes,
   priority |-> {0, PagePriority}, enabled |-> BOOLEAN]

\* Rules beside the panel's.
Others ==
  [id : {1}, agent : Values.agent, action : {FirstAction},
   mtype : Values.mtype, module : Values.module, page : Values.page,
   owner : Values.owner, outcome : Outcomes, priority : Values.priority,
   enabled : BOOLEAN, builtin : BOOLEAN]

\* An edit sets one field: one that sets several is several edits in a row.
Edits(r) ==
  UNION {{[r EXCEPT ![f] = x] : x \in Values[f]} : f \in DOMAIN Values}

\* Rules that the panel of a1 on p1 does not show.
Unshown(rules) ==
  {r \in rules : r.agent # a1 \/ r.page # p1 \/ ~ Managed(r)}

Queries ==
  [agent : Agents, action : {FirstAction}, mtype : {Null},
   module : Modules \cup {Null}, page : {Null}, owns : BOOLEAN]

PageQueries ==
  [agent : {a1}, action : {FirstAction}, mtype : {Null},
   module : {m1, Null}, page : {p1}, owns : BOOLEAN]

\* What is asked matters for the matcher; of the panel every query of
\* PageQueries is asked in every state.
Init ==
  \/ scene = "matcher" /\ table = {} /\ asked \in Queries
  \/ /\ scene = "panel"
     /\ asked \in PageQueries /\ asked.module = Null /\ ~ asked.owns
     /\ table = {} \/ \E r \in Others : table = {r}

\* Rules are created in the order of their ids.
AddRule ==
  /\ scene = "matcher"
  /\ Cardinality(table) < MaxTable
  /\ \E r \in Universe :
        /\ r.id = Cardinality(table) + 1
        /\ table' = table \cup {r}
  /\ UNCHANGED <<asked, scene>>

UsePanel ==
  /\ scene = "panel"
  /\ \/ \E level \in Levels : SetAccess(a1, p1, level)
     \/ \E r \in table :
          \/ DeleteRule(r)
          \/ \E new \in Edits(r) : EditRule(r, new)
  /\ Cardinality(Unshown(table')) <= MaxOthers
  /\ UNCHANGED <<asked, scene>>

Next == AddRule \/ UsePanel
Spec == Init /\ [][Next]_vars

-----------------------------------------------------------------------------
\* A bucket as _load_cache leaves it.
Sorted(S) ==
  CHOOSE seq \in SetToSeqs(S) :
    \A i, j \in 1..Len(seq) : i < j => Precedes(seq[i], seq[j])

\* get_rule_cache and decide as the code runs them: sort the bucket, scan it.
ScanDecide(rules, q) ==
  LET bucket == Sorted({r \in rules : r.action = q.action})
      hit == SelectInSeq(bucket, LAMBDA r : Matches(r, q))
  IN  IF hit = 0
      THEN [outcome |-> "prompt", rule |-> Null]
      ELSE [outcome |-> bucket[hit].outcome, rule |-> bucket[hit].id]

\* The verdict stated declaratively is the one the sorted scan computes.
\* (engine.decide over the buckets built by _load_cache)
VerdictIsScan == Decide(table, asked) = ScanDecide(table, asked)

\* On every table that can be reached (_outcome_rank, decide).
CautionPrevails == Cautious(table, asked)

\* The panel of a page tells the administrator what a write of the agent on it
\* will meet (_classify, set_page_agent_access).
PanelHolds ==
  scene = "panel" => \A q \in PageQueries : ShownLevelHolds(a1, p1, q)
=============================================================================
