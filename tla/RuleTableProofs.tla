-------------------------- MODULE RuleTableProofs ---------------------------
(***************************************************************************)
(* The rule table in use, whatever its size: the verdict is what sorting   *)
(* the bucket and scanning it computes, caution prevails, and the level    *)
(* shown for a page is what the agent gets there, however the rules came   *)
(* to be what they are.                                                    *)
(***************************************************************************)
EXTENDS MCRuleEngine, RuleEngineProofs, FunctionTheorems, FiniteSetTheorems

-----------------------------------------------------------------------------
(***************************************************************************)
(* Sorting and scanning.                                                   *)
(***************************************************************************)
\* The sort key is transitive.
LEMMA PrecedesTransitive ==
  ASSUME NEW r \in Rule, NEW s \in Rule, NEW t \in Rule,
         Precedes(r, s), Precedes(s, t)
  PROVE  Precedes(r, t)
<1>1. \A x \in Rule : /\ x.id \in Nat /\ x.priority \in Nat
                      /\ x.outcome \in Outcomes
  BY DEF Rule
<1>2. /\ Specificity(r) \in 0..5 /\ Specificity(s) \in 0..5
      /\ Specificity(t) \in 0..5
  BY SpecificityType
<1>3. /\ OutcomeRank(r.outcome) \in 0..2 /\ OutcomeRank(s.outcome) \in 0..2
      /\ OutcomeRank(t.outcome) \in 0..2
  BY <1>1, OutcomeRankType
<1>4. QED
  BY <1>1, <1>2, <1>3 DEF Precedes

\* A table is finite: its ids were given out.
LEMMA TableFinite ==
  ASSUME NEW rules, Table(rules)
  PROVE  IsFiniteSet(rules)
<1>1. PICK n \in Nat : \A r \in rules : r.id <= n
  BY DEF Table
<1> DEFINE number == [r \in rules |-> r.id]
<1>2. \A r \in rules : r.id \in 0..n
  BY <1>1 DEF Table, Rule
<1>3. number \in Injection(rules, 0..n)
  BY <1>2 DEF Table, Injection, IsInjective
<1>4. IsFiniteSet(0..n)
  BY FS_Interval
<1>5. QED
  BY <1>3, <1>4, FS_Injection

\* Part of a table is a table.
LEMMA TablePart ==
  ASSUME NEW rules, Table(rules), NEW S \in SUBSET rules
  PROVE  Table(S)
BY DEF Table

\* Every bucket can be sorted: the number of rules that come no later is the
\* place of a rule.
LEMMA SortedExists ==
  ASSUME NEW S, Table(S)
  PROVE  /\ Sorted(S) \in [1..Cardinality(S) -> S]
         /\ Len(Sorted(S)) = Cardinality(S)
         /\ \A r \in S : \E i \in 1..Cardinality(S) : Sorted(S)[i] = r
         /\ \A i, j \in 1..Cardinality(S) :
              i < j => Precedes(Sorted(S)[i], Sorted(S)[j])
<1> DEFINE n == Cardinality(S)
           upTo(r) == {s \in S : s = r \/ Precedes(s, r)}
           rank == [r \in S |-> Cardinality(upTo(r))]
<1>1. IsFiniteSet(S) /\ S \subseteq Rule
  BY TableFinite DEF Table
<1>2. n \in Nat /\ IsFiniteSet(1..n) /\ Cardinality(1..n) = n
  BY <1>1, FS_CardinalityType, FS_Interval
<1>3. ASSUME NEW r \in S
      PROVE  /\ IsFiniteSet(upTo(r)) /\ Cardinality(upTo(r)) \in 1..n
             /\ r \in upTo(r)
  <2>1. upTo(r) \in SUBSET S /\ r \in upTo(r)
    OBVIOUS
  <2>2. IsFiniteSet(upTo(r)) /\ Cardinality(upTo(r)) <= n
    BY <1>1, <2>1, FS_Subset
  <2>3. Cardinality(upTo(r)) \in Nat /\ Cardinality(upTo(r)) # 0
    BY <2>1, <2>2, FS_CardinalityType, FS_EmptySet
  <2>4. QED
    BY <1>2, <2>1, <2>2, <2>3
<1>4. ASSUME NEW r \in S, NEW s \in S, r # s, Precedes(r, s)
      PROVE  rank[r] < rank[s]
  <2>1. ~ Precedes(s, r)
    BY <1>1, <1>4, PrecedesAsymmetric
  <2>2. upTo(r) \in SUBSET upTo(s)
    <3>1. ASSUME NEW t \in upTo(r) PROVE t \in upTo(s)
      BY <1>1, <1>4, <3>1, PrecedesTransitive
    <3>2. QED
      BY <3>1
  <2>3. s \notin upTo(r) /\ s \in upTo(s)
    BY <1>4, <2>1
  <2>4. IsFiniteSet(upTo(s)) /\ upTo(s) # upTo(r)
    BY <1>3, <2>3
  <2>5. /\ Cardinality(upTo(r)) \in Nat /\ Cardinality(upTo(s)) \in Nat
    BY <1>3, FS_CardinalityType
  <2> HIDE DEF upTo
  <2>6. /\ Cardinality(upTo(r)) <= Cardinality(upTo(s))
        /\ Cardinality(upTo(s)) # Cardinality(upTo(r))
    BY <2>2, <2>4, FS_Subset
  <2>7. QED
    BY <2>5, <2>6
<1>5. rank \in Injection(S, 1..n)
  <2>1. rank \in [S -> 1..n]
    BY <1>3
  <2>2. ASSUME NEW r \in S, NEW s \in S, rank[r] = rank[s]
        PROVE  r = s
    <3>1. rank[r] \in Int /\ rank[s] \in Int
      BY <1>2, <2>1
    <3> HIDE DEF rank
    <3>2. r # s => Precedes(r, s) \/ Precedes(s, r)
      BY PrecedesTotal
    <3>3. QED
      BY <1>4, <2>2, <3>1, <3>2
  <2> HIDE DEF rank
  <2>3. QED
    BY <2>1, <2>2 DEF Injection, IsInjective
<1>6. rank \in Surjection(S, 1..n)
  BY <1>2, <1>5, FS_Injection
<1> DEFINE g == [i \in 1..n |-> CHOOSE r \in S : rank[r] = i]
<1>7. \A i \in 1..n : g[i] \in S /\ rank[g[i]] = i
  <2> HIDE DEF rank, n
  <2>1. \A i \in 1..n : \E r \in S : rank[r] = i
    BY <1>6 DEF Surjection
  <2>2. QED
    BY <2>1
<1>8. ASSUME NEW i \in 1..n, NEW j \in 1..n, i < j
      PROVE  Precedes(g[i], g[j])
  <2>1. g[i] \in S /\ g[j] \in S /\ rank[g[i]] = i /\ rank[g[j]] = j
    BY <1>7
  <2>2. i \in Int /\ j \in Int /\ i # j /\ ~ (j < i)
    BY <1>2, <1>8
  <2> HIDE DEF g, rank
  <2>3. g[i] # g[j]
    BY <2>1, <2>2
  <2>4. ~ Precedes(g[j], g[i])
    BY <1>4, <2>1, <2>2, <2>3
  <2>5. QED
    BY <2>1, <2>3, <2>4, PrecedesTotal
<1> DEFINE InOrder(seq) ==
             \A i, j \in 1..Len(seq) : i < j => Precedes(seq[i], seq[j])
<1>9. g \in SetToSeqs(S) /\ InOrder(g)
  <2>1. g \in [1..n -> S]
    BY <1>7
  <2>2. Len(g) = n
    BY <1>2, <2>1
  <2>3. \A i, j \in 1..n : i # j => g[i] # g[j]
    <3> HIDE DEF g
    <3>1. QED
      BY <1>7
  <2> HIDE DEF g
  <2>4. g \in SetToSeqs(S)
    BY <2>1, <2>3 DEF SetToSeqs
  <2>5. QED
    BY <1>8, <2>2, <2>4
<1>10. Sorted(S) \in SetToSeqs(S) /\ InOrder(Sorted(S))
  <2> HIDE DEF g
  <2>1. QED
    BY <1>9 DEF Sorted
<1> HIDE DEF g, rank, upTo
<1>11. /\ Sorted(S) \in [1..n -> S]
       /\ \A i, j \in 1..n : i # j => Sorted(S)[i] # Sorted(S)[j]
  BY <1>10 DEF SetToSeqs
<1>12. Len(Sorted(S)) = n
  BY <1>2, <1>11
<1>13. Sorted(S) \in Injection(1..n, S)
  <2> HIDE DEF n
  <2>1. QED
    BY <1>11 DEF Injection, IsInjective
<1>14. Sorted(S) \in Surjection(1..n, S)
  BY <1>1, <1>2, <1>13, FS_Injection
<1>15. QED
  <2> HIDE DEF n
  <2>1. \A r \in S : \E i \in 1..n : Sorted(S)[i] = r
    BY <1>14 DEF Surjection
  <2>2. \A i, j \in 1..n : i < j => Precedes(Sorted(S)[i], Sorted(S)[j])
    BY <1>10, <1>12
  <2>3. QED
    BY <1>11, <1>12, <2>1, <2>2 DEF n

\* On every table and for every query, the verdict is what the code computes
\* by sorting the bucket and stopping at the first match (_load_cache, decide).
THEOREM ScanTheorem ==
  ASSUME NEW rules, Table(rules), NEW q
  PROVE  Decide(rules, q) = ScanDecide(rules, q)
<1> DEFINE B == {r \in rules : r.action = q.action}
           bucket == Sorted(B)
           I == {i \in 1..Len(bucket) : Matches(bucket[i], q)}
           found == Candidates(rules, q)
<1>1. Table(B)
  BY TablePart
<1>2. /\ bucket \in [1..Len(bucket) -> B]
      /\ \A r \in B : \E i \in 1..Len(bucket) : bucket[i] = r
      /\ \A i, j \in 1..Len(bucket) :
              i < j => Precedes(bucket[i], bucket[j])
  BY <1>1, SortedExists
<1>3. found = {r \in B : Matches(r, q)}
  BY DEF Candidates
<1>4. I = {} <=> found = {}
  <2> HIDE DEF B, bucket, found
  <2>1. QED
    BY <1>2, <1>3
<1>5. ScanDecide(rules, q) =
        IF I = {} THEN [outcome |-> "prompt", rule |-> Null]
        ELSE LET hit == CHOOSE i \in I : \A j \in I : i <= j
             IN  [outcome |-> bucket[hit].outcome, rule |-> bucket[hit].id]
  <2>1. 0 \notin I
    OBVIOUS
  <2>2. I # {} => (CHOOSE i \in I : \A j \in I : i <= j) \in I
    <3>1. I \subseteq Nat
      OBVIOUS
    <3>2. I # {} => \E i \in I : \A j \in I : i <= j
      BY <3>1, NatMin
    <3> HIDE DEF I
    <3>3. QED
      BY <3>2
  <2> DEFINE hit == IF I # {} THEN CHOOSE i \in I : \A j \in I : i <= j ELSE 0
  <2>3. hit = 0 <=> I = {}
    <3> HIDE DEF I
    <3>1. QED
      BY <2>1, <2>2
  <2>4. ScanDecide(rules, q) =
          IF hit = 0 THEN [outcome |-> "prompt", rule |-> Null]
          ELSE [outcome |-> bucket[hit].outcome, rule |-> bucket[hit].id]
    BY DEF ScanDecide, SelectInSeq, Min
  <2> HIDE DEF I, bucket
  <2>5. QED
    BY <2>3, <2>4
<1>6. CASE found = {}
  BY <1>4, <1>5, <1>6 DEF Decide
<1>7. CASE found # {}
  <2>1. I # {} /\ I \subseteq Nat
    BY <1>4, <1>7
  <2>2. PICK least \in I : \A j \in I : least <= j
    BY <2>1, NatMin
  <2> DEFINE hit == CHOOSE i \in I : \A j \in I : i <= j
  <2>3. hit \in I /\ \A j \in I : hit <= j
    <3> HIDE DEF I
    <3>1. QED
      BY <2>2
  <2>4. hit \in 1..Len(bucket) /\ bucket[hit] \in found
    <3>1. hit \in 1..Len(bucket) /\ Matches(bucket[hit], q)
      BY <2>3
    <3> HIDE DEF hit, I, bucket, found, B
    <3>2. QED
      BY <3>1, <1>2, <1>3
  <2> HIDE DEF hit
  <2>5. ASSUME NEW s \in found \ {bucket[hit]} PROVE Precedes(bucket[hit], s)
    <3>1. s \in B /\ Matches(s, q)
      BY <1>3
    <3> HIDE DEF B, found, bucket
    <3>2. PICK i \in 1..Len(bucket) : bucket[i] = s
      BY <1>2, <3>1
    <3>3. i \in I /\ i # hit
      BY <3>1, <3>2, <2>5
    <3>4. hit < i
      BY <2>3, <2>4, <3>2, <3>3
    <3>5. QED
      BY <1>2, <2>4, <3>2, <3>4
  <2>6. IsFirst(bucket[hit], found)
    <3> HIDE DEF found, bucket
    <3>1. QED
      BY <2>4, <2>5 DEF IsFirst
  <2>7. PICK r \in found : /\ IsFirst(r, found)
                           /\ Decide(rules, q) = [outcome |-> r.outcome,
                                                  rule |-> r.id]
    BY <1>7, DecideSound
  <2>8. found \subseteq Rule
    BY DEF Candidates, Table
  <2>9. r = bucket[hit]
    <3> HIDE DEF found, bucket
    <3>1. QED
      BY <2>4, <2>6, <2>7, <2>8, FirstUnique
  <2>10. ScanDecide(rules, q) =
           [outcome |-> bucket[hit].outcome, rule |-> bucket[hit].id]
    <3> HIDE DEF I, bucket
    <3>1. QED
      BY <1>5, <2>1 DEF hit
  <2>11. QED
    BY <2>7, <2>9, <2>10
<1>8. QED
  BY <1>6, <1>7

-----------------------------------------------------------------------------
(***************************************************************************)
(* The panel of a page.                                                    *)
(***************************************************************************)
\* Whatever rules there are, the level that is shown for an agent on a page is
\* what its writes meet there, or a rule of two narrowings that the panel does
\* not manage has the last word (_classify, decide).
THEOREM ShownTheorem ==
  ASSUME Table(table), NEW a \in Agents, NEW p \in Pages,
         NEW q, q.agent = a, q.page = p
  PROVE  ShownLevelHolds(a, p, q)
<1> DEFINE level == LevelShown(a, p)
           verdict == Decide(Enabled(table), q)
           managed == {r \in Enabled(Between(a, p)) : Managed(r)}
           found == Candidates(Enabled(table), q)
<1>. SUFFICES ASSUME level \in {"free", "blocked"}, q.action \in PageActions
              PROVE  \/ verdict.outcome = LevelOutcome(level)
                     \/ \E r \in Enabled(table) :
                          /\ r.id = verdict.rule
                          /\ ~ Managed(r) /\ Specificity(r) >= 2
  BY DEF ShownLevelHolds
<1>1. /\ {r.action : r \in managed} = PageActions
      /\ {r.outcome : r \in managed} = {LevelOutcome(level)}
  <2> DEFINE outcomes == {r.outcome : r \in managed}
             complete == {r.action : r \in managed} = PageActions
  <2>1. level = IF managed = {} THEN "default"
                ELSE IF complete /\ outcomes = {"auto_approve"} THEN "free"
                ELSE IF complete /\ outcomes = {"deny"} THEN "blocked"
                ELSE "custom"
    BY DEF LevelShown
  <2> HIDE DEF level, managed, outcomes, complete
  <2>2. \/ level = "free" /\ complete /\ outcomes = {"auto_approve"}
        \/ level = "blocked" /\ complete /\ outcomes = {"deny"}
    BY <2>1
  <2>3. complete /\ outcomes = {LevelOutcome(level)}
    BY <2>2 DEF LevelOutcome
  <2>4. QED
    BY <2>3 DEF complete, outcomes
<1>2. \A r \in managed : /\ r \in table /\ r.enabled /\ r.agent = a /\ r.page = p
                         /\ Managed(r)
  BY DEF Enabled, Between
<1>3. a # Wild /\ p # Wild
  BY RuleEngineAssumption
<1> HIDE DEF level, managed
<1>4. PICK m \in managed : m.action = q.action
  BY <1>1
<1>5. m \in found /\ Specificity(m) = 2
  <2>1. m.mtype = Wild /\ m.module = Wild /\ m.owner = "any"
    BY <1>2 DEF Managed
  <2>2. m \in found
    BY <1>2, <1>4, <2>1 DEF Candidates, Enabled, Matches
  <2>3. Specificity(m) = 2
    BY <1>2, <1>3, <2>1 DEF Specificity, Score
  <2>4. QED
    BY <2>2, <2>3
<1>6. Table(Enabled(table))
  BY TablePart DEF Enabled
<1>7. PICK v \in found : /\ IsFirst(v, found)
                        /\ verdict = [outcome |-> v.outcome, rule |-> v.id]
  BY <1>5, <1>6, DecideSound
<1>8. v \in Enabled(table) /\ v \in table /\ v.enabled /\ v \in Rule /\ Matches(v, q)
  BY DEF Candidates, Enabled, Table
<1>9. Specificity(v) >= 2
  <2>1. v = m \/ Precedes(v, m)
    BY <1>5, <1>7 DEF IsFirst
  <2>2. Specificity(v) \in 0..5
    BY <1>8, SpecificityType
  <2>3. QED
    BY <1>5, <2>1, <2>2 DEF Precedes
<1>10. CASE ~ Managed(v)
  BY <1>7, <1>8, <1>9, <1>10
<1>11. CASE Managed(v)
  <2>1. v.mtype = Wild /\ v.module = Wild /\ v.owner = "any"
    BY <1>11 DEF Managed
  <2>2. v.agent # Wild /\ v.page # Wild
    BY <1>9, <2>1 DEF Specificity, Score
  <2>3. v.agent = a /\ v.page = p
    BY <1>8, <2>2 DEF Matches
  <2>4. v \in managed
    BY <1>8, <1>11, <2>3 DEF managed, Enabled, Between
  <2>5. v.outcome = LevelOutcome(level)
    BY <1>1, <2>4
  <2>6. QED
    BY <1>7, <2>5
<1>12. QED
  BY <1>10, <1>11

-----------------------------------------------------------------------------
(***************************************************************************)
(* The table as it is edited.                                              *)
(***************************************************************************)
\* Rules have ids of their own, which were given out one after another; the
\* panel is asked about the agent and the page it shows.
TableInv ==
  /\ Table(table)
  /\ scene \in {"matcher", "panel"}
  /\ scene = "matcher" => \A r \in table : r.id <= Cardinality(table)
  /\ scene = "panel" => \A r \in table : r.id \in 1..MaxRuleId

\* An action there is.
LEMMA SomeAction == FirstAction \in Actions
BY PageAccessAssumption DEF FirstAction

\* The ids that are free begin at NextId.
LEMMA NextIdFree ==
  ASSUME Table(table), \A r \in table : r.id \in 1..MaxRuleId
  PROVE  NextId \in Nat \ {0} /\ \A r \in table : r.id < NextId
<1> DEFINE used == {n \in 1..MaxRuleId : \E r \in table : r.id >= n}
<1>1. MaxRuleId \in Nat
  BY PageAccessAssumption
<1>2. IsFiniteSet(used)
  <2>1. IsFiniteSet(1..MaxRuleId)
    BY <1>1, FS_Interval
  <2>2. used \in SUBSET (1..MaxRuleId)
    OBVIOUS
  <2> HIDE DEF used
  <2>3. QED
    BY <2>1, <2>2, FS_Subset
<1>3. Cardinality(used) \in Nat
  BY <1>2, FS_CardinalityType
<1>4. ASSUME NEW r \in table PROVE r.id <= Cardinality(used)
  <2>1. 1..r.id \in SUBSET used
    BY <1>1
  <2>2. Cardinality(1..r.id) <= Cardinality(used)
    BY <1>2, <2>1, FS_Subset
  <2>3. r.id \in Int /\ r.id >= 1
    BY <1>1
  <2>4. Cardinality(1..r.id) = r.id
    BY <2>3, FS_Interval
  <2>5. QED
    BY <2>2, <2>4
<1>5. NextId = 1 + Cardinality(used)
  BY DEF NextId
<1> HIDE DEF used
<1>6. \A r \in table : r.id \in Int
  OBVIOUS
<1>7. QED
  BY <1>3, <1>4, <1>5, <1>6

\* New rules can be numbered one after another.
LEMMA NumberingExists ==
  ASSUME NEW first \in Nat
  PROVE  Numberings(first) # {}
<1> DEFINE n == Cardinality(PageActions)
<1>1. IsFiniteSet(PageActions)
  BY PageAccessAssumption
<1>2. n \in Nat /\ ExistsBijection(1..n, PageActions)
  BY <1>1, FS_CardinalityType
<1>3. PICK b \in Bijection(PageActions, 1..n) : TRUE
  BY <1>2, Fun_ExistsBijSymmetric DEF ExistsBijection
<1> HIDE DEF n
<1>4. /\ b \in [PageActions -> 1..n]
      /\ \A x, y \in PageActions : x # y => b[x] # b[y]
  BY <1>3 DEF Bijection, Injection, IsInjective
<1> DEFINE f == [x \in PageActions |-> first + b[x] - 1]
<1>5. f \in [PageActions -> first..(first + n - 1)]
  BY <1>2, <1>4
<1>6. \A x, y \in PageActions : x # y => f[x] # f[y]
  <2>1. \A x \in PageActions : b[x] \in Int
    BY <1>2, <1>4
  <2>2. QED
    BY <1>4, <2>1
<1> HIDE DEF f
<1>7. QED
  BY <1>5, <1>6 DEF Numberings, n

\* The table a level leaves: the set is replaced as a whole.
LEMMA SetAccessKeeps ==
  ASSUME Table(table), \A r \in table : r.id \in 1..MaxRuleId,
         NEW level \in Levels, SetAccess(a1, p1, level)
  PROVE  Table(table') /\ \A r \in table' : r.id \in 1..MaxRuleId
<1> DEFINE kept == table \ {r \in Between(a1, p1) : Managed(r)}
           number == CHOOSE f \in Numberings(NextId) : TRUE
           made == {LevelRule(a1, p1, x, level, number[x]) : x \in PageActions}
           n == Cardinality(PageActions)
<1>1. /\ NextId + n <= MaxRuleId + 1
      /\ table' = kept \/ table' = kept \cup made
  BY DEF SetAccess
<1>2. NextId \in Nat \ {0} /\ \A r \in table : r.id < NextId
  BY NextIdFree
<1>3. n \in Nat /\ MaxRuleId \in Nat /\ PagePriority \in Nat
  BY PageAccessAssumption, FS_CardinalityType
<1>4. number \in Numberings(NextId)
  BY <1>2, NumberingExists
<1> HIDE DEF number
<1>5. /\ \A x \in PageActions : number[x] \in NextId..(NextId + n - 1)
      /\ \A x, y \in PageActions : x # y => number[x] # number[y]
  BY <1>4 DEF Numberings
<1>6. ASSUME NEW x \in PageActions
      PROVE  /\ LevelRule(a1, p1, x, level, number[x]) \in Rule
             /\ LevelRule(a1, p1, x, level, number[x]).id = number[x]
             /\ number[x] >= NextId /\ number[x] \in 1..MaxRuleId
  <2>1. number[x] >= NextId /\ number[x] \in 1..MaxRuleId /\ number[x] \in Nat
    BY <1>1, <1>2, <1>3, <1>5
  <2>2. x \in Actions /\ a1 \in Agents /\ p1 \in Pages
    BY PageAccessAssumption, MCRuleEngineAssumption
  <2>3. LevelOutcome(level) \in Outcomes
    BY DEF LevelOutcome, Outcomes
  <2>4. LevelRule(a1, p1, x, level, number[x]) \in Rule
    BY <1>3, <2>1, <2>2, <2>3 DEF LevelRule, Rule, OwnerScopes
  <2>5. QED
    BY <2>1, <2>4 DEF LevelRule
<1>7. kept \in SUBSET table
  OBVIOUS
<1>8. \A m \in made : /\ m \in Rule /\ m.id >= NextId /\ m.id \in 1..MaxRuleId
  BY <1>6
<1>9. ASSUME NEW r \in made, NEW s \in made, r.id = s.id PROVE r = s
  <2>1. PICK x \in PageActions : r = LevelRule(a1, p1, x, level, number[x])
    OBVIOUS
  <2>2. PICK y \in PageActions : s = LevelRule(a1, p1, y, level, number[y])
    OBVIOUS
  <2>3. number[x] = number[y]
    BY <1>6, <1>9, <2>1, <2>2
  <2>4. x = y
    BY <1>5, <2>3
  <2>5. QED
    BY <2>1, <2>2, <2>4
<1> HIDE DEF kept, made, n
<1>10. \A r \in kept, m \in made : r.id # m.id
  <2>1. \A r \in table : r.id \in Int
    BY <1>3
  <2>2. \A m \in made : m.id \in Int
    BY <1>3, <1>8
  <2>3. QED
    BY <1>2, <1>7, <1>8, <2>1, <2>2
<1>11. \A r \in table' : r.id \in 1..MaxRuleId
  BY <1>1, <1>7, <1>8
<1>12. \A r \in table' : r \in Rule /\ r.id <= MaxRuleId
  BY <1>1, <1>3, <1>7, <1>8, <1>11 DEF Table
<1>13. \A r, s \in table' : r.id = s.id => r = s
  BY <1>1, <1>7, <1>9, <1>10 DEF Table
<1>14. QED
  BY <1>3, <1>11, <1>12, <1>13 DEF Table

\* The table that adding a rule, changing one or deleting one leaves.
LEMMA TableEdits ==
  ASSUME NEW S, Table(S), NEW r \in Rule, \A s \in S : s.id # r.id
  PROVE  Table(S \cup {r})
<1>1. PICK n \in Nat : \A s \in S : s.id <= n
  BY DEF Table
<1> DEFINE m == IF r.id <= n THEN n ELSE r.id
<1>2. r.id \in Nat /\ \A s \in S : s.id \in Nat
  BY DEF Table, Rule
<1>3. m \in Nat /\ \A s \in S \cup {r} : s.id <= m
  BY <1>1, <1>2
<1>4. S \cup {r} \subseteq Rule /\ \A s, t \in S \cup {r} : s.id = t.id => s = t
  BY DEF Table
<1> HIDE DEF m
<1>5. QED
  BY <1>3, <1>4 DEF Table

\* The rules that are drawn on are rules.
LEMMA UniverseRules ==
  ASSUME NEW r \in Universe
  PROVE  r \in Rule
<1>1. /\ r.id \in 1..MaxTable /\ r.priority \in Priorities
      /\ r.enabled \in BOOLEAN /\ r.builtin \in BOOLEAN
  BY DEF Universe
<1>2. \A n \in 1..MaxTable : n \in Nat
  BY MCRuleEngineAssumption
<1>3. r.id \in Nat
  BY <1>1, <1>2
<1>4. r.priority \in Nat
  BY <1>1, MCRuleEngineAssumption
<1>5. QED
  BY <1>1, <1>3, <1>4 DEF Universe, Rule

\* A new table.
\* An edited rule is a rule.
LEMMA EditedIsRule ==
  ASSUME NEW r \in Rule, NEW new \in Edits(r)
  PROVE  new \in Rule
<1>1. PICK f \in DOMAIN Values : new \in {[r EXCEPT ![f] = x] : x \in Values[f]}
  BY DEF Edits
<1>2. PICK x \in Values[f] : new = [r EXCEPT ![f] = x]
  BY <1>1
<1>3. f \in {"agent", "mtype", "module", "page", "owner", "outcome", "priority",
            "enabled"}
  BY DEF Values
<1>4. QED
  BY <1>2, <1>3, PageAccessAssumption, MCRuleEngineAssumption
     DEF Values, Rule, OwnerScopes

LEMMA InitTable == Init => TableInv
<1> SUFFICES ASSUME Init PROVE TableInv
  OBVIOUS
<1>1. Table({})
  BY DEF Table
<1>2. CASE scene = "matcher" /\ table = {}
  BY <1>1, <1>2 DEF TableInv
<1>3. CASE /\ scene = "panel"
           /\ table = {} \/ \E r \in Others : table = {r}
  <2>1. ASSUME NEW r \in Others, table = {r}
        PROVE  Table(table) /\ \A s \in table : s.id \in 1..MaxRuleId
    <3>1. r \in Rule
      BY SomeAction, PageAccessAssumption, MCRuleEngineAssumption
         DEF Others, Values, Rule, OwnerScopes
    <3>2. r.id = 1 /\ 1 \in 1..MaxRuleId
      BY PageAccessAssumption DEF Others
    <3>3. Table({} \cup {r})
      BY <1>1, <3>1, TableEdits
    <3>4. QED
      BY <2>1, <3>2, <3>3
  <2>2. QED
    BY <1>1, <1>3, <2>1 DEF TableInv
<1>4. QED
  BY <1>2, <1>3 DEF Init

\* Rules are added, edited and deleted, and levels set.
LEMMA NextTable == TableInv /\ [Next]_vars => TableInv'
<1> SUFFICES ASSUME TableInv, [Next]_vars PROVE TableInv'
  OBVIOUS
<1> USE DEF TableInv
<1>1. CASE AddRule
  <2>1. PICK r \in Universe : /\ r.id = Cardinality(table) + 1
                              /\ table' = table \cup {r}
    BY <1>1 DEF AddRule
  <2>2. scene = "matcher" /\ UNCHANGED <<asked, scene>>
    BY <1>1 DEF AddRule
  <2>3. r \in Rule
    BY <2>1, UniverseRules
  <2>4. IsFiniteSet(table) /\ Cardinality(table) \in Nat
    BY TableFinite, FS_CardinalityType
  <2>5. \A s \in table : s.id <= Cardinality(table) /\ s.id \in Nat
    BY <2>2 DEF Table, Rule
  <2>6. \A s \in table : s.id # r.id
    BY <2>1, <2>4, <2>5
  <2>7. Table(table')
    BY <2>1, <2>3, <2>6, TableEdits
  <2>8. Cardinality(table') = Cardinality(table) + 1
    BY <2>1, <2>4, <2>6, FS_AddElement
  <2>9. \A s \in table' : s.id <= Cardinality(table')
    BY <2>1, <2>4, <2>5, <2>8
  <2>10. QED
    BY <2>2, <2>7, <2>9
<1>2. CASE UsePanel
  <2>1. scene = "panel" /\ UNCHANGED <<asked, scene>>
    BY <1>2 DEF UsePanel
  <2>2. ASSUME NEW level \in Levels, SetAccess(a1, p1, level)
        PROVE  Table(table') /\ \A r \in table' : r.id \in 1..MaxRuleId
    BY <2>1, <2>2, SetAccessKeeps
  <2>3. ASSUME NEW r \in table, DeleteRule(r)
        PROVE  Table(table') /\ \A s \in table' : s.id \in 1..MaxRuleId
    <3>1. table' \in SUBSET table
      BY <2>3 DEF DeleteRule
    <3>2. QED
      BY <2>1, <3>1, TablePart
  <2>4. ASSUME NEW r \in table, NEW new \in Edits(r), EditRule(r, new)
        PROVE  Table(table') /\ \A s \in table' : s.id \in 1..MaxRuleId
    <3>1. table' = (table \ {r}) \cup {new} /\ new.id = r.id
      BY <2>4 DEF EditRule
    <3>2. r \in Rule
      BY DEF Table
    <3>3. new \in Rule
      BY <3>2, EditedIsRule
    <3>4. \A s \in table \ {r} : s.id # new.id
      BY <3>1 DEF Table
    <3>5. Table(table \ {r})
      BY TablePart
    <3>6. Table(table')
      BY <3>1, <3>3, <3>4, <3>5, TableEdits
    <3>7. QED
      BY <2>1, <3>1, <3>6
  <2>5. Table(table') /\ \A r \in table' : r.id \in 1..MaxRuleId
    BY <1>2, <2>2, <2>3, <2>4 DEF UsePanel
  <2>6. QED
    BY <2>1, <2>5
<1>3. CASE UNCHANGED vars
  BY <1>3 DEF vars, Table
<1>4. QED
  BY <1>1, <1>2, <1>3 DEF Next

\* The table stays one: distinct ids that were given out (approval_rules).
LEMMA TableInvariant == Spec => []TableInv
BY InitTable, NextTable, PTL DEF Spec

\* The verdict is always the one the sorted scan computes, whatever the rules
\* and the query (_load_cache, decide).
THEOREM VerdictAlwaysScan == Spec => []VerdictIsScan
<1>1. TableInv => VerdictIsScan
  BY ScanTheorem DEF TableInv, VerdictIsScan
<1>2. QED
  BY <1>1, TableInvariant, PTL

\* Caution prevails on every table that can be reached (_outcome_rank).
THEOREM CautionAlways == Spec => []CautionPrevails
<1>1. TableInv => CautionPrevails
  BY CautionTheorem DEF TableInv, CautionPrevails
<1>2. QED
  BY <1>1, TableInvariant, PTL

\* The panel never misleads, whatever became of the rules it made
\* (_classify, set_page_agent_access).
THEOREM PanelAlwaysHolds == Spec => []PanelHolds
<1>1. TableInv => PanelHolds
  <2>1. SUFFICES ASSUME TableInv, NEW q \in PageQueries
                 PROVE  ShownLevelHolds(a1, p1, q)
    BY DEF PanelHolds
  <2>2. q.agent = a1 /\ q.page = p1
    BY DEF PageQueries
  <2>3. Table(table)
    BY <2>1 DEF TableInv
  <2>4. QED
    BY <2>2, <2>3, ShownTheorem, MCRuleEngineAssumption
<1>2. QED
  BY <1>1, TableInvariant, PTL
=============================================================================
