-------------------------- MODULE RuleEngineProofs --------------------------
(***************************************************************************)
(* What RuleEngine promises of every rule table, whatever its size: the    *)
(* sort key orders the rules totally, so a bucket's matches have a first   *)
(* member, and the verdict is that member's.                               *)
(***************************************************************************)
EXTENDS RuleEngine, WellFoundedInduction, TLAPS

\* A rule table as the database keeps it: every row has an id of its own, and
\* ids have been given out up to some number.
Table(rules) ==
  /\ rules \subseteq Rule
  /\ \A r, s \in rules : r.id = s.id => r = s
  /\ \E n \in Nat : \A r \in rules : r.id <= n

LessNat == {pair \in Nat \X Nat : pair[1] < pair[2]}

-----------------------------------------------------------------------------
\* Every inhabited set of naturals has a least member.
LEMMA NatMin ==
  ASSUME NEW T, T \subseteq Nat, T # {}
  PROVE  \E x \in T : \A y \in T : x <= y
<1>1. IsWellFoundedOn(LessNat, Nat)
  BY NatLessThanWellFounded DEF OpToRel, LessNat
<1>2. PICK x \in T : \A y \in T : ~ (<<y, x>> \in LessNat)
  BY <1>1, WFMin
<1>3. ASSUME NEW y \in T PROVE x <= y
  <2>1. x \in Nat /\ y \in Nat
    OBVIOUS
  <2>2. y < x => <<y, x>> \in LessNat
    BY <2>1 DEF LessNat
  <2>3. QED
    BY <2>1, <2>2, <1>2
<1>4. QED
  BY <1>3

\* Specificity counts five dimensions.
LEMMA SpecificityType ==
  ASSUME NEW r \in Rule
  PROVE  Specificity(r) \in 0..5
BY DEF Specificity, Score

\* The rank of an outcome is one of three numbers.
LEMMA OutcomeRankType ==
  ASSUME NEW o \in Outcomes
  PROVE  OutcomeRank(o) \in 0..2
BY DEF OutcomeRank, Outcomes

\* Outcomes of equal rank are equal.
LEMMA OutcomeRankInjective ==
  ASSUME NEW o \in Outcomes, NEW u \in Outcomes,
         OutcomeRank(o) = OutcomeRank(u)
  PROVE  o = u
BY DEF OutcomeRank, Outcomes

-----------------------------------------------------------------------------
\* The sort key never leaves two rules of a table unordered (_load_cache).
THEOREM PrecedesTotal ==
  ASSUME NEW rules, Table(rules), NEW r \in rules, NEW s \in rules, r # s
  PROVE  Precedes(r, s) \/ Precedes(s, r)
<1>1. r \in Rule /\ s \in Rule /\ r.id # s.id
  BY DEF Table
<1>2. r.id \in Nat /\ s.id \in Nat /\ r.priority \in Nat /\ s.priority \in Nat
        /\ r.outcome \in Outcomes /\ s.outcome \in Outcomes
  BY <1>1 DEF Rule
<1>3. Specificity(r) \in 0..5 /\ Specificity(s) \in 0..5
  BY <1>1, SpecificityType
<1>4. OutcomeRank(r.outcome) \in 0..2 /\ OutcomeRank(s.outcome) \in 0..2
  BY <1>2, OutcomeRankType
<1>5. OutcomeRank(r.outcome) = OutcomeRank(s.outcome) => r.outcome = s.outcome
  BY <1>2, OutcomeRankInjective
<1>6. QED
  BY <1>1, <1>2, <1>3, <1>4, <1>5 DEF Precedes

\* The sort key orders no two rules both ways.
THEOREM PrecedesAsymmetric ==
  ASSUME NEW r \in Rule, NEW s \in Rule, Precedes(r, s)
  PROVE  ~ Precedes(s, r)
<1>1. r.id \in Nat /\ s.id \in Nat /\ r.priority \in Nat /\ s.priority \in Nat
        /\ r.outcome \in Outcomes /\ s.outcome \in Outcomes
  BY DEF Rule
<1>2. Specificity(r) \in 0..5 /\ Specificity(s) \in 0..5
  BY SpecificityType
<1>3. OutcomeRank(r.outcome) \in 0..2 /\ OutcomeRank(s.outcome) \in 0..2
  BY <1>1, OutcomeRankType
<1>4. QED
  BY <1>1, <1>2, <1>3 DEF Precedes

\* An inhabited set of rules has a first member: the most specific, of those
\* the most urgent, of those the most cautious, of those the newest.
THEOREM FirstExists ==
  ASSUME NEW rules, Table(rules), NEW S, S \subseteq rules, S # {}
  PROVE  \E r \in S : IsFirst(r, S)
<1> DEFINE A == {r \in S : \A s \in S : Specificity(s) <= Specificity(r)}
           B == {r \in A : \A s \in A : r.priority <= s.priority}
           C == {r \in B : \A s \in B :
                             OutcomeRank(r.outcome) <= OutcomeRank(s.outcome)}
<1>1. ASSUME NEW s \in S
      PROVE  /\ s \in Rule /\ s.id \in Nat /\ s.priority \in Nat
             /\ s.outcome \in Outcomes
             /\ Specificity(s) \in 0..5
             /\ OutcomeRank(s.outcome) \in 0..2
  BY SpecificityType, OutcomeRankType DEF Table, Rule
<1>2. A # {}
  <2> DEFINE T == {5 - Specificity(s) : s \in S}
  <2>1. T \subseteq Nat /\ T # {}
    BY <1>1
  <2>2. PICK x \in T : \A y \in T : x <= y
    BY <2>1, NatMin
  <2>3. PICK r \in S : x = 5 - Specificity(r)
    OBVIOUS
  <2>4. ASSUME NEW s \in S PROVE Specificity(s) <= Specificity(r)
    <3>1. 5 - Specificity(r) <= 5 - Specificity(s)
      BY <2>2, <2>3
    <3>2. QED
      BY <3>1, <1>1
  <2>5. QED
    BY <2>4
<1>3. B # {}
  <2> DEFINE T == {s.priority : s \in A}
  <2>1. T \subseteq Nat /\ T # {}
    BY <1>1, <1>2
  <2>2. PICK x \in T : \A y \in T : x <= y
    BY <2>1, NatMin
  <2>3. PICK r \in A : x = r.priority
    OBVIOUS
  <2>4. QED
    BY <2>2, <2>3
<1>4. C # {}
  <2> DEFINE T == {OutcomeRank(s.outcome) : s \in B}
  <2>1. T \subseteq Nat /\ T # {}
    BY <1>1, <1>3
  <2>2. PICK x \in T : \A y \in T : x <= y
    BY <2>1, NatMin
  <2>3. PICK r \in B : x = OutcomeRank(r.outcome)
    OBVIOUS
  <2>4. QED
    BY <2>2, <2>3
<1>5. PICK r \in C : \A s \in C : s.id <= r.id
  <2>1. PICK n \in Nat : \A s \in rules : s.id <= n
    BY DEF Table
  <2> DEFINE T == {n - s.id : s \in C}
  <2>2. \A s \in C : s.id \in Nat /\ s.id <= n
    BY <1>1, <2>1
  <2>3. T \subseteq Nat /\ T # {}
    BY <1>4, <2>2
  <2>4. PICK x \in T : \A y \in T : x <= y
    BY <2>3, NatMin
  <2>5. PICK r \in C : x = n - r.id
    OBVIOUS
  <2>6. ASSUME NEW s \in C PROVE s.id <= r.id
    <3>1. n - r.id <= n - s.id
      BY <2>4, <2>5
    <3>2. QED
      BY <3>1, <2>2
  <2>7. QED
    BY <2>6
<1>6. ASSUME NEW s \in S \ {r} PROVE Precedes(r, s)
  <2>1. ~ Precedes(s, r)
    <3>1. CASE s \notin A
      <4>1. PICK u \in S : ~ (Specificity(u) <= Specificity(s))
        BY <3>1
      <4>2. Specificity(u) <= Specificity(r)
        OBVIOUS
      <4>3. QED
        BY <4>1, <4>2, <1>1 DEF Precedes
    <3>2. CASE s \in A /\ s \notin B
      <4>1. PICK u \in A : ~ (s.priority <= u.priority)
        BY <3>2
      <4>2. r.priority <= u.priority
        OBVIOUS
      <4>3. Specificity(s) <= Specificity(r) /\ Specificity(r) <= Specificity(s)
        BY <3>2
      <4>4. QED
        BY <4>1, <4>2, <4>3, <1>1 DEF Precedes
    <3>3. CASE s \in B /\ s \notin C
      <4>1. PICK u \in B : ~ (OutcomeRank(s.outcome) <= OutcomeRank(u.outcome))
        BY <3>3
      <4>2. OutcomeRank(r.outcome) <= OutcomeRank(u.outcome)
        OBVIOUS
      <4>3. Specificity(s) <= Specificity(r) /\ Specificity(r) <= Specificity(s)
        BY <3>3
      <4>4. s.priority <= r.priority /\ r.priority <= s.priority
        BY <3>3
      <4>5. QED
        BY <4>1, <4>2, <4>3, <4>4, <1>1 DEF Precedes
    <3>4. CASE s \in C
      <4>1. Specificity(s) <= Specificity(r) /\ Specificity(r) <= Specificity(s)
        BY <3>4
      <4>2. s.priority <= r.priority /\ r.priority <= s.priority
        BY <3>4
      <4>3. /\ OutcomeRank(s.outcome) <= OutcomeRank(r.outcome)
            /\ OutcomeRank(r.outcome) <= OutcomeRank(s.outcome)
        BY <3>4
      <4>4. s.id <= r.id
        BY <3>4, <1>5
      <4>5. QED
        BY <4>1, <4>2, <4>3, <4>4, <1>1 DEF Precedes
    <3>5. QED
      BY <3>1, <3>2, <3>3, <3>4
  <2>2. QED
    BY <2>1, PrecedesTotal
<1>7. QED
  BY <1>6 DEF IsFirst

\* A set of rules has no second first member: the scan's answer does not
\* depend on how the bucket was filled.
THEOREM FirstUnique ==
  ASSUME NEW S, S \subseteq Rule, NEW r \in S, NEW s \in S,
         IsFirst(r, S), IsFirst(s, S)
  PROVE  r = s
<1>1. r # s => Precedes(r, s) /\ Precedes(s, r)
  BY DEF IsFirst
<1>2. QED
  BY <1>1, PrecedesAsymmetric

-----------------------------------------------------------------------------
\* A verdict is backed: it is that of a matching rule of the query's action
\* which precedes every other match, or a prompt by no rule when there is no
\* match (engine.decide).
THEOREM DecideSound ==
  ASSUME NEW rules, Table(rules), NEW q
  PROVE  \/ /\ Candidates(rules, q) = {}
            /\ Decide(rules, q) = [outcome |-> "prompt", rule |-> Null]
         \/ \E r \in Candidates(rules, q) :
              /\ IsFirst(r, Candidates(rules, q))
              /\ Decide(rules, q) = [outcome |-> r.outcome, rule |-> r.id]
<1> DEFINE found == Candidates(rules, q)
           first == CHOOSE r \in found : IsFirst(r, found)
<1>1. CASE found = {}
  BY <1>1 DEF Decide
<1>2. CASE found # {}
  <2>1. found \subseteq rules
    BY DEF Candidates
  <2>2. \E r \in found : IsFirst(r, found)
    BY <1>2, <2>1, FirstExists
  <2>3. first \in found /\ IsFirst(first, found)
    BY <2>2
  <2>4. Decide(rules, q) = [outcome |-> first.outcome, rule |-> first.id]
    BY <1>2 DEF Decide
  <2>5. QED
    BY <2>3, <2>4
<1>3. QED
  BY <1>1, <1>2

\* On every rule table, auto_approve never wins against a match that is as
\* specific and as urgent (_outcome_rank, _load_cache, decide).
THEOREM CautionTheorem ==
  ASSUME NEW rules, Table(rules), NEW q
  PROVE  Cautious(rules, q)
<1> DEFINE verdict == Decide(rules, q)
           found == Candidates(rules, q)
<1>. SUFFICES ASSUME verdict.outcome = "auto_approve",
                     NEW w \in rules, w.id = verdict.rule,
                     NEW r \in found, r.outcome # "auto_approve",
                     Specificity(r) >= Specificity(w),
                     r.priority <= w.priority
              PROVE  FALSE
  BY DEF Cautious
<1>1. PICK v \in found : /\ IsFirst(v, found)
                        /\ verdict = [outcome |-> v.outcome, rule |-> v.id]
  BY DecideSound
<1>2. v \in rules /\ v = w
  BY <1>1 DEF Candidates, Table
<1>3. Precedes(v, r)
  BY <1>1 DEF IsFirst
<1>4. v \in Rule /\ r \in Rule
  BY DEF Candidates, Table
<1>5. v.priority \in Nat /\ r.priority \in Nat /\ r.outcome \in Outcomes
  BY <1>4 DEF Rule
<1>6. Specificity(v) \in 0..5 /\ Specificity(r) \in 0..5
  BY <1>4, SpecificityType
<1>7. v.outcome = "auto_approve"
  BY <1>1
<1>8. OutcomeRank(v.outcome) = 2 /\ OutcomeRank(r.outcome) \in {0, 1}
  BY <1>5, <1>7 DEF OutcomeRank, Outcomes
<1>9. QED
  BY <1>2, <1>3, <1>5, <1>6, <1>7, <1>8 DEF Precedes
=============================================================================
