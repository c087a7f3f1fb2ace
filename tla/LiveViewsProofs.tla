--------------------------- MODULE LiveViewsProofs --------------------------
(***************************************************************************)
(* Event delivery and what is made of it, for any topics, feeds and        *)
(* requests, and any size of rings, queue and transport: nothing is lost   *)
(* without a word but in the two holes that EventStream names, events are  *)
(* read in order and once, and the cache tells no decision that was not    *)
(* made.                                                                   *)
(***************************************************************************)
EXTENDS LiveViews, SequenceTheorems, FiniteSetTheorems, TLAPS
-----------------------------------------------------------------------------
(***************************************************************************)
(* The stream.                                                             *)
(***************************************************************************)
\* What has been published to the client, and what became of it.
LogOK ==
  /\ log \subseteq Event /\ handled \subseteq log
  /\ covered \in Nat /\ covered <= counter
  /\ \A ev \in log :
       /\ ev.topic \in Feed /\ ev.what \in Whats
       /\ ev.id >= 1 /\ ev.id <= counter
  /\ \A e, f \in log : e.id = f.id => e = f

\* A followed ring holds events of the log, in their order.
RingsOK ==
  \A t \in Feed :
    /\ \A i \in 1..Len(ring[t]) : ring[t][i] \in log /\ ring[t][i].topic = t
    /\ \A i, j \in 1..Len(ring[t]) : i < j => ring[t][i].id < ring[t][j].id

\* What a followed ring no longer holds is older than all it holds.
Kept(ev) ==
  /\ ring[ev.topic] # <<>>
  /\ ev.id < Head(ring[ev.topic]).id \/ ev \in ToSet(ring[ev.topic])
NewestKept == \A ev \in log : Kept(ev)

\* Where the stream stands, and what it can have in hand there.
StageOK ==
  /\ phase \in {"none", "asked"} => wire = <<>>
  /\ phase # "replay" => left = <<>>
  /\ phase # "live" => queue = <<>>
  /\ member => phase = "live"
  /\ \A i \in 1..Len(queue) : queue[i].what = Resync =>
       ~ member /\ i = Len(queue)

\* The ids of what is on its way grow, and are above all that was handled;
\* only a resync that opens a replay has none of its own.  It means that the
\* rings do not reach back to the beginning any more.
Numbers(s) ==
  /\ \A i, j \in 1..Len(s) : i < j => s[i].id < s[j].id
  /\ \A i \in 1..Len(s) :
       /\ s[i].id <= counter
       /\ s[i].what # Resync => s[i] \in log
       /\ s[i].id # 0 => \A e \in handled : e.id < s[i].id
       /\ s[i].id = 0 => last # Null /\ Lost(0)

\* A later resync stands for more.
Resyncs(s) ==
  /\ \A i \in 1..Len(s) : s[i].what = Resync =>
       covered <= s[i].upto /\ s[i].upto <= counter
  /\ \A i, j \in 1..Len(s) :
       (i < j /\ s[i].what = Resync /\ s[j].what = Resync) =>
         s[i].upto <= s[j].upto

\* A client that has handled more than it can say is told to start over.
Position == last # Null => Lost(last) \/ \A e \in handled : e.id <= last

StreamInv ==
  /\ LogOK /\ RingsOK /\ NewestKept /\ StageOK
  /\ Numbers(Ahead) /\ Resyncs(Ahead) /\ Position /\ NothingElseLost

\* What is told of a decision is so, and stays so.
Told(what) ==
  (what \in ApprovalNews /\ what.outcome # Null) =>
    db[what.req] = what.outcome
ViewsInv ==
  /\ \A ev \in log : Told(ev.what)
  /\ fetch # Null =>
       \A r \in Requests : fetch[r] \in Final => db[r] = fetch[r]
  /\ CachedDecisionsTrue

-----------------------------------------------------------------------------
(***************************************************************************)
(* Sorting, and the parts of a sequence.                                   *)
(***************************************************************************)
\* The number of events up to one orders a finite set of events.
LEMMA Ranked ==
  ASSUME NEW S, S \subseteq Event, IsFiniteSet(S),
         \A e, f \in S : e.id = f.id => e = f
  PROVE  \E g \in [1..Cardinality(S) -> S] :
           \A i, j \in 1..Cardinality(S) : i < j => g[i].id < g[j].id
<1> DEFINE n == Cardinality(S)
           upTo(e) == {f \in S : f.id <= e.id}
           rank == [e \in S |-> Cardinality(upTo(e))]
<1>1. n \in Nat /\ IsFiniteSet(1..n) /\ Cardinality(1..n) = n
  BY FS_CardinalityType, FS_Interval
<1>2. \A e \in S : e.id \in Nat
  BY DEF Event
<1>3. ASSUME NEW e \in S
      PROVE  /\ IsFiniteSet(upTo(e)) /\ Cardinality(upTo(e)) \in 1..n
             /\ e \in upTo(e)
  <2>1. upTo(e) \in SUBSET S /\ e \in upTo(e)
    BY <1>2
  <2>2. IsFiniteSet(upTo(e)) /\ Cardinality(upTo(e)) <= n
    BY <2>1, FS_Subset
  <2>3. Cardinality(upTo(e)) \in Nat /\ Cardinality(upTo(e)) # 0
    BY <2>1, <2>2, FS_CardinalityType, FS_EmptySet
  <2>4. QED
    BY <1>1, <2>1, <2>2, <2>3
<1>4. ASSUME NEW e \in S, NEW f \in S, e.id < f.id
      PROVE  rank[e] < rank[f]
  <2>1. upTo(e) \in SUBSET upTo(f) /\ f \notin upTo(e) /\ f \in upTo(f)
    BY <1>2, <1>4
  <2>2. IsFiniteSet(upTo(f))
    BY <1>3
  <2>3. Cardinality(upTo(e)) <= Cardinality(upTo(f))
        /\ Cardinality(upTo(f)) # Cardinality(upTo(e))
    <3>1. upTo(f) # upTo(e)
      BY <2>1
    <3> HIDE DEF upTo
    <3>2. QED
      BY <2>1, <2>2, <3>1, FS_Subset
  <2>4. Cardinality(upTo(e)) \in Nat /\ Cardinality(upTo(f)) \in Nat
    BY <1>3, FS_CardinalityType
  <2> HIDE DEF upTo
  <2>5. QED
    BY <2>3, <2>4
<1>5. rank \in Injection(S, 1..n)
  <2>1. rank \in [S -> 1..n]
    BY <1>3
  <2>2. ASSUME NEW e \in S, NEW f \in S, rank[e] = rank[f]
        PROVE  e = f
    <3>1. rank[e] \in Int /\ rank[f] \in Int
      BY <1>1, <2>1
    <3>2. ~ (e.id < f.id) /\ ~ (f.id < e.id)
      BY <1>4, <2>2, <3>1
    <3>3. QED
      BY <1>2, <3>2
  <2> HIDE DEF rank
  <2>3. QED
    BY <2>1, <2>2 DEF Injection, IsInjective
<1>6. rank \in Surjection(S, 1..n)
  BY <1>1, <1>5, FS_Injection
<1> DEFINE g == [i \in 1..n |-> CHOOSE e \in S : rank[e] = i]
<1>7. \A i \in 1..n : g[i] \in S /\ rank[g[i]] = i
  <2> HIDE DEF rank, n
  <2>1. \A i \in 1..n : \E e \in S : rank[e] = i
    BY <1>6 DEF Surjection
  <2>2. QED
    BY <2>1
<1>8. ASSUME NEW i \in 1..n, NEW j \in 1..n, i < j
      PROVE  g[i].id < g[j].id
  <2>1. g[i] \in S /\ g[j] \in S /\ rank[g[i]] = i /\ rank[g[j]] = j
    BY <1>7
  <2>2. i \in Int /\ j \in Int /\ ~ (j < i)
    BY <1>1, <1>8
  <2> HIDE DEF g
  <2>3. ~ (g[j].id < g[i].id)
    BY <1>4, <2>1, <2>2
  <2>4. g[i].id # g[j].id
    BY <1>8, <2>1, <2>2
  <2>5. QED
    BY <1>2, <2>1, <2>3, <2>4
<1>9. g \in [1..n -> S]
  BY <1>7
<1>10. QED
  BY <1>8, <1>9

\* What replay_since returns: the events asked for, each once, in their order.
LEMMA Sorted ==
  ASSUME NEW S, S \subseteq Event, IsFiniteSet(S),
         \A e, f \in S : e.id = f.id => e = f
  PROVE  /\ ById(S) \in Seq(Event)
         /\ \A i \in 1..Len(ById(S)) : ById(S)[i] \in S
         /\ \A e \in S : \E i \in 1..Len(ById(S)) : ById(S)[i] = e
         /\ \A i, j \in 1..Len(ById(S)) :
              i < j => ById(S)[i].id < ById(S)[j].id
<1> DEFINE n == Cardinality(S)
           ordered(s) == \A i, j \in DOMAIN s : i < j => s[i].id < s[j].id
<1>1. n \in Nat /\ IsFiniteSet(1..n) /\ Cardinality(1..n) = n
  BY FS_CardinalityType, FS_Interval
<1>2. \E s \in SetToSeqs(S) : ordered(s)
  <2>1. PICK g \in [1..n -> S] : \A i, j \in 1..n : i < j => g[i].id < g[j].id
    BY Ranked
  <2>2. ordered(g)
    BY <2>1
  <2>3. \A i, j \in 1..n : i # j => g[i] # g[j]
    <3>1. \A i \in 1..n : g[i].id \in Nat
      BY <2>1 DEF Event
    <3>2. QED
      BY <1>1, <2>1, <3>1
  <2>4. QED
    BY <2>1, <2>2, <2>3 DEF SetToSeqs
<1>3. ById(S) \in SetToSeqs(S) /\ ordered(ById(S))
  BY <1>2 DEF ById
<1> DEFINE s == ById(S)
<1> HIDE DEF s, n
<1>4. s \in [1..n -> S] /\ \A i, j \in 1..n : i # j => s[i] # s[j]
  BY <1>3 DEF SetToSeqs, s, n
<1>5. s \in Seq(Event) /\ Len(s) = n
  <2>1. s \in Seq(S)
    BY <1>1, <1>4
  <2>2. QED
    BY <1>1, <1>4, <2>1, SeqMonotonic
<1>6. s \in Injection(1..n, S)
  BY <1>4 DEF Injection, IsInjective
<1>7. s \in Surjection(1..n, S)
  BY <1>1, <1>6, FS_Injection DEF n
<1>8. \A e \in S : \E i \in 1..n : s[i] = e
  BY <1>7 DEF Surjection
<1>9. QED
  BY <1>3, <1>4, <1>5, <1>8 DEF s

\* Moving the head of one sequence to the end of the one before it.
LEMMA Shift ==
  ASSUME NEW s \in Seq(Event), NEW t \in Seq(Event), t # <<>>
  PROVE  Append(s, Head(t)) \o Tail(t) = s \o t
<1> DEFINE u == Append(s, Head(t)) \o Tail(t)
<1>1. /\ Head(t) \in Event /\ Head(t) = t[1] /\ Tail(t) \in Seq(Event)
      /\ Len(Tail(t)) = Len(t) - 1 /\ Len(t) \in Nat \ {0}
      /\ \A i \in 1..Len(Tail(t)) : Tail(t)[i] = t[i + 1]
  BY HeadTailProperties, EmptySeq
<1>2. /\ Append(s, Head(t)) \in Seq(Event)
      /\ Len(Append(s, Head(t))) = Len(s) + 1 /\ Len(s) \in Nat
      /\ \A i \in 1..Len(s) : Append(s, Head(t))[i] = s[i]
      /\ Append(s, Head(t))[Len(s) + 1] = t[1]
  BY <1>1
<1>3. /\ u \in Seq(Event) /\ Len(u) = Len(s) + Len(t)
      /\ \A i \in 1..(Len(s) + Len(t)) :
           u[i] = IF i <= Len(s) + 1 THEN Append(s, Head(t))[i]
                  ELSE Tail(t)[i - (Len(s) + 1)]
  BY <1>1, <1>2, ConcatProperties
<1>4. /\ s \o t \in Seq(Event) /\ Len(s \o t) = Len(s) + Len(t)
      /\ \A i \in 1..(Len(s) + Len(t)) :
           (s \o t)[i] = IF i <= Len(s) THEN s[i] ELSE t[i - Len(s)]
  BY ConcatProperties
<1> HIDE DEF u
<1>5. ASSUME NEW i \in 1..Len(u) PROVE u[i] = (s \o t)[i]
  <2>1. CASE i <= Len(s)
    BY <1>2, <1>3, <1>4, <2>1
  <2>2. CASE i = Len(s) + 1
    BY <1>1, <1>2, <1>3, <1>4, <2>2
  <2>3. CASE i > Len(s) + 1
    <3>1. i - (Len(s) + 1) \in 1..Len(Tail(t))
      BY <1>1, <1>2, <1>3, <2>3
    <3>2. u[i] = t[i - (Len(s) + 1) + 1]
      BY <1>1, <1>2, <1>3, <2>3, <3>1
    <3>3. i - (Len(s) + 1) + 1 = i - Len(s) /\ ~ (i <= Len(s))
      BY <1>2, <1>3, <2>3
    <3>4. (s \o t)[i] = t[i - Len(s)]
      BY <1>3, <1>4, <3>3
    <3>5. QED
      BY <3>2, <3>3, <3>4
  <2>4. QED
    BY <1>1, <1>2, <1>3, <2>1, <2>2, <2>3
<1>6. QED
  BY <1>3, <1>4, <1>5, SeqEqual DEF u

\* Taking the head of the first of two sequences.
LEMMA Behead ==
  ASSUME NEW s \in Seq(Event), NEW t \in Seq(Event), s # <<>>
  PROVE  /\ Tail(s) \o t = Tail(s \o t) /\ s \o t # <<>>
         /\ Head(s) = (s \o t)[1]
<1>1. /\ Head(s) \in Event /\ Head(s) = s[1] /\ Tail(s) \in Seq(Event)
      /\ Len(Tail(s)) = Len(s) - 1 /\ Len(s) \in Nat \ {0}
      /\ \A i \in 1..Len(Tail(s)) : Tail(s)[i] = s[i + 1]
  BY HeadTailProperties, EmptySeq
<1>2. /\ s \o t \in Seq(Event) /\ Len(s \o t) = Len(s) + Len(t)
      /\ \A i \in 1..(Len(s) + Len(t)) :
           (s \o t)[i] = IF i <= Len(s) THEN s[i] ELSE t[i - Len(s)]
      /\ Len(t) \in Nat
  BY ConcatProperties
<1>3. s \o t # <<>> /\ Head(s) = (s \o t)[1]
  BY <1>1, <1>2
<1>4. /\ Tail(s \o t) \in Seq(Event) /\ Len(Tail(s \o t)) = Len(s) + Len(t) - 1
      /\ \A i \in 1..(Len(s) + Len(t) - 1) : Tail(s \o t)[i] = (s \o t)[i + 1]
  BY <1>2, <1>3, HeadTailProperties
<1>5. /\ Tail(s) \o t \in Seq(Event)
      /\ Len(Tail(s) \o t) = Len(s) - 1 + Len(t)
      /\ \A i \in 1..(Len(s) - 1 + Len(t)) :
           (Tail(s) \o t)[i] = IF i <= Len(s) - 1 THEN Tail(s)[i]
                               ELSE t[i - (Len(s) - 1)]
  BY <1>1, ConcatProperties
<1>6. ASSUME NEW i \in 1..Len(Tail(s) \o t)
      PROVE  (Tail(s) \o t)[i] = Tail(s \o t)[i]
  <2>1. i \in 1..(Len(s) - 1 + Len(t)) /\ i + 1 \in 1..(Len(s) + Len(t))
    BY <1>1, <1>2, <1>5
  <2>2. CASE i <= Len(s) - 1
    BY <1>1, <1>2, <1>4, <1>5, <2>1, <2>2
  <2>3. CASE ~ (i <= Len(s) - 1)
    <3>1. Tail(s \o t)[i] = t[i + 1 - Len(s)]
      BY <1>1, <1>2, <1>4, <2>1, <2>3
    <3>2. (Tail(s) \o t)[i] = t[i - (Len(s) - 1)]
      BY <1>5, <2>1, <2>3
    <3>3. i + 1 - Len(s) = i - (Len(s) - 1)
      BY <1>1, <2>1
    <3>4. QED
      BY <3>1, <3>2, <3>3
  <2>4. QED
    BY <2>2, <2>3
<1>7. Len(Tail(s) \o t) = Len(Tail(s \o t))
  BY <1>1, <1>2, <1>4, <1>5
<1>8. QED
  BY <1>3, <1>4, <1>5, <1>6, <1>7, SeqEqual

\* Appending to the last of two sequences.
LEMMA Extended ==
  ASSUME NEW s \in Seq(Event), NEW t \in Seq(Event), NEW e \in Event
  PROVE  s \o Append(t, e) = Append(s \o t, e)
<1>1. /\ Append(t, e) \in Seq(Event) /\ Len(Append(t, e)) = Len(t) + 1
      /\ \A i \in 1..Len(t) : Append(t, e)[i] = t[i]
      /\ Append(t, e)[Len(t) + 1] = e
      /\ Len(s) \in Nat /\ Len(t) \in Nat
  OBVIOUS
<1>2. /\ s \o t \in Seq(Event) /\ Len(s \o t) = Len(s) + Len(t)
      /\ \A i \in 1..(Len(s) + Len(t)) :
           (s \o t)[i] = IF i <= Len(s) THEN s[i] ELSE t[i - Len(s)]
  BY ConcatProperties
<1>3. /\ Append(s \o t, e) \in Seq(Event)
      /\ Len(Append(s \o t, e)) = Len(s) + Len(t) + 1
      /\ \A i \in 1..(Len(s) + Len(t)) : Append(s \o t, e)[i] = (s \o t)[i]
      /\ Append(s \o t, e)[Len(s) + Len(t) + 1] = e
  BY <1>2
<1>4. /\ s \o Append(t, e) \in Seq(Event)
      /\ Len(s \o Append(t, e)) = Len(s) + (Len(t) + 1)
      /\ \A i \in 1..(Len(s) + (Len(t) + 1)) :
           (s \o Append(t, e))[i] = IF i <= Len(s) THEN s[i]
                                    ELSE Append(t, e)[i - Len(s)]
  BY <1>1, ConcatProperties
<1>5. ASSUME NEW i \in 1..Len(s \o Append(t, e))
      PROVE  (s \o Append(t, e))[i] = Append(s \o t, e)[i]
  <2>1. CASE i <= Len(s)
    BY <1>1, <1>2, <1>3, <1>4, <2>1
  <2>2. CASE i > Len(s) /\ i <= Len(s) + Len(t)
    <3>1. i - Len(s) \in 1..Len(t) /\ i \in 1..(Len(s) + Len(t))
      BY <1>1, <1>4, <2>2
    <3>2. QED
      BY <1>1, <1>2, <1>3, <1>4, <2>2, <3>1
  <2>3. CASE i > Len(s) + Len(t)
    <3>1. i - Len(s) = Len(t) + 1 /\ i = Len(s) + Len(t) + 1 /\ ~ (i <= Len(s))
      BY <1>1, <1>4, <2>3
    <3>2. QED
      BY <1>1, <1>3, <1>4, <3>1
  <2>4. QED
    BY <1>1, <1>4, <2>1, <2>2, <2>3
<1>6. QED
  BY <1>1, <1>3, <1>4, <1>5, SeqEqual

-----------------------------------------------------------------------------
(***************************************************************************)
(* What the steps do to what is on its way.                                *)
(***************************************************************************)
\* The part of TypeOK that speaks of the stream.
Typed ==
  /\ client \in Clients /\ counter \in Nat
  /\ ring \in [Topics -> Seq(Event)]
  /\ member \in BOOLEAN
  /\ queue \in Seq(Event) /\ left \in Seq(Event) /\ wire \in Seq(Event)
  /\ phase \in {"none", "asked", "replay", "live", "over"}
  /\ last \in Nat \cup {Null}

\* What a subscriber follows are topics (event_pages of mcp/app/event_stream.py
\* and the topics of the SSE endpoints).
LEMMA FeedOfTopics ==
  ASSUME client \in Clients
  PROVE  Feed \subseteq Topics /\ Approvals \in Feed
BY BusAssumption, ViewsAssumption DEF Feed

\* What is on its way, as one sequence: transport, replay and queue.
LEMMA AheadIs ==
  ASSUME Typed
  PROVE  /\ Ahead \in Seq(Event) /\ Ahead = wire \o (left \o queue)
         /\ left = <<>> => Ahead = wire \o queue
         /\ left = <<>> /\ queue = <<>> => Ahead = wire
         /\ wire = <<>> /\ queue = <<>> => Ahead = left
<1>1. wire \in Seq(Event) /\ left \in Seq(Event) /\ queue \in Seq(Event)
  BY DEF Typed
<1>2. wire \o left \in Seq(Event) /\ (wire \o left) \o queue \in Seq(Event)
  BY <1>1, ConcatProperties
<1>3. (wire \o left) \o queue = wire \o (left \o queue)
  BY <1>1, ConcatAssociative
<1>4. wire \o <<>> = wire /\ <<>> \o left = left /\ left \o <<>> = left
  BY <1>1, ConcatEmptySeq
<1>5. QED
  BY <1>2, <1>3, <1>4 DEF Ahead

\* Replaying, subscribing and forwarding hand things on.
LEMMA HandedOn ==
  ASSUME Typed, Typed', StageOK, Replay \/ Subscribe \/ Forward
  PROVE  Ahead' = Ahead
<1>1. wire \in Seq(Event) /\ left \in Seq(Event) /\ queue \in Seq(Event)
  BY DEF Typed
<1>2. CASE Replay
  <2>1. Append(wire, Head(left)) \o Tail(left) = wire \o left
    BY <1>1, <1>2, Shift DEF Replay
  <2>2. QED
    BY <1>2, <2>1 DEF Replay, busVars, Ahead
<1>3. CASE Subscribe
  BY <1>3 DEF Subscribe, Ahead
<1>4. CASE Forward
  <2>1. Append(wire, Head(queue)) \o Tail(queue) = wire \o queue
    BY <1>1, <1>4, Shift DEF Forward
  <2>2. left = <<>> /\ left' = <<>>
    BY <1>4 DEF Forward, StageOK
  <2>3. Ahead = wire \o queue /\ Ahead' = wire' \o queue'
    <3>1. Ahead = wire \o queue
      BY <2>2, AheadIs
    <3>2. wire' \o <<>> = wire'
      BY ConcatEmptySeq DEF Typed
    <3>3. QED
      BY <2>2, <3>1, <3>2 DEF Ahead
  <2>4. QED
    BY <1>4, <2>1, <2>3 DEF Forward
<1>5. QED
  BY <1>2, <1>3, <1>4

\* The client reads what is next.
LEMMA TakeIsHead ==
  ASSUME Typed, NEW ev, Take(ev)
  PROVE  Ahead # <<>> /\ ev = Ahead[1] /\ Ahead' = Tail(Ahead)
<1> DEFINE rest == left \o queue
<1>1. wire \in Seq(Event) /\ rest \in Seq(Event)
  BY ConcatProperties DEF Typed
<1>2. wire # <<>> /\ ev = Head(wire) /\ wire' = Tail(wire)
      /\ left' = left /\ queue' = queue
  BY DEF Take, busVars
<1>3. Ahead = wire \o rest
  BY AheadIs
<1>4. Ahead' = Tail(wire) \o rest
  <2>1. Tail(wire) \in Seq(Event) /\ left \in Seq(Event) /\ queue \in Seq(Event)
    BY <1>1, <1>2, HeadTailProperties DEF Typed
  <2>2. (Tail(wire) \o left) \o queue = Tail(wire) \o (left \o queue)
    BY <2>1, ConcatAssociative
  <2>3. QED
    BY <1>2, <2>2 DEF Ahead
<1> HIDE DEF rest
<1>5. QED
  BY <1>1, <1>2, <1>3, <1>4, Behead

\* The oldest of the queue has gone, and a resync is at the end.
Overflown(ev) ==
  LET n == Len(Ahead)
  IN  /\ n # 0 /\ Len(Ahead') = n /\ Ahead' \in Seq(Event)
      /\ Ahead'[n] = StartOver(ev.id + 1, ev.topic, ev.id)
      /\ \E k \in 1..n : \A i \in 1..(n - 1) :
           Ahead'[i] = Ahead[IF i < k THEN i ELSE i + 1]

\* An event is published beside the subscription, into it, or over it.
LEMMA Published ==
  ASSUME Typed, StageOK, NEW t \in Topics, NEW w \in Whats, Announce(t, w)
  PROVE  LET ev == News(counter + 1, t, w)
         IN  \/ /\ Ahead' = Ahead /\ counter' = counter + 1
                /\ UNCHANGED <<member, queue>>
                /\ ~ member \/ t \notin Feed
             \/ /\ Ahead' = Append(Ahead, ev) /\ counter' = counter + 1
                /\ queue' = Append(queue, ev)
                /\ member /\ UNCHANGED member /\ t \in Feed
             \/ /\ Overflown(ev) /\ counter' = counter + 2
                /\ queue' = Append(Tail(queue), StartOver(ev.id + 1, t, ev.id))
                /\ queue # <<>> /\ member /\ member' = FALSE /\ t \in Feed
<1> DEFINE ev == News(counter + 1, t, w)
           over == StartOver(ev.id + 1, t, ev.id)
<1>1. /\ ev \in Event /\ over \in Event
      /\ ev.id = counter + 1 /\ ev.topic = t
  BY DEF News, StartOver, Event, Typed
<1>2. /\ wire \in Seq(Event) /\ queue \in Seq(Event) /\ counter \in Nat
      /\ left' = left /\ wire' = wire
  BY DEF Typed, Announce
<1>3. Publish(ev)
  BY DEF Announce
<1> HIDE DEF ev
<1>4. CASE (~ member \/ t \notin Feed) /\ counter' = ev.id
             /\ UNCHANGED <<member, queue>>
  BY <1>1, <1>2, <1>4 DEF Ahead, ev
<1>5. CASE /\ member /\ t \in Feed /\ queue' = Append(queue, ev)
           /\ counter' = ev.id /\ UNCHANGED member
  <2>1. left = <<>>
    BY <1>5 DEF StageOK
  <2>2. Ahead = wire \o queue
    BY <2>1, AheadIs
  <2>3. Ahead' = wire \o Append(queue, ev)
    <3>1. wire \o <<>> = wire
      BY <1>2, ConcatEmptySeq
    <3>2. QED
      BY <1>2, <1>5, <2>1, <3>1 DEF Ahead
  <2>4. QED
    BY <1>1, <1>2, <1>5, <2>2, <2>3, Extended DEF ev
<1>6. CASE member /\ t \in Feed /\ Len(queue) = QueueMax /\ Overflow(ev)
  <2>1. left = <<>>
    BY <1>6 DEF StageOK
  <2>2. queue # <<>>
    BY <1>2, <1>6, BusAssumption
  <2>3. Tail(queue) \in Seq(Event) /\ Len(Tail(queue)) = Len(queue) - 1
        /\ \A i \in 1..Len(Tail(queue)) : Tail(queue)[i] = queue[i + 1]
        /\ Len(queue) \in Nat \ {0} /\ Len(wire) \in Nat
    BY <1>2, <2>2, HeadTailProperties, EmptySeq
  <2>4. Ahead = wire \o queue /\ Ahead \in Seq(Event)
    BY <2>1, AheadIs
  <2>5. queue' = Append(Tail(queue), over) /\ counter' = ev.id + 1
        /\ member' = FALSE
    BY <1>1, <1>6 DEF Overflow
  <2> HIDE DEF over
  <2>6. Ahead' = Append(wire \o Tail(queue), over)
    <3>1. wire \o <<>> = wire
      BY <1>2, ConcatEmptySeq
    <3>2. Ahead' = wire \o Append(Tail(queue), over)
      BY <1>2, <2>1, <2>5, <3>1 DEF Ahead
    <3>3. QED
      BY <1>1, <1>2, <2>3, <3>2, Extended
  <2> DEFINE trunk == wire \o Tail(queue)
             n == Len(wire) + Len(queue)
  <2>7. /\ trunk \in Seq(Event) /\ Len(trunk) = n - 1
        /\ \A i \in 1..(n - 1) :
             trunk[i] = IF i <= Len(wire) THEN wire[i]
                        ELSE Tail(queue)[i - Len(wire)]
    <3>1. /\ trunk \in Seq(Event)
          /\ Len(trunk) = Len(wire) + Len(Tail(queue))
          /\ \A i \in 1..(Len(wire) + Len(Tail(queue))) :
               trunk[i] = IF i <= Len(wire) THEN wire[i]
                          ELSE Tail(queue)[i - Len(wire)]
      BY <1>2, <2>3, ConcatProperties
    <3>2. Len(wire) + Len(Tail(queue)) = n - 1
      BY <2>3
    <3>3. QED
      BY <3>1, <3>2
  <2>8. /\ Len(Ahead) = n
        /\ \A i \in 1..n :
             Ahead[i] = IF i <= Len(wire) THEN wire[i] ELSE queue[i - Len(wire)]
    BY <1>2, <2>4, ConcatProperties
  <2>9. n \in Nat \ {0}
    BY <2>3
  <2> HIDE DEF trunk
  <2>10. /\ Ahead' \in Seq(Event) /\ Len(Ahead') = n
         /\ \A i \in 1..(n - 1) : Ahead'[i] = trunk[i]
         /\ Ahead'[n] = over
    BY <1>1, <2>6, <2>7, <2>9 DEF trunk
  <2>11. ASSUME NEW i \in 1..(n - 1)
         PROVE  Ahead'[i] = Ahead[IF i < Len(wire) + 1 THEN i ELSE i + 1]
    <3>1. Ahead'[i] = trunk[i] /\ i \in 1..n /\ i + 1 \in 1..n
      BY <2>9, <2>10
    <3>2. CASE i <= Len(wire)
      BY <2>3, <2>7, <2>8, <3>1, <3>2
    <3>3. CASE ~ (i <= Len(wire))
      <4>1. i - Len(wire) \in 1..Len(Tail(queue)) /\ ~ (i + 1 <= Len(wire))
        BY <2>3, <3>3
      <4>2. trunk[i] = queue[i - Len(wire) + 1]
        BY <2>3, <2>7, <3>3, <4>1
      <4>3. Ahead[i + 1] = queue[i + 1 - Len(wire)]
        BY <2>8, <3>1, <4>1
      <4>4. i + 1 - Len(wire) = i - Len(wire) + 1 /\ ~ (i < Len(wire) + 1)
        BY <2>3, <3>3
      <4>5. QED
        BY <3>1, <4>2, <4>3, <4>4
    <3>4. QED
      BY <3>2, <3>3
  <2>12. Len(wire) + 1 \in 1..n
    BY <2>3
  <2> HIDE DEF n
  <2>13. Overflown(ev)
    BY <1>1, <2>8, <2>9, <2>10, <2>11, <2>12 DEF Overflown, over
  <2>14. counter' = counter + 2
    BY <1>1, <1>2, <2>5
  <2>15. QED
    BY <1>6, <2>2, <2>5, <2>13, <2>14 DEF over, ev
<1>7. QED
  BY <1>1, <1>3, <1>4, <1>5, <1>6 DEF Publish

-----------------------------------------------------------------------------
(***************************************************************************)
(* The log and the rings.                                                  *)
(***************************************************************************)
\* An event of the log is what publish made.
LEMMA LogFacts ==
  ASSUME Typed, LogOK, NEW ev \in log
  PROVE  /\ ev \in Event /\ ev.id \in Nat /\ ev.what # Resync
         /\ ev.topic \in Topics
BY FeedOfTopics, BusAssumption DEF LogOK, Event, Typed

\* What is asked for from the rings: of the log, and so finite, and no two of
\* one id.
LEMMA LogFinite ==
  ASSUME Typed, LogOK, NEW S, S \subseteq log
  PROVE  IsFiniteSet(S) /\ S \subseteq Event
         /\ \A e, f \in S : e.id = f.id => e = f
<1>1. S \subseteq Event /\ \A e, f \in S : e.id = f.id => e = f
  BY DEF LogOK
<1>2. IsFiniteSet(S)
  <2> DEFINE number == [e \in S |-> e.id]
  <2>1. number \in [S -> 1..counter]
    BY DEF LogOK, Event, Typed
  <2>2. \A e, f \in S : number[e] = number[f] => e = f
    BY <1>1
  <2> HIDE DEF number
  <2>3. number \in Injection(S, 1..counter)
    BY <2>1, <2>2 DEF Injection, IsInjective
  <2>4. IsFiniteSet(1..counter)
    BY FS_Interval DEF Typed
  <2>5. QED
    BY <2>3, <2>4, FS_Injection
<1>3. QED
  BY <1>1, <1>2

\* What a replay consists of (replay_since).
LEMMA Replayed ==
  ASSUME Typed, LogOK, RingsOK, last # Null
  PROVE  /\ Newer(last) \in Seq(Event)
         /\ \A i \in 1..Len(Newer(last)) :
              Newer(last)[i] \in log /\ Newer(last)[i].id > last
         /\ \A i, j \in 1..Len(Newer(last)) :
              i < j => Newer(last)[i].id < Newer(last)[j].id
         /\ \A ev \in log : (Kept(ev) /\ ev.id > last /\ ~ Lost(last)) =>
              \E i \in 1..Len(Newer(last)) : Newer(last)[i] = ev
<1> DEFINE S == {ev \in UNION {ToSet(ring[t]) : t \in Feed} : ev.id > last}
<1>1. \A ev \in S : ev \in log /\ ev.id > last
  <2>1. ASSUME NEW t \in Feed, NEW ev \in ToSet(ring[t]) PROVE ev \in log
    <3>1. ring[t] \in Seq(Event)
      BY FeedOfTopics DEF Typed
    <3>2. PICK i \in 1..Len(ring[t]) : ev = ring[t][i]
      BY <3>1 DEF ToSet
    <3>3. QED
      BY <3>2 DEF RingsOK
  <2>2. QED
    BY <2>1
<1>2. Newer(last) = ById(S)
  BY DEF Newer
<1>3. \A ev \in log : (Kept(ev) /\ ev.id > last /\ ~ Lost(last)) => ev \in S
  <2>1. ASSUME NEW ev \in log, Kept(ev), ev.id > last, ~ Lost(last)
        PROVE  ev \in ToSet(ring[ev.topic]) /\ ev.topic \in Feed
    <3>1. ev.topic \in Feed /\ ring[ev.topic] # <<>>
      BY <2>1 DEF LogOK, Kept
    <3>2. Head(ring[ev.topic]) \in Event
      BY <3>1, FeedOfTopics, HeadTailProperties DEF Typed
    <3>3. ~ (last < Head(ring[ev.topic]).id - 1)
      BY <2>1, <3>1 DEF Lost
    <3>4. last \in Nat /\ ev.id \in Nat /\ Head(ring[ev.topic]).id \in Nat
      BY <3>2, LogFacts DEF Typed, Event
    <3>5. ~ (ev.id < Head(ring[ev.topic]).id)
      BY <2>1, <3>3, <3>4
    <3>6. QED
      BY <2>1, <3>1, <3>5 DEF Kept
  <2>2. QED
    BY <2>1
<1> HIDE DEF S
<1>4. S \subseteq log
  BY <1>1
<1>5. /\ IsFiniteSet(S) /\ S \subseteq Event
      /\ \A e, f \in S : e.id = f.id => e = f
  BY <1>4, LogFinite
<1>6. /\ ById(S) \in Seq(Event)
      /\ \A i \in 1..Len(ById(S)) : ById(S)[i] \in S
      /\ \A e \in S : \E i \in 1..Len(ById(S)) : ById(S)[i] = e
      /\ \A i, j \in 1..Len(ById(S)) :
           i < j => ById(S)[i].id < ById(S)[j].id
  BY <1>5, Sorted
<1>7. QED
  BY <1>1, <1>2, <1>3, <1>6

\* Publishing adds one event at the end of its ring, and drops some at the
\* beginning (_trim).
LEMMA RingGrows ==
  ASSUME Typed, NEW t \in Topics, NEW w \in Whats, Announce(t, w)
  PROVE  LET ev == News(counter + 1, t, w)
             n == Len(ring[t])
         IN  /\ ev \in Event /\ ev.id = counter + 1 /\ ev.topic = t
             /\ ev.what = w /\ ev.what # Resync /\ n \in Nat
             /\ \A u \in Topics : ring'[u] \in Seq(Event)
             /\ \A u \in Topics \ {t} : ring'[u] = ring[u]
             /\ Len(ring'[t]) <= RingMax
             /\ \E k \in 1..(n + 1) :
                  /\ Len(ring'[t]) = n + 2 - k
                  /\ \A i \in 1..(n + 2 - k) :
                       ring'[t][i] = IF i + k - 1 = n + 1 THEN ev
                                     ELSE ring[t][i + k - 1]
<1> DEFINE ev == News(counter + 1, t, w)
           all == Append(ring[t], ev)
           n == Len(ring[t])
<1>1. /\ ev \in Event /\ ev.id = counter + 1 /\ ev.topic = t /\ ev.what = w
      /\ ev.what # Resync
  BY BusAssumption DEF News, Event, Typed
<1>2. Publish(ev) /\ ring[t] \in Seq(Event)
  BY DEF Announce, Typed
<1> HIDE DEF ev
<1>3. /\ all \in Seq(Event) /\ Len(all) = n + 1 /\ n \in Nat
      /\ \A i \in 1..n : all[i] = ring[t][i]
      /\ all[n + 1] = ev
  BY <1>1, <1>2
<1>4. PICK kept \in Trimmed(all) : ring' = [ring EXCEPT ![t] = kept]
  BY <1>1, <1>2 DEF Publish
<1> HIDE DEF all
<1>5. PICK k \in 1..Len(all) :
        kept = SubSeq(all, k, Len(all)) /\ Len(all) - k < RingMax
  BY <1>4 DEF Trimmed
<1>6. \A i \in k..(n + 1) : all[i] \in Event
  BY <1>3, <1>5
<1>7. /\ kept \in Seq(Event)
      /\ Len(kept) = IF k <= n + 1 THEN n + 1 - k + 1 ELSE 0
      /\ \A i \in 1..(n + 1 - k + 1) : kept[i] = all[k + i - 1]
  <2>1. k \in Int /\ n + 1 \in Int
    BY <1>3, <1>5
  <2> HIDE DEF n
  <2>2. QED
    BY <1>3, <1>5, <1>6, <2>1, SubSeqProperties
<1>8. Len(kept) = n + 2 - k /\ Len(kept) <= RingMax /\ k \in 1..(n + 1)
  BY <1>3, <1>5, <1>7, BusAssumption
<1>9. \A i \in 1..(n + 2 - k) :
        kept[i] = IF i + k - 1 = n + 1 THEN ev ELSE ring[t][i + k - 1]
  <2>1. ASSUME NEW i \in 1..(n + 2 - k)
        PROVE  kept[i] = IF i + k - 1 = n + 1 THEN ev ELSE ring[t][i + k - 1]
    <3>1. i \in 1..(n + 1 - k + 1) /\ k + i - 1 = i + k - 1
          /\ i + k - 1 \in 1..(n + 1)
      BY <1>3, <1>8
    <3>2. kept[i] = all[i + k - 1]
      BY <1>7, <3>1
    <3>3. QED
      BY <1>3, <3>1, <3>2
  <2>2. QED
    BY <2>1
<1>10. /\ ring'[t] = kept
       /\ \A u \in Topics \ {t} : ring'[u] = ring[u]
  BY <1>4 DEF Typed
<1>11. \A u \in Topics : ring'[u] \in Seq(Event)
  BY <1>7, <1>10 DEF Typed
<1> HIDE DEF n
<1>12. QED
  BY <1>1, <1>3, <1>8, <1>9, <1>10, <1>11 DEF ev, n

-----------------------------------------------------------------------------
(***************************************************************************)
(* The steps of the stream.                                                *)
(***************************************************************************)
\* Every step of the views is one of the stream, or none.
LEMMA StreamMoves ==
  ASSUME TypeOK, [Next]_vars
  PROVE  \/ UNCHANGED <<busVars, streamVars>>
         \/ Begin \/ Replay \/ Subscribe \/ Forward \/ Eof \/ Cut \/ Connect
         \/ Forget \/ Restart \/ \E ev : Take(ev)
         \/ \E t \in Topics, w \in Whats : Announce(t, w)
<1>1. /\ Approvals \in Topics /\ Elsewhere \in Whats
      /\ \A r \in Requests, o \in Final \cup {Null} : About(r, o) \in Whats
  BY ViewsAssumption DEF ApprovalNews
<1>2. CASE UNCHANGED vars
  BY <1>2 DEF vars
<1>3. CASE Pipeline
  BY <1>1, <1>3 DEF Pipeline, Propose, ArriveDecided, Decide, DecideSilently,
                    Happen
<1>4. CASE CacheStep
  BY <1>4 DEF CacheStep, RestartMcp, ReadAsCache, Ask, Merge, NotePending
<1>5. CASE TabStep
  <2>1. CASE \E s \in Final : Submit(s)
    <3>1. PICK s \in Final : Submit(s)
      BY <2>1
    <3>2. CASE UNCHANGED <<busVars, streamVars>>
      BY <3>2
    <3>3. CASE Waits(mine.req) /\ Announce(Approvals, About(mine.req, s))
      <4>1. mine.req \in Requests
        BY <3>1 DEF Submit, TypeOK
      <4>2. QED
        BY <1>1, <3>3, <4>1
    <3>4. QED
      BY <3>1, <3>2, <3>3 DEF Submit
  <2>2. QED
    BY <1>5, <2>1 DEF TabStep, Reopen, ReadAsTab, Revisit, CountOnServer,
                      ShowCount, Undo, Answered, DecideHere
<1>6. CASE StreamStep
  BY <1>6 DEF StreamStep
<1>7. QED
  BY <1>2, <1>3, <1>4, <1>5, <1>6 DEF Next

\* Steps that publish nothing, and give the client nothing.
Calm == UNCHANGED <<client, counter, ring, log, handled, covered>>

LEMMA CalmSteps ==
  ASSUME \/ UNCHANGED <<busVars, streamVars>>
         \/ Begin \/ Replay \/ Subscribe \/ Forward \/ Eof \/ Cut \/ Connect
         \/ Forget
  PROVE  Calm
BY DEF Calm, busVars, streamVars, Begin, Replay, Subscribe, Forward, Eof, Cut,
       Connect, Forget

\* No step changes the kind of subscriber.
LEMMA SameFeed ==
  ASSUME \/ Calm \/ Restart \/ \E ev : Take(ev)
         \/ \E t \in Topics, w \in Whats : Announce(t, w)
  PROVE  client' = client /\ Feed' = Feed
BY DEF Calm, Restart, Take, Announce, Publish, Feed, busVars

\* The connection is closed, and what was on its way is gone.
LEMMA Closed ==
  ASSUME Eof \/ Cut \/ Forget \/ Restart
  PROVE  /\ phase' = "none" /\ Ahead' = <<>>
         /\ wire' = <<>> /\ left' = <<>> /\ queue' = <<>> /\ member' = FALSE
<1>1. NoStream
  BY DEF Eof, Cut, Forget, Restart
<1>2. Ahead' = (<<>> \o <<>>) \o <<>>
  BY <1>1 DEF NoStream, Ahead
<1>3. <<>> \o <<>> = <<>>
  BY ConcatEmptySeq, EmptySeq
<1>4. QED
  BY <1>1, <1>2, <1>3 DEF NoStream

\* A request is there, and nothing is on its way to the client.
LEMMA Silent ==
  ASSUME Typed, StageOK, phase \in {"none", "asked"}
  PROVE  Ahead = <<>> /\ ~ member
<1>1. wire = <<>> /\ left = <<>> /\ queue = <<>> /\ ~ member
  BY DEF StageOK, Typed
<1>2. QED
  BY <1>1, AheadIs

\* The four answers to a request.
LEMMA Begun ==
  ASSUME Typed, StageOK, LogOK, RingsOK, Begin
  PROVE  /\ Calm /\ last' = last /\ Ahead = <<>> /\ ~ member
         /\ phase' \in {"replay", "live"} /\ wire' = <<>> /\ queue' = <<>>
         /\ \/ /\ last = Null /\ Ahead' = <<>> /\ left' = <<>>
               /\ blind' = blind \cup (log \ handled)
            \/ /\ last # Null /\ Lost(last) /\ left' = Ahead'
               /\ Ahead' = <<StartOver(0, AnyTopic, counter)>>
               /\ phase' = "replay" /\ ~ member'
            \/ /\ last # Null /\ ~ Lost(last) /\ left' = Ahead'
               /\ Ahead' = Newer(last)
               /\ blind' = blind \cup {ev \in log \ handled : ev.id <= last}
               /\ (phase' = "replay" /\ ~ member') \/ Ahead' = <<>>
<1>1. phase = "asked" /\ queue' = <<>> /\ wire' = wire /\ last' = last
  BY DEF Begin
<1>2. Ahead = <<>> /\ ~ member /\ wire = <<>> /\ left = <<>>
  BY <1>1, Silent DEF StageOK
<1>3. ASSUME left' \in Seq(Event) PROVE Ahead' = left'
  <2>1. <<>> \o left' = left' /\ left' \o <<>> = left'
    BY <1>3, ConcatEmptySeq
  <2>2. QED
    BY <1>1, <1>2, <2>1 DEF Ahead
<1>4. /\ <<>> \in Seq(Event)
      /\ <<StartOver(0, AnyTopic, counter)>> \in Seq(Event)
      /\ last # Null => Newer(last) \in Seq(Event)
  <2>1. StartOver(0, AnyTopic, counter) \in Event
    BY DEF StartOver, Event, Typed
  <2>2. QED
    BY <2>1, Replayed
<1>5. Calm
  BY CalmSteps
<1>6. \/ /\ last = Null /\ left' = <<>> /\ phase' = "live"
         /\ blind' = blind \cup (log \ handled)
      \/ /\ last # Null /\ Lost(last) /\ phase' = "replay" /\ member' = member
         /\ left' = <<StartOver(0, AnyTopic, counter)>>
      \/ /\ last # Null /\ ~ Lost(last) /\ phase' = "replay"
         /\ member' = member /\ left' = Newer(last)
         /\ blind' = blind \cup {ev \in log \ handled : ev.id <= last}
      \/ /\ last # Null /\ ~ Lost(last) /\ Newer(last) = <<>>
         /\ phase' = "live" /\ left' = <<>>
         /\ blind' = blind \cup {ev \in log \ handled : ev.id <= last}
  BY <1>2 DEF Begin
<1> DEFINE passed == {ev \in log \ handled : ev.id <= last}
<1> HIDE DEF passed
<1>7. CASE last = Null /\ left' = <<>> /\ phase' = "live"
             /\ blind' = blind \cup (log \ handled)
  BY <1>1, <1>2, <1>3, <1>4, <1>5, <1>7
<1>8. CASE /\ last # Null /\ Lost(last) /\ phase' = "replay"
           /\ member' = member
           /\ left' = <<StartOver(0, AnyTopic, counter)>>
  BY <1>1, <1>2, <1>3, <1>4, <1>5, <1>8
<1>9. CASE /\ last # Null /\ ~ Lost(last) /\ phase' = "replay"
           /\ member' = member /\ left' = Newer(last)
           /\ blind' = blind \cup passed
  BY <1>1, <1>2, <1>3, <1>4, <1>5, <1>9 DEF passed
<1>10. CASE /\ last # Null /\ ~ Lost(last) /\ Newer(last) = <<>>
            /\ phase' = "live" /\ left' = <<>>
            /\ blind' = blind \cup passed
  BY <1>1, <1>2, <1>3, <1>4, <1>5, <1>10 DEF passed
<1>11. QED
  BY <1>6, <1>7, <1>8, <1>9, <1>10 DEF passed

-----------------------------------------------------------------------------
(***************************************************************************)
(* Each part of the invariant is kept.                                     *)
(***************************************************************************)
\* Remember gives an id.
LEMMA Remembered ==
  ASSUME Typed, NEW id \in Nat
  PROVE  /\ Remember(id) \in Nat \cup {Null}
         /\ client = "mcp" =>
              Remember(id) =
                IF id > (IF last = Null THEN 0 ELSE last) THEN id ELSE last
         /\ client # "mcp" => Remember(id) = id
BY DEF Remember, Typed

\* Every step of the stream keeps the types of what it keeps.
LEMMA TypedKept ==
  ASSUME Typed, StreamInv, TypeOK, [Next]_vars
  PROVE  Typed'
<1>1. Ahead \in Seq(Event)
  BY AheadIs
<1>2. CASE UNCHANGED <<busVars, streamVars>>
  BY <1>2 DEF Typed, busVars, streamVars
<1>3. CASE Begin
  <2>1. /\ Calm /\ last' = last /\ phase' \in {"replay", "live"}
        /\ wire' = <<>> /\ queue' = <<>>
        /\ \/ left' = <<>>
           \/ last # Null /\ left' = Newer(last)
           \/ left' = <<StartOver(0, AnyTopic, counter)>>
    BY <1>3, Begun DEF StreamInv
  <2>2. /\ <<>> \in Seq(Event)
        /\ <<StartOver(0, AnyTopic, counter)>> \in Seq(Event)
        /\ last # Null => Newer(last) \in Seq(Event)
    <3>1. StartOver(0, AnyTopic, counter) \in Event
      BY DEF StartOver, Event, Typed
    <3>2. QED
      BY <3>1, Replayed DEF StreamInv
  <2>3. member' \in BOOLEAN
    BY <1>3 DEF Begin, Typed
  <2>4. QED
    BY <2>1, <2>2, <2>3 DEF Typed, Calm
<1>4. CASE Replay
  <2>1. Head(left) \in Event /\ Tail(left) \in Seq(Event)
    BY <1>4, HeadTailProperties DEF Replay, Typed
  <2>2. QED
    BY <1>4, <2>1 DEF Replay, Typed, busVars
<1>5. CASE Subscribe
  BY <1>5 DEF Subscribe, Typed
<1>6. CASE Forward
  <2>1. Head(queue) \in Event /\ Tail(queue) \in Seq(Event)
    BY <1>6, HeadTailProperties DEF Forward, Typed
  <2>2. QED
    BY <1>6, <2>1 DEF Forward, Typed
<1>7. CASE Eof \/ Cut \/ Forget
  <2>1. Calm /\ phase' = "none" /\ wire' = <<>> /\ left' = <<>>
        /\ queue' = <<>> /\ member' = FALSE
    BY <1>7, CalmSteps, Closed
  <2>2. last' \in Nat \cup {Null}
    BY <1>7 DEF Eof, Cut, Forget, Typed
  <2>3. <<>> \in Seq(Event)
    OBVIOUS
  <2>4. QED
    BY <2>1, <2>2, <2>3 DEF Calm, Typed
<1>8. CASE Connect
  BY <1>8 DEF Connect, Typed, busVars
<1>9. CASE Restart
  <2>1. [t \in Topics |-> <<>>] \in [Topics -> Seq(Event)]
    OBVIOUS
  <2>2. QED
    BY <1>9, <2>1, Closed DEF Restart, Typed
<1>10. ASSUME NEW ev, Take(ev) PROVE Typed'
  <2>1. ev \in Event /\ wire' \in Seq(Event)
    BY <1>10, HeadTailProperties DEF Take, Typed
  <2>2. last' \in Nat \cup {Null}
    BY <1>10, <2>1, Remembered DEF Take, Event
  <2>3. QED
    BY <1>10, <2>1, <2>2 DEF Take, Typed, busVars
<1>11. ASSUME NEW t \in Topics, NEW w \in Whats, Announce(t, w) PROVE Typed'
  <2> DEFINE ev == News(counter + 1, t, w)
  <2>1. ev \in Event /\ StartOver(ev.id + 1, t, ev.id) \in Event
    BY DEF News, StartOver, Event, Typed
  <2>2. ring' \in [Topics -> Seq(Event)]
    <3>1. \A u \in Topics : ring'[u] \in Seq(Event)
      BY <1>11, RingGrows
    <3>2. \E kept : ring' = [ring EXCEPT ![t] = kept]
      BY <1>11 DEF Announce, Publish, News
    <3>3. DOMAIN ring' = Topics /\ ring' = [u \in DOMAIN ring' |-> ring'[u]]
      BY <3>2 DEF Typed
    <3>4. QED
      BY <3>1, <3>3
  <2>3. counter' \in Nat /\ queue' \in Seq(Event) /\ member' \in BOOLEAN
    <3>1. counter' \in {counter + 1, counter + 2}
      BY <1>11, Published DEF StreamInv
    <3>2. queue # <<>> => Tail(queue) \in Seq(Event)
      BY HeadTailProperties DEF Typed
    <3>3. \/ UNCHANGED <<member, queue>>
          \/ queue' = Append(queue, ev) /\ UNCHANGED member
          \/ /\ queue' = Append(Tail(queue), StartOver(ev.id + 1, t, ev.id))
             /\ queue # <<>> /\ member' = FALSE
      BY <1>11, Published DEF StreamInv
    <3>4. queue \in Seq(Event) /\ member \in BOOLEAN /\ counter \in Nat
      BY DEF Typed
    <3>5. member' \in BOOLEAN
      BY <3>3, <3>4, Zenon
    <3> DEFINE over == StartOver(ev.id + 1, t, ev.id)
    <3>6. over \in Event
      BY <2>1
    <3> HIDE DEF ev, over
    <3>7. \/ queue' = queue
          \/ queue' = Append(queue, ev)
          \/ queue' = Append(Tail(queue), over) /\ queue # <<>>
      BY <3>3 DEF over
    <3>8. queue' \in Seq(Event)
      <4>1. CASE queue' = queue
        BY <3>4, <4>1
      <4>2. CASE queue' = Append(queue, ev)
        BY <2>1, <3>4, <4>2
      <4>3. CASE queue' = Append(Tail(queue), over) /\ queue # <<>>
        BY <3>2, <3>6, <4>3
      <4>4. QED
        BY <3>7, <4>1, <4>2, <4>3
    <3>9. QED
      BY <3>1, <3>4, <3>5, <3>8
  <2>4. QED
    BY <1>11, <2>2, <2>3 DEF Announce, Publish, Typed
<1>12. QED
  BY <1>2, <1>3, <1>4, <1>5, <1>6, <1>7, <1>8, <1>9, <1>10, <1>11, StreamMoves

\* Ids are given out once, and the client handles only what was published.
LEMMA LogKept ==
  ASSUME Typed, StreamInv, TypeOK, [Next]_vars
  PROVE  LogOK'
<1> USE DEF StreamInv
<1>1. CASE Calm
  <2>1. Feed' = Feed
    BY <1>1, SameFeed
  <2>2. QED
    BY <1>1, <2>1 DEF Calm, LogOK
<1>2. CASE Restart
  BY <1>2 DEF Restart, LogOK
<1>3. ASSUME NEW ev, Take(ev) PROVE LogOK'
  <2>1. Ahead \in Seq(Event) /\ Ahead # <<>> /\ ev = Ahead[1]
    BY <1>3, AheadIs, TakeIsHead
  <2>2. 1 \in 1..Len(Ahead) /\ ev \in Event
    BY <2>1
  <2>3. UNCHANGED <<log, counter>> /\ Feed' = Feed
    BY <1>3, SameFeed DEF Take, busVars
  <2>4. CASE ev.what = Resync
    <3>1. ev.upto <= counter /\ ev.upto \in Nat
      BY <2>1, <2>2, <2>4 DEF Resyncs, Event
    <3>2. covered' = ev.upto /\ handled' = handled
      BY <1>3, <2>4 DEF Take
    <3>3. QED
      BY <2>3, <3>1, <3>2 DEF LogOK
  <2>5. CASE ev.what # Resync
    <3>1. ev \in log
      BY <2>1, <2>2, <2>5 DEF Numbers
    <3>2. covered' = covered /\ handled' = handled \cup {ev}
      BY <1>3, <2>5 DEF Take
    <3>3. QED
      BY <2>3, <3>1, <3>2 DEF LogOK
  <2>6. QED
    BY <2>4, <2>5
<1>4. ASSUME NEW t \in Topics, NEW w \in Whats, Announce(t, w) PROVE LogOK'
  <2> DEFINE ev == News(counter + 1, t, w)
  <2>1. /\ ev \in Event /\ ev.id = counter + 1 /\ ev.topic = t /\ ev.what = w
        /\ counter \in Nat /\ w \in Whats
    BY DEF News, Event, Typed
  <2>2. counter' \in {counter + 1, counter + 2}
    BY <1>4, Published
  <2>3. /\ UNCHANGED <<handled, covered>> /\ Feed' = Feed
        /\ log' = IF t \in Feed THEN log \cup {ev} ELSE log
    BY <1>4, SameFeed DEF Announce
  <2>4. \A e \in log : e.id \in Nat
    BY LogFacts
  <2> HIDE DEF ev
  <2>5. QED
    BY <2>1, <2>2, <2>3, <2>4 DEF LogOK
<1>5. QED
  BY <1>1, <1>2, <1>3, <1>4, StreamMoves, CalmSteps

\* Which events a ring can still answer for only shrinks at its beginning.
LEMMA RingsKept ==
  ASSUME Typed, StreamInv, TypeOK, [Next]_vars
  PROVE  RingsOK' /\ NewestKept'
<1> USE DEF StreamInv
<1>1. CASE Calm \/ \E ev : Take(ev)
  <2>1. UNCHANGED <<log, ring>> /\ Feed' = Feed
    BY <1>1, SameFeed DEF Calm, Take, busVars
  <2>2. QED
    BY <2>1 DEF RingsOK, NewestKept, Kept
<1>2. CASE Restart
  <2>1. log' = {} /\ \A t \in Topics : ring'[t] = <<>>
    BY <1>2 DEF Restart
  <2>2. Feed' \subseteq Topics
    BY <1>2, SameFeed, FeedOfTopics DEF Typed
  <2>3. QED
    BY <2>1, <2>2 DEF RingsOK, NewestKept
<1>3. ASSUME NEW t \in Topics, NEW w \in Whats, Announce(t, w)
      PROVE  RingsOK' /\ NewestKept'
  <2> DEFINE ev == News(counter + 1, t, w)
             n == Len(ring[t])
  <2>1. /\ ev \in Event /\ ev.id = counter + 1 /\ ev.topic = t /\ n \in Nat
        /\ \A u \in Topics : ring'[u] \in Seq(Event) /\ ring[u] \in Seq(Event)
        /\ \A u \in Topics \ {t} : ring'[u] = ring[u]
    BY <1>3, RingGrows DEF Typed
  <2>2. PICK k \in 1..(n + 1) :
          /\ Len(ring'[t]) = n + 2 - k
          /\ \A i \in 1..(n + 2 - k) :
               ring'[t][i] = IF i + k - 1 = n + 1 THEN ev
                             ELSE ring[t][i + k - 1]
    BY <1>3, RingGrows
  <2>3. Feed' = Feed /\ Feed \subseteq Topics /\ counter \in Nat
        /\ log' = IF t \in Feed THEN log \cup {ev} ELSE log
    BY <1>3, SameFeed, FeedOfTopics DEF Announce, Typed
  <2>4. \A e \in log : e.id \in Nat /\ e.id <= counter /\ e.topic \in Feed
    BY LogFacts DEF LogOK
  <2> HIDE DEF ev, n
  <2>5. ASSUME t \in Feed
        PROVE  /\ \A i \in 1..Len(ring'[t]) :
                    ring'[t][i] \in log' /\ ring'[t][i].topic = t
               /\ \A i, j \in 1..Len(ring'[t]) :
                    i < j => ring'[t][i].id < ring'[t][j].id
    <3>1. /\ \A i \in 1..n : ring[t][i] \in log /\ ring[t][i].topic = t
          /\ \A i, j \in 1..n : i < j => ring[t][i].id < ring[t][j].id
      BY <2>5 DEF RingsOK, n
    <3>2. ASSUME NEW i \in 1..Len(ring'[t])
          PROVE  /\ i + k - 1 \in 1..(n + 1)
                 /\ i + k - 1 = n + 1 => ring'[t][i] = ev
                 /\ i + k - 1 # n + 1 =>
                      i + k - 1 \in 1..n /\ ring'[t][i] = ring[t][i + k - 1]
      BY <2>1, <2>2
    <3>3. ASSUME NEW i \in 1..Len(ring'[t]), NEW j \in 1..Len(ring'[t]), i < j
          PROVE  ring'[t][i].id < ring'[t][j].id
      <4>1. i + k - 1 < j + k - 1 /\ i + k - 1 \in 1..n
        BY <2>1, <2>2, <3>2, <3>3
      <4>2. ring'[t][i] = ring[t][i + k - 1] /\ ring[t][i + k - 1] \in log
        <5>1. i + k - 1 # n + 1
          BY <2>1, <4>1
        <5>2. QED
          BY <3>1, <3>2, <4>1, <5>1
      <4>3. CASE j + k - 1 = n + 1
        <5>1. ring'[t][j] = ev
          BY <3>2, <4>3
        <5>2. ring'[t][i].id \in Nat /\ ring'[t][i].id <= counter
          BY <2>4, <4>2
        <5>3. QED
          BY <2>1, <2>3, <5>1, <5>2
      <4>4. CASE j + k - 1 # n + 1
        BY <3>1, <3>2, <4>1, <4>2, <4>4
      <4>5. QED
        BY <4>3, <4>4
    <3>4. QED
      BY <2>1, <2>3, <2>5, <3>1, <3>2, <3>3
  <2>6. RingsOK'
    <3>1. ASSUME NEW u \in Feed, u # t
          PROVE  /\ \A i \in 1..Len(ring'[u]) :
                      ring'[u][i] \in log' /\ ring'[u][i].topic = u
                 /\ \A i, j \in 1..Len(ring'[u]) :
                      i < j => ring'[u][i].id < ring'[u][j].id
      <4>1. ring'[u] = ring[u]
        BY <2>1, <2>3, <3>1
      <4>2. QED
        BY <2>3, <3>1, <4>1 DEF RingsOK
    <3>2. QED
      BY <2>3, <2>5, <3>1 DEF RingsOK
  <2>7. ASSUME NEW e \in log'
        PROVE  Kept(e)'
    <3>1. CASE e \in log /\ e.topic # t
      <4>1. ring'[e.topic] = ring[e.topic]
        BY <2>1, <2>3, <2>4, <3>1
      <4>2. QED
        BY <3>1, <4>1 DEF NewestKept, Kept
    <3>2. CASE e \in log /\ e.topic = t
      <4>1. ring[t] # <<>> /\ n >= 1 /\ Head(ring[t]) = ring[t][1]
        BY <2>1, <3>2 DEF NewestKept, Kept, n
      <4>2. t \in Feed
        BY <2>4, <3>2
      <4>3. Len(ring'[t]) >= 1 /\ ring'[t] # <<>>
            /\ Head(ring'[t]) = ring'[t][1]
        BY <2>1, <2>2
      <4>4. e.id < ring[t][1].id \/ \E i \in 1..n : e = ring[t][i]
        BY <2>1, <3>2, <4>1 DEF NewestKept, Kept, ToSet, n
      <4>5. ring'[t][1] = IF k = n + 1 THEN ev ELSE ring[t][k]
        BY <2>1, <2>2, <4>3
      <4>6. CASE k = n + 1
        <5>1. e.id < ring'[t][1].id
          BY <2>1, <2>3, <2>4, <3>2, <4>5, <4>6
        <5>2. QED
          BY <3>2, <4>3, <5>1 DEF Kept
      <4>7. CASE k \in 1..n
        <5>1. /\ \A i \in 1..n : ring[t][i] \in log /\ ring[t][i].id \in Nat
              /\ \A i, j \in 1..n : i < j => ring[t][i].id < ring[t][j].id
          BY <2>4, <4>2 DEF RingsOK, n
        <5>2. ring'[t][1] = ring[t][k] /\ ring[t][1].id <= ring[t][k].id
          BY <2>1, <4>1, <4>5, <4>7, <5>1
        <5>3. CASE e.id < ring[t][1].id
          <6>1. e.id < ring'[t][1].id
            BY <2>4, <3>2, <4>1, <4>7, <5>1, <5>2, <5>3
          <6>2. QED
            BY <3>2, <4>3, <6>1 DEF Kept
        <5>4. ASSUME NEW i \in 1..n, e = ring[t][i] PROVE Kept(e)'
          <6>1. CASE i < k
            <7>1. e.id < ring'[t][1].id
              BY <4>7, <5>1, <5>2, <5>4, <6>1
            <7>2. QED
              BY <3>2, <4>3, <7>1 DEF Kept
          <6>2. CASE ~ (i < k)
            <7>1. /\ i + 1 - k \in 1..(n + 2 - k)
                  /\ i + 1 - k + k - 1 = i /\ i # n + 1
              BY <2>1, <4>7, <6>2
            <7>2. ring'[t][i + 1 - k] = e /\ i + 1 - k \in 1..Len(ring'[t])
              BY <2>2, <5>4, <7>1
            <7>3. e \in ToSet(ring'[t])
              BY <2>1, <7>2 DEF ToSet
            <7>4. QED
              BY <3>2, <4>3, <7>3 DEF Kept
          <6>3. QED
            BY <6>1, <6>2
        <5>5. QED
          BY <4>4, <5>3, <5>4
      <4>8. QED
        BY <2>1, <4>6, <4>7
    <3>3. CASE e = ev
      <4>1. n + 2 - k \in 1..(n + 2 - k) /\ n + 2 - k + k - 1 = n + 1
        BY <2>1, <2>2
      <4>2. ring'[t][n + 2 - k] = ev /\ n + 2 - k \in 1..Len(ring'[t])
        BY <2>2, <4>1
      <4>3. ev \in ToSet(ring'[t]) /\ ring'[t] # <<>>
        BY <2>1, <4>2 DEF ToSet
      <4>4. QED
        BY <2>1, <3>3, <4>3 DEF Kept
    <3>4. QED
      BY <2>3, <2>7, <3>1, <3>2, <3>3
  <2>8. QED
    BY <2>6, <2>7 DEF NewestKept
<1>4. QED
  BY <1>1, <1>2, <1>3, StreamMoves, CalmSteps

\* Outside a connection nothing is on its way (subscribe, unsubscribe).
LEMMA StageKept ==
  ASSUME Typed, StreamInv, TypeOK, [Next]_vars
  PROVE  StageOK'
<1> USE DEF StreamInv
<1>1. CASE UNCHANGED <<busVars, streamVars>>
  BY <1>1 DEF busVars, streamVars, StageOK
<1>2. CASE Begin
  <2>1. /\ queue' = <<>> /\ wire' = <<>> /\ phase' \in {"replay", "live"}
        /\ phase' # "replay" => left' = <<>>
        /\ member' => phase' = "live"
    <3>1. queue' = <<>> /\ phase' \in {"replay", "live"} /\ wire' = <<>>
          /\ ~ member /\ phase = "asked"
      BY <1>2, Begun DEF Begin
    <3>2. left = <<>>
      BY <3>1 DEF StageOK
    <3>3. QED
      BY <1>2, <3>1, <3>2 DEF Begin
  <2>2. QED
    BY <2>1 DEF StageOK
<1>3. CASE Replay
  BY <1>3 DEF Replay, StageOK, busVars
<1>4. CASE Subscribe
  BY <1>4 DEF Subscribe, StageOK
<1>5. CASE Forward
  <2>1. /\ queue \in Seq(Event) /\ queue # <<>> /\ Head(queue) = queue[1]
        /\ Tail(queue) \in Seq(Event) /\ Len(Tail(queue)) = Len(queue) - 1
        /\ \A i \in 1..Len(Tail(queue)) : Tail(queue)[i] = queue[i + 1]
        /\ Len(queue) \in Nat \ {0}
    BY <1>5, HeadTailProperties, EmptySeq DEF Forward, Typed
  <2>2. phase = "live" /\ queue' = Tail(queue) /\ member' = member
        /\ left' = left /\ left = <<>>
        /\ phase' = IF Head(queue).what = Resync THEN "over" ELSE "live"
    BY <1>5 DEF Forward, StageOK
  <2>3. Head(queue).what = Resync => queue' = <<>> /\ ~ member
    <3>1. 1 \in 1..Len(queue)
      BY <2>1
    <3>2. Head(queue).what = Resync => Len(queue) = 1 /\ ~ member
      BY <2>1, <3>1 DEF StageOK
    <3>3. Len(queue) = 1 => Tail(queue) = <<>>
      BY <2>1, EmptySeq
    <3>4. QED
      BY <2>2, <3>2, <3>3
  <2>4. ASSUME NEW i \in 1..Len(queue'), queue'[i].what = Resync
        PROVE  ~ member' /\ i = Len(queue')
    <3>1. i + 1 \in 1..Len(queue) /\ queue[i + 1].what = Resync
      BY <2>1, <2>2, <2>4
    <3>2. (member = FALSE) /\ i + 1 = Len(queue)
      <4>1. \A m \in 1..Len(queue) :
              queue[m].what = Resync => ~ member /\ m = Len(queue)
        BY DEF StageOK
      <4>2. QED
        BY <2>2, <3>1, <4>1
    <3>3. i = Len(queue')
      <4>1. Len(queue') = Len(queue) - 1 /\ i \in Int /\ Len(queue) \in Int
        BY <2>1, <2>2, <2>4
      <4>2. QED
        BY <3>2, <4>1
    <3>4. QED
      BY <2>2, <3>2, <3>3
  <2>5. QED
    BY <2>2, <2>3, <2>4 DEF StageOK
<1>6. CASE Eof \/ Cut \/ Forget \/ Restart
  <2>1. /\ phase' = "none" /\ wire' = <<>> /\ left' = <<>> /\ queue' = <<>>
        /\ member' = FALSE
    BY <1>6, Closed
  <2>2. 1..Len(<<>>) = {}
    OBVIOUS
  <2>3. QED
    BY <2>1, <2>2 DEF StageOK
<1>7. CASE Connect
  BY <1>7 DEF Connect, StageOK, busVars
<1>8. ASSUME NEW ev, Take(ev) PROVE StageOK'
  BY <1>8 DEF Take, StageOK, busVars
<1>9. ASSUME NEW t \in Topics, NEW w \in Whats, Announce(t, w) PROVE StageOK'
  <2> DEFINE ev == News(counter + 1, t, w)
             over == StartOver(ev.id + 1, t, ev.id)
  <2>1. UNCHANGED <<phase, wire, left>>
    BY <1>9 DEF Announce
  <2>2. ev \in Event /\ ev.what # Resync /\ over \in Event
    BY BusAssumption DEF News, StartOver, Event, Typed
  <2>3. \/ UNCHANGED <<member, queue>>
        \/ queue' = Append(queue, ev) /\ member /\ UNCHANGED member
        \/ /\ queue' = Append(Tail(queue), over) /\ queue # <<>> /\ member
           /\ member' = FALSE
    BY <1>9, Published
  <2> HIDE DEF ev, over
  <2>4. CASE UNCHANGED <<member, queue>>
    BY <2>1, <2>4 DEF StageOK
  <2>5. CASE queue' = Append(queue, ev) /\ member /\ UNCHANGED member
    <3>1. \A i \in 1..Len(queue') : queue'[i].what # Resync
      BY <2>2, <2>5 DEF StageOK, Typed
    <3>2. QED
      BY <2>1, <2>5, <3>1 DEF StageOK
  <2>6. CASE queue' = Append(Tail(queue), over) /\ queue # <<>> /\ member
               /\ member' = FALSE
    <3>1. /\ Tail(queue) \in Seq(Event) /\ Len(Tail(queue)) = Len(queue) - 1
          /\ \A i \in 1..Len(Tail(queue)) : Tail(queue)[i] = queue[i + 1]
          /\ Len(queue) \in Nat \ {0}
      BY <2>6, HeadTailProperties, EmptySeq DEF Typed
    <3>2. \A i \in 1..Len(Tail(queue)) : Tail(queue)[i].what # Resync
      BY <2>6, <3>1 DEF StageOK
    <3>3. ASSUME NEW i \in 1..Len(queue'), queue'[i].what = Resync
          PROVE  i = Len(queue')
      <4>1. /\ Len(queue') = Len(queue) /\ i \in 1..Len(queue)
            /\ \A j \in 1..Len(Tail(queue)) : queue'[j] = Tail(queue)[j]
        BY <2>2, <2>6, <3>1
      <4>2. i \notin 1..Len(Tail(queue))
        BY <3>2, <3>3, <4>1
      <4>3. QED
        <5> DEFINE n == Len(queue)
        <5>1. n \in Nat \ {0} /\ i \in 1..n /\ i \notin 1..(n - 1)
          BY <3>1, <4>1, <4>2
        <5> HIDE DEF n
        <5>2. i = n
          BY <5>1
        <5>3. QED
          BY <4>1, <5>2 DEF n
    <3>4. QED
      BY <2>1, <2>6, <3>3 DEF StageOK
  <2>7. QED
    BY <2>3, <2>4, <2>5, <2>6
<1>10. QED
  BY <1>1, <1>2, <1>3, <1>4, <1>5, <1>6, <1>7, <1>8, <1>9, StreamMoves

\* Steps that leave what is on its way as it is.
LEMMA Carried ==
  ASSUME Typed, Typed', StageOK,
         UNCHANGED <<busVars, streamVars>> \/ Replay \/ Subscribe \/ Forward
           \/ Connect
  PROVE  Calm /\ last' = last /\ Ahead' = Ahead
<1>1. Calm
  BY CalmSteps
<1>2. CASE Replay \/ Subscribe \/ Forward
  BY <1>1, <1>2, HandedOn DEF Replay, Subscribe, Forward
<1>3. CASE UNCHANGED <<busVars, streamVars>> \/ Connect
  BY <1>1, <1>3 DEF Connect, busVars, streamVars, Ahead
<1>4. QED
  BY <1>2, <1>3

\* A ring that was not empty stays so, and its oldest event gets no older.
LEMMA HeadsRise ==
  ASSUME Typed, LogOK, RingsOK, NEW t \in Topics, NEW w \in Whats,
         Announce(t, w), NEW u \in Feed, ring[u] # <<>>
  PROVE  /\ ring'[u] # <<>>
         /\ Head(ring[u]).id \in Nat /\ Head(ring'[u]).id \in Nat
         /\ Head(ring[u]).id <= Head(ring'[u]).id
<1> DEFINE ev == News(counter + 1, t, w)
           n == Len(ring[u])
<1>1. /\ ring[u] \in Seq(Event) /\ ring'[u] \in Seq(Event) /\ u \in Topics
      /\ ev \in Event /\ ev.id = counter + 1 /\ counter \in Nat
  BY FeedOfTopics, RingGrows DEF Typed
<1>2. n \in Nat \ {0} /\ Head(ring[u]) = ring[u][1]
  BY <1>1, EmptySeq
<1>3. /\ \A i \in 1..n : ring[u][i].id \in Nat /\ ring[u][i].id <= counter
      /\ \A i, j \in 1..n : i < j => ring[u][i].id < ring[u][j].id
  BY LogFacts DEF RingsOK, LogOK
<1>4. CASE u # t
  <2>1. ring'[u] = ring[u]
    BY <1>1, <1>4, RingGrows
  <2>2. QED
    BY <1>2, <1>3, <2>1
<1>5. CASE u = t
  <2>1. PICK k \in 1..(n + 1) :
          /\ Len(ring'[u]) = n + 2 - k
          /\ \A i \in 1..(n + 2 - k) :
               ring'[u][i] = IF i + k - 1 = n + 1 THEN ev
                             ELSE ring[u][i + k - 1]
    BY <1>5, RingGrows
  <2> HIDE DEF ev, n
  <2>2. 1 \in 1..(n + 2 - k) /\ 1 + k - 1 = k
    BY <1>2, <2>1
  <2>3. /\ Len(ring'[u]) >= 1
        /\ ring'[u][1] = IF k = n + 1 THEN ev ELSE ring[u][k]
    BY <1>2, <2>1, <2>2
  <2>4. ring'[u] # <<>> /\ Head(ring'[u]) = ring'[u][1]
    BY <1>1, <2>3
  <2>5. ring[u][1].id <= ring'[u][1].id /\ ring'[u][1].id \in Nat
    <3>1. CASE k = n + 1
      BY <1>1, <1>2, <1>3, <2>3, <3>1
    <3>2. CASE k # n + 1
      <4>1. k \in 1..n /\ 1 \in 1..n /\ (1 < k \/ k = 1)
        BY <1>2, <2>1, <3>2
      <4>2. QED
        BY <1>3, <2>3, <3>2, <4>1
    <3>3. QED
      BY <3>1, <3>2
  <2>6. QED
    BY <1>2, <1>3, <2>4, <2>5
<1>6. QED
  BY <1>4, <1>5

\* What the rings do not reach back to stays lost, and so does all before it.
LEMMA LostStays ==
  ASSUME Typed, LogOK, RingsOK, NEW t \in Topics, NEW w \in Whats,
         Announce(t, w), NEW x \in Nat, Lost(x)
  PROVE  Lost(x)'
<1>1. PICK u \in Feed : ring[u] # <<>> /\ x < Head(ring[u]).id - 1
  BY DEF Lost
<1>2. /\ ring'[u] # <<>>
      /\ Head(ring[u]).id \in Nat /\ Head(ring'[u]).id \in Nat
      /\ Head(ring[u]).id <= Head(ring'[u]).id
  BY <1>1, HeadsRise
<1>3. x < Head(ring'[u]).id - 1
  BY <1>1, <1>2
<1>4. Feed' = Feed
  BY SameFeed
<1>5. QED
  BY <1>2, <1>3, <1>4 DEF Lost

\* What is older than a lost number is lost.
LEMMA LostBefore ==
  ASSUME Typed, NEW x \in Nat, Lost(x)
  PROVE  Lost(0)
<1>1. PICK u \in Feed : ring[u] # <<>> /\ x < Head(ring[u]).id - 1
  BY DEF Lost
<1>2. Head(ring[u]).id \in Nat
  <2>1. ring[u] \in Seq(Event)
    BY <1>1, FeedOfTopics DEF Typed
  <2>2. Head(ring[u]) \in Event
    BY <1>1, <2>1, HeadTailProperties
  <2>3. QED
    BY <2>2 DEF Event
<1>3. QED
  BY <1>1, <1>2 DEF Lost

\* The ids on their way, and those that were handled, are ones given out.
LEMMA AheadFacts ==
  ASSUME Typed, StreamInv
  PROVE  /\ Len(Ahead) \in Nat /\ Ahead \in Seq(Event) /\ counter \in Nat
         /\ \A i \in 1..Len(Ahead) :
              /\ Ahead[i] \in Event /\ Ahead[i].id \in Nat
              /\ Ahead[i].upto \in Nat /\ Ahead[i].id <= counter
              /\ Ahead[i] \in log \/ Ahead[i].what = Resync
              /\ Ahead[i].what # Resync => Ahead[i].id >= 1
         /\ \A e \in handled : e.id \in Nat /\ e.id <= counter
<1>1. Len(Ahead) \in Nat /\ Ahead \in Seq(Event) /\ counter \in Nat
  BY AheadIs DEF Typed
<1>2. ASSUME NEW i \in 1..Len(Ahead)
      PROVE  /\ Ahead[i] \in Event /\ Ahead[i].id \in Nat
             /\ Ahead[i].upto \in Nat /\ Ahead[i].id <= counter
             /\ Ahead[i] \in log \/ Ahead[i].what = Resync
             /\ Ahead[i].what # Resync => Ahead[i].id >= 1
  <2>1. Ahead[i] \in Event
    BY <1>1
  <2>2. QED
    BY <2>1 DEF StreamInv, Numbers, LogOK, Event
<1>3. \A e \in handled : e.id \in Nat /\ e.id <= counter
  BY LogFacts DEF StreamInv, LogOK
<1>4. QED
  BY <1>1, <1>2, <1>3

\* What is on its way stays in the order of its numbers.
LEMMA NumbersKept ==
  ASSUME Typed, Typed', StreamInv, TypeOK, [Next]_vars
  PROVE  Numbers(Ahead)'
<1> USE DEF StreamInv
<1>1. CASE UNCHANGED <<busVars, streamVars>> \/ Replay \/ Subscribe \/ Forward
             \/ Connect
  <2>1. Calm /\ last' = last /\ Ahead' = Ahead /\ Feed' = Feed
    BY <1>1, Carried, SameFeed
  <2>2. Lost(0)' <=> Lost(0)
    BY <2>1 DEF Calm, Lost
  <2>3. QED
    BY <2>1, <2>2 DEF Calm, Numbers
<1>2. CASE Begin
  <2>1. /\ Calm /\ last' = last
        /\ \/ Ahead' = <<>>
           \/ /\ last # Null /\ Lost(last)
              /\ Ahead' = <<StartOver(0, AnyTopic, counter)>>
           \/ last # Null /\ ~ Lost(last) /\ Ahead' = Newer(last)
    BY <1>2, Begun
  <2>2. CASE Ahead' = <<>>
    BY <2>2 DEF Numbers
  <2>3. CASE /\ last # Null /\ Lost(last)
             /\ Ahead' = <<StartOver(0, AnyTopic, counter)>>
    <3>1. Lost(0) /\ Feed' = Feed
      BY <2>1, <2>3, LostBefore, SameFeed DEF Typed
    <3>2. Lost(0)'
      BY <2>1, <3>1 DEF Calm, Lost
    <3>3. Len(Ahead') = 1 /\ Ahead'[1] = StartOver(0, AnyTopic, counter)
      BY <2>3
    <3>4. QED
      BY <2>1, <2>3, <3>2, <3>3 DEF Numbers, StartOver, Calm, Typed
  <2>4. CASE last # Null /\ ~ Lost(last) /\ Ahead' = Newer(last)
    <3>1. /\ \A i \in 1..Len(Ahead') : Ahead'[i] \in log /\ Ahead'[i].id > last
          /\ \A i, j \in 1..Len(Ahead') : i < j => Ahead'[i].id < Ahead'[j].id
      BY <2>4, Replayed
    <3>2. \A e \in log : e.id \in Nat /\ e.id >= 1 /\ e.id <= counter
      BY LogFacts DEF LogOK
    <3>3. last \in Nat /\ \A e \in handled : e.id \in Nat /\ e.id <= last
      BY <2>4, AheadFacts DEF Position, Typed
    <3>4. UNCHANGED <<counter, log, handled>>
      BY <2>1 DEF Calm
    <3>5. ASSUME NEW i \in 1..Len(Ahead')
          PROVE  /\ Ahead'[i].id <= counter /\ Ahead'[i] \in log
                 /\ Ahead'[i].id # 0
                 /\ \A e \in handled : e.id < Ahead'[i].id
      BY <3>1, <3>2, <3>3
    <3>6. QED
      BY <3>1, <3>4, <3>5 DEF Numbers
  <2>5. QED
    BY <2>1, <2>2, <2>3, <2>4
<1>3. CASE Eof \/ Cut \/ Forget \/ Restart
  <2>1. Ahead' = <<>>
    BY <1>3, Closed
  <2>2. QED
    BY <2>1 DEF Numbers
<1>4. ASSUME NEW ev, Take(ev) PROVE Numbers(Ahead)'
  <2>1. /\ Ahead \in Seq(Event) /\ Ahead # <<>> /\ ev = Ahead[1]
        /\ Ahead' = Tail(Ahead)
    BY <1>4, AheadIs, TakeIsHead
  <2>2. /\ Len(Ahead') = Len(Ahead) - 1 /\ Len(Ahead) \in Nat \ {0}
        /\ \A i \in 1..Len(Ahead') : Ahead'[i] = Ahead[i + 1]
    BY <2>1, HeadTailProperties, EmptySeq
  <2>3. /\ UNCHANGED <<counter, log>>
        /\ handled' = handled \/ handled' = handled \cup {ev}
    BY <1>4 DEF Take, busVars
  <2>4. ASSUME NEW i \in 1..Len(Ahead')
        PROVE  /\ i + 1 \in 1..Len(Ahead) /\ Ahead'[i] = Ahead[i + 1]
               /\ ev.id < Ahead[i + 1].id
               /\ Ahead[i + 1].id # 0
    <3>1. i + 1 \in 1..Len(Ahead) /\ 1 \in 1..Len(Ahead) /\ 1 < i + 1
      BY <2>2
    <3>2. Ahead[1].id < Ahead[i + 1].id
      BY <3>1 DEF Numbers
    <3>3. Ahead[1].id \in Nat /\ Ahead[i + 1].id \in Nat
      BY <3>1, AheadFacts
    <3>4. QED
      BY <2>1, <2>2, <3>1, <3>2, <3>3
  <2>5. ASSUME NEW i \in 1..Len(Ahead')
        PROVE  /\ Ahead'[i].id <= counter /\ Ahead'[i].id # 0
               /\ Ahead'[i].what # Resync => Ahead'[i] \in log
               /\ \A e \in handled' : e.id < Ahead'[i].id
    BY <2>3, <2>4 DEF Numbers
  <2>6. ASSUME NEW i \in 1..Len(Ahead'), NEW j \in 1..Len(Ahead'), i < j
        PROVE  Ahead'[i].id < Ahead'[j].id
    <3>1. i + 1 < j + 1
      BY <2>2, <2>6
    <3>2. QED
      BY <2>4, <3>1 DEF Numbers
  <2>7. QED
    BY <2>3, <2>5, <2>6 DEF Numbers
<1>5. ASSUME NEW t \in Topics, NEW w \in Whats, Announce(t, w)
      PROVE  Numbers(Ahead)'
  <2> DEFINE ev == News(counter + 1, t, w)
             n == Len(Ahead)
  <2>1. /\ ev \in Event /\ ev.id = counter + 1 /\ ev.what # Resync
        /\ UNCHANGED <<last, handled>>
        /\ log' = IF t \in Feed THEN log \cup {ev} ELSE log
    BY <1>5, RingGrows DEF Announce
  <2>2. Lost(0) => Lost(0)'
    BY <1>5, LostStays
  <2>3. /\ n \in Nat /\ Ahead \in Seq(Event) /\ counter \in Nat
        /\ \A i \in 1..n : Ahead[i].id \in Nat /\ Ahead[i].id <= counter
        /\ \A e \in handled : e.id \in Nat /\ e.id <= counter
    BY AheadFacts
  <2>4. /\ \A i, j \in 1..n : i < j => Ahead[i].id < Ahead[j].id
        /\ \A i \in 1..n :
             /\ Ahead[i].id <= counter
             /\ Ahead[i].what # Resync => Ahead[i] \in log'
             /\ Ahead[i].id # 0 => \A e \in handled' : e.id < Ahead[i].id
             /\ Ahead[i].id = 0 => last' # Null /\ Lost(0)'
    BY <2>1, <2>2 DEF Numbers
  <2>5. \/ Ahead' = Ahead /\ counter' = counter + 1
        \/ Ahead' = Append(Ahead, ev) /\ counter' = counter + 1 /\ t \in Feed
        \/ Overflown(ev) /\ counter' = counter + 2
    BY <1>5, Published
  <2> HIDE DEF ev
  <2>6. CASE Ahead' = Ahead /\ counter' = counter + 1
    <3>1. \A i \in 1..n : Ahead[i].id <= counter'
      BY <2>3, <2>6
    <3>2. QED
      BY <2>4, <2>6, <3>1 DEF Numbers
  <2>7. CASE Ahead' = Append(Ahead, ev) /\ counter' = counter + 1 /\ t \in Feed
    <3>1. /\ Len(Ahead') = n + 1 /\ Ahead'[n + 1] = ev
          /\ \A i \in 1..n : Ahead'[i] = Ahead[i]
      BY <2>1, <2>3, <2>7
    <3> HIDE DEF n
    <3>2. ASSUME NEW i \in 1..(n + 1), NEW j \in 1..(n + 1), i < j
          PROVE  Ahead'[i].id < Ahead'[j].id
      <4>1. i \in 1..n /\ (j \in 1..n \/ j = n + 1)
        BY <2>3, <3>2
      <4>2. Ahead'[i] = Ahead[i] /\ Ahead[i].id \in Nat /\ Ahead[i].id <= counter
        BY <2>3, <3>1, <4>1
      <4>3. CASE j \in 1..n
        BY <2>4, <3>1, <3>2, <4>1, <4>3
      <4>4. CASE j = n + 1
        BY <2>1, <2>3, <3>1, <4>2, <4>4
      <4>5. QED
        BY <4>1, <4>3, <4>4
    <3>3. ASSUME NEW i \in 1..n
          PROVE  /\ Ahead'[i].id <= counter'
                 /\ Ahead'[i].what # Resync => Ahead'[i] \in log'
                 /\ Ahead'[i].id # 0 => \A e \in handled' : e.id < Ahead'[i].id
                 /\ Ahead'[i].id = 0 => last' # Null /\ Lost(0)'
      <4>1. Ahead'[i] = Ahead[i] /\ Ahead[i].id <= counter'
        BY <2>3, <2>7, <3>1
      <4>2. QED
        BY <2>4, <4>1
    <3>4. /\ Ahead'[n + 1].id <= counter' /\ Ahead'[n + 1] \in log'
          /\ Ahead'[n + 1].id # 0
          /\ \A e \in handled' : e.id < Ahead'[n + 1].id
      BY <2>1, <2>3, <2>7, <3>1
    <3>5. \A i \in 1..(n + 1) : i \in 1..n \/ i = n + 1
      BY <2>3
    <3>6. QED
      BY <3>1, <3>2, <3>3, <3>4, <3>5 DEF Numbers
  <2>8. CASE Overflown(ev) /\ counter' = counter + 2
    <3>1. /\ n # 0 /\ Len(Ahead') = n
          /\ Ahead'[n] = StartOver(ev.id + 1, ev.topic, ev.id)
      BY <2>8 DEF Overflown
    <3>2. PICK k \in 1..n : \A i \in 1..(n - 1) :
            Ahead'[i] = Ahead[IF i < k THEN i ELSE i + 1]
      BY <2>8 DEF Overflown
    <3>3. Ahead'[n].id = counter + 2 /\ Ahead'[n].what = Resync
      BY <2>1, <2>3, <3>1 DEF StartOver
    <3> HIDE DEF n
    <3> DEFINE from(i) == IF i < k THEN i ELSE i + 1
    <3>4. \A i \in 1..(n - 1) :
            from(i) \in 1..n /\ Ahead'[i] = Ahead[from(i)]
      BY <2>3, <3>1, <3>2
    <3>5. \A i, j \in 1..(n - 1) : i < j => from(i) < from(j)
      BY <2>3, <3>1
    <3> HIDE DEF from
    <3>6. ASSUME NEW i \in 1..n, NEW j \in 1..n, i < j
          PROVE  Ahead'[i].id < Ahead'[j].id
      <4>1. i \in 1..(n - 1) /\ (j \in 1..(n - 1) \/ j = n)
        BY <2>3, <3>6
      <4>2. Ahead'[i] = Ahead[from(i)] /\ from(i) \in 1..n
        BY <3>4, <4>1
      <4>3. CASE j \in 1..(n - 1)
        BY <2>4, <3>4, <3>5, <3>6, <4>1, <4>2, <4>3
      <4>4. CASE j = n
        <5>1. Ahead'[i].id \in Nat /\ Ahead'[i].id <= counter
          BY <2>3, <4>2
        <5>2. QED
          BY <2>3, <3>3, <4>4, <5>1
      <4>5. QED
        BY <4>1, <4>3, <4>4
    <3>7. ASSUME NEW i \in 1..(n - 1)
          PROVE  /\ Ahead'[i].id <= counter'
                 /\ Ahead'[i].what # Resync => Ahead'[i] \in log'
                 /\ Ahead'[i].id # 0 => \A e \in handled' : e.id < Ahead'[i].id
                 /\ Ahead'[i].id = 0 => last' # Null /\ Lost(0)'
      <4>1. from(i) \in 1..n /\ Ahead'[i] = Ahead[from(i)]
        BY <3>4
      <4>2. Ahead'[i].id <= counter'
        BY <2>3, <2>8, <4>1
      <4>3. QED
        BY <2>4, <4>1, <4>2
    <3>8. /\ Ahead'[n].id <= counter' /\ Ahead'[n].what = Resync
          /\ Ahead'[n].id # 0
          /\ \A e \in handled' : e.id < Ahead'[n].id
      BY <2>1, <2>3, <2>8, <3>3
    <3>9. \A i \in 1..n : i \in 1..(n - 1) \/ i = n
      BY <2>3
    <3>10. QED
      BY <3>1, <3>6, <3>7, <3>8, <3>9 DEF Numbers
  <2>9. QED
    BY <2>5, <2>6, <2>7, <2>8
<1>6. QED
  BY <1>1, <1>2, <1>3, <1>4, <1>5, StreamMoves

\* A resync put on its way stands for more than those before it (publish).
LEMMA ResyncsKept ==
  ASSUME Typed, Typed', StreamInv, TypeOK, [Next]_vars
  PROVE  Resyncs(Ahead)'
<1> USE DEF StreamInv
<1>1. CASE UNCHANGED <<busVars, streamVars>> \/ Replay \/ Subscribe \/ Forward
             \/ Connect
  <2>1. Calm /\ Ahead' = Ahead
    BY <1>1, Carried
  <2>2. QED
    BY <2>1 DEF Calm, Resyncs
<1>2. CASE Begin
  <2>1. /\ UNCHANGED <<counter, covered, log>>
        /\ \/ Ahead' = <<>>
           \/ Ahead' = <<StartOver(0, AnyTopic, counter)>>
           \/ last # Null /\ Ahead' = Newer(last)
    BY <1>2, Begun DEF Calm
  <2>2. CASE Ahead' = <<>>
    BY <2>2 DEF Resyncs
  <2>3. CASE Ahead' = <<StartOver(0, AnyTopic, counter)>>
    <3>1. Len(Ahead') = 1 /\ Ahead'[1].upto = counter
      BY <2>3 DEF StartOver
    <3>2. QED
      BY <2>1, <3>1 DEF Resyncs, LogOK, Typed
  <2>4. CASE last # Null /\ Ahead' = Newer(last)
    <3>1. \A i \in 1..Len(Ahead') : Ahead'[i] \in log
      BY <2>4, Replayed
    <3>2. \A i \in 1..Len(Ahead') : Ahead'[i].what # Resync
      BY <3>1, LogFacts
    <3>3. QED
      BY <3>2 DEF Resyncs
  <2>5. QED
    BY <2>1, <2>2, <2>3, <2>4
<1>3. CASE Eof \/ Cut \/ Forget \/ Restart
  <2>1. Ahead' = <<>>
    BY <1>3, Closed
  <2>2. QED
    BY <2>1 DEF Resyncs
<1>4. ASSUME NEW ev, Take(ev) PROVE Resyncs(Ahead)'
  <2>1. /\ Ahead \in Seq(Event) /\ Ahead # <<>> /\ ev = Ahead[1]
        /\ Ahead' = Tail(Ahead)
    BY <1>4, AheadIs, TakeIsHead
  <2>2. /\ Len(Ahead') = Len(Ahead) - 1 /\ Len(Ahead) \in Nat \ {0}
        /\ \A i \in 1..Len(Ahead') : Ahead'[i] = Ahead[i + 1]
    BY <2>1, HeadTailProperties, EmptySeq
  <2>3. /\ counter' = counter
        /\ \/ covered' = covered
           \/ ev.what = Resync /\ covered' = ev.upto
    BY <1>4 DEF Take, busVars
  <2>4. ASSUME NEW i \in 1..Len(Ahead')
        PROVE  /\ 1 \in 1..Len(Ahead) /\ i + 1 \in 1..Len(Ahead) /\ 1 < i + 1
               /\ Ahead'[i] = Ahead[i + 1]
    BY <2>2
  <2>5. ASSUME NEW i \in 1..Len(Ahead'), Ahead'[i].what = Resync
        PROVE  covered' <= Ahead'[i].upto /\ Ahead'[i].upto <= counter'
    <3>1. Ahead[i + 1].what = Resync /\ Ahead'[i] = Ahead[i + 1]
      BY <2>4, <2>5
    <3>2. CASE covered' = covered
      BY <2>3, <2>4, <3>1, <3>2 DEF Resyncs
    <3>3. CASE ev.what = Resync /\ covered' = ev.upto
      BY <2>1, <2>3, <2>4, <3>1, <3>3 DEF Resyncs
    <3>4. QED
      BY <2>3, <3>2, <3>3
  <2>6. ASSUME NEW i \in 1..Len(Ahead'), NEW j \in 1..Len(Ahead'), i < j,
               Ahead'[i].what = Resync, Ahead'[j].what = Resync
        PROVE  Ahead'[i].upto <= Ahead'[j].upto
    <3>1. i + 1 < j + 1
      BY <2>2, <2>6
    <3>2. QED
      BY <2>4, <2>6, <3>1 DEF Resyncs
  <2>7. QED
    BY <2>5, <2>6 DEF Resyncs
<1>5. ASSUME NEW t \in Topics, NEW w \in Whats, Announce(t, w)
      PROVE  Resyncs(Ahead)'
  <2> DEFINE ev == News(counter + 1, t, w)
             n == Len(Ahead)
  <2>1. /\ ev \in Event /\ ev.id = counter + 1 /\ ev.what # Resync
        /\ covered' = covered
    BY <1>5, RingGrows DEF Announce
  <2>2. /\ n \in Nat /\ Ahead \in Seq(Event) /\ counter \in Nat
        /\ covered \in Nat /\ covered <= counter
        /\ \A i \in 1..n : Ahead[i].upto \in Nat
    BY AheadFacts DEF LogOK
  <2>3. /\ \A i \in 1..n : Ahead[i].what = Resync =>
             covered <= Ahead[i].upto /\ Ahead[i].upto <= counter
        /\ \A i, j \in 1..n :
             (i < j /\ Ahead[i].what = Resync /\ Ahead[j].what = Resync) =>
               Ahead[i].upto <= Ahead[j].upto
    BY DEF Resyncs
  <2>4. \/ Ahead' = Ahead /\ counter' = counter + 1
        \/ Ahead' = Append(Ahead, ev) /\ counter' = counter + 1
        \/ Overflown(ev) /\ counter' = counter + 2
    BY <1>5, Published
  <2> HIDE DEF ev
  <2>5. CASE Ahead' = Ahead /\ counter' = counter + 1
    <3>1. \A i \in 1..n : Ahead[i].what = Resync => Ahead[i].upto <= counter'
      BY <2>2, <2>3, <2>5
    <3>2. QED
      BY <2>1, <2>3, <2>5, <3>1 DEF Resyncs
  <2>6. CASE Ahead' = Append(Ahead, ev) /\ counter' = counter + 1
    <3>1. /\ Len(Ahead') = n + 1 /\ Ahead'[n + 1].what # Resync
          /\ \A i \in 1..n : Ahead'[i] = Ahead[i]
      BY <2>1, <2>2, <2>6
    <3> HIDE DEF n
    <3>2. \A i \in 1..(n + 1) : Ahead'[i].what = Resync =>
            i \in 1..n /\ Ahead'[i] = Ahead[i]
      <4>1. \A i \in 1..(n + 1) : i \in 1..n \/ i = n + 1
        BY <2>2
      <4>2. QED
        BY <3>1, <4>1
    <3>3. \A i \in 1..n : Ahead[i].what = Resync => Ahead[i].upto <= counter'
      BY <2>2, <2>3, <2>6
    <3>4. QED
      BY <2>1, <2>3, <3>1, <3>2, <3>3 DEF Resyncs
  <2>7. CASE Overflown(ev) /\ counter' = counter + 2
    <3>1. /\ n # 0 /\ Len(Ahead') = n
          /\ Ahead'[n] = StartOver(ev.id + 1, ev.topic, ev.id)
      BY <2>7 DEF Overflown
    <3>2. PICK k \in 1..n : \A i \in 1..(n - 1) :
            Ahead'[i] = Ahead[IF i < k THEN i ELSE i + 1]
      BY <2>7 DEF Overflown
    <3>3. Ahead'[n].upto = counter + 1
      BY <2>1, <3>1 DEF StartOver
    <3> HIDE DEF n
    <3> DEFINE from(i) == IF i < k THEN i ELSE i + 1
    <3>4. \A i \in 1..(n - 1) :
            from(i) \in 1..n /\ Ahead'[i] = Ahead[from(i)]
      BY <2>2, <3>1, <3>2
    <3>5. \A i, j \in 1..(n - 1) : i < j => from(i) < from(j)
      BY <2>2, <3>1
    <3> HIDE DEF from
    <3>6. \A i \in 1..n : i \in 1..(n - 1) \/ i = n
      BY <2>2
    <3>7. ASSUME NEW i \in 1..n, Ahead'[i].what = Resync
          PROVE  covered' <= Ahead'[i].upto /\ Ahead'[i].upto <= counter'
      <4>1. CASE i \in 1..(n - 1)
        <5>1. from(i) \in 1..n /\ Ahead'[i] = Ahead[from(i)]
          BY <3>4, <4>1
        <5>2. /\ covered <= Ahead[from(i)].upto
              /\ Ahead[from(i)].upto <= counter
          BY <2>3, <3>7, <5>1
        <5>3. Ahead[from(i)].upto \in Nat /\ counter \in Nat
          BY <2>2, <5>1
        <5>4. QED
          BY <2>1, <2>7, <5>1, <5>2, <5>3
      <4>2. CASE i = n
        BY <2>1, <2>2, <2>7, <3>3, <4>2
      <4>3. QED
        BY <3>6, <4>1, <4>2
    <3>8. ASSUME NEW i \in 1..n, NEW j \in 1..n, i < j,
                 Ahead'[i].what = Resync, Ahead'[j].what = Resync
          PROVE  Ahead'[i].upto <= Ahead'[j].upto
      <4>1. i \in 1..(n - 1)
        BY <2>2, <3>8
      <4>2. CASE j \in 1..(n - 1)
        BY <2>3, <3>4, <3>5, <3>8, <4>1, <4>2
      <4>3. CASE j = n
        <5>1. Ahead'[i].upto \in Nat /\ Ahead'[i].upto <= counter
          BY <2>2, <2>3, <3>4, <3>8, <4>1
        <5>2. QED
          BY <2>2, <3>3, <4>3, <5>1
      <4>4. QED
        BY <3>6, <4>2, <4>3
    <3>9. QED
      BY <3>1, <3>7, <3>8 DEF Resyncs
  <2>8. QED
    BY <2>4, <2>5, <2>6, <2>7
<1>6. QED
  BY <1>1, <1>2, <1>3, <1>4, <1>5, StreamMoves

\* The position a client reconnects with never skips what it has not handled,
\* unless that is lost to the rings already.
LEMMA PositionKept ==
  ASSUME Typed, Typed', StreamInv, TypeOK, [Next]_vars
  PROVE  Position'
<1> USE DEF StreamInv
<1>1. CASE Calm /\ (last' = last \/ last' = Null)
  <2>1. Feed' = Feed /\ ring' = ring /\ handled' = handled
    BY <1>1, SameFeed DEF Calm
  <2>2. CASE last' = Null
    BY <2>2 DEF Position
  <2>3. CASE last' = last
    BY <2>1, <2>3 DEF Position, Lost
  <2>4. QED
    BY <1>1, <2>2, <2>3
<1>2. CASE Restart
  BY <1>2 DEF Restart, Position
<1>3. ASSUME NEW ev, Take(ev) PROVE Position'
  <2>1. /\ 1 \in 1..Len(Ahead) /\ ev = Ahead[1]
    <3>1. Ahead \in Seq(Event) /\ Ahead # <<>> /\ ev = Ahead[1]
      BY <1>3, AheadIs, TakeIsHead
    <3>2. QED
      BY <3>1
  <2>2. /\ ev.id \in Nat /\ last \in Nat \cup {Null} /\ Null \notin Nat
        /\ \A e \in handled : e.id \in Nat
        /\ ev.what # Resync => ev.id >= 1
    BY <2>1, AheadFacts, BusAssumption DEF Typed
  <2>3. /\ ev.id # 0 => \A e \in handled : e.id < ev.id
        /\ ev.id = 0 => last # Null /\ Lost(0)
    BY <2>1 DEF Numbers
  <2>4. /\ last' = Remember(ev.id) /\ ring' = ring /\ Feed' = Feed
        /\ handled' = IF ev.what = Resync THEN handled ELSE handled \cup {ev}
    BY <1>3, SameFeed DEF Take, busVars
  <2>5. /\ client = "mcp" =>
             last' = IF ev.id > (IF last = Null THEN 0 ELSE last) THEN ev.id
                     ELSE last
        /\ client # "mcp" => last' = ev.id
    BY <2>2, <2>4, Remembered
  <2>6. CASE ev.id = 0
    <3>1. handled' = handled /\ last # Null /\ Lost(0)
      BY <2>2, <2>3, <2>4, <2>6
    <3>2. last' = last \/ last' = 0
      BY <2>2, <2>5, <2>6, <3>1
    <3>3. QED
      BY <2>4, <3>1, <3>2 DEF Position, Lost
  <2>7. CASE ev.id # 0
    <3>1. \A e \in handled' : e.id <= ev.id
      BY <2>2, <2>3, <2>4, <2>7
    <3>2. last' # Null => last' \in Nat /\ ev.id <= last'
      BY <2>2, <2>5, <2>7
    <3>3. \A e \in handled' : e.id \in Nat
      BY <2>2, <2>4
    <3>4. QED
      BY <2>2, <3>1, <3>2, <3>3 DEF Position
  <2>8. QED
    BY <2>6, <2>7
<1>4. ASSUME NEW t \in Topics, NEW w \in Whats, Announce(t, w) PROVE Position'
  <2>1. last' = last /\ handled' = handled
    BY <1>4 DEF Announce
  <2>2. ASSUME NEW x \in Nat, Lost(x)
        PROVE  \E u \in Feed' : ring'[u] # <<>> /\ x < Head(ring'[u]).id - 1
    <3>1. Lost(x)'
      BY <1>4, <2>2, LostStays
    <3>2. QED
      BY <3>1 DEF Lost
  <2>3. (last # Null /\ Lost(last)) => Lost(last)'
    <3>1. last # Null => last \in Nat
      BY DEF Typed
    <3>2. QED
      BY <2>1, <2>2, <3>1 DEF Lost
  <2>4. QED
    BY <2>1, <2>3 DEF Position
<1>5. ASSUME UNCHANGED <<busVars, streamVars>> \/ Begin \/ Replay \/ Subscribe
               \/ Forward \/ Eof \/ Cut \/ Connect \/ Forget
      PROVE  Calm /\ (last' = last \/ last' = Null)
  <2>1. Calm
    BY <1>5, CalmSteps
  <2>2. last' = last \/ last' = Null
    BY <1>5 DEF streamVars, Begin, Replay, Subscribe, Forward, Eof, Cut,
                Connect, Forget
  <2>3. QED
    BY <2>1, <2>2
<1>6. QED
  BY <1>1, <1>2, <1>3, <1>4, <1>5, StreamMoves

\* What is on its way, by its places.
LEMMA InAhead ==
  ASSUME NEW s \in Seq(Event), NEW e
  PROVE  e \in ToSet(s) <=> \E i \in 1..Len(s) : e = s[i]
BY DEF ToSet

\* No step loses an event without a word: the heart of the matter, for every
\* way an event can leave the ring, the queue or the connection.
LEMMA PromiseKept ==
  ASSUME Typed, Typed', StreamInv, TypeOK, [Next]_vars
  PROVE  NothingElseLost'
<1> USE DEF StreamInv
<1>1. CASE Connect \/ Eof \/ Cut \/ Forget \/ Restart
  <2>1. phase' \in {"asked", "none"}
    BY <1>1, Closed DEF Connect
  <2>2. QED
    BY <2>1 DEF NothingElseLost
<1>2. CASE UNCHANGED <<busVars, streamVars>> \/ Replay \/ Subscribe \/ Forward
  <2>1. Calm /\ Ahead' = Ahead
    BY <1>2, Carried
  <2>2. /\ blind' = blind
        /\ phase' \in {"replay", "live", "over"} =>
             phase \in {"replay", "live", "over"}
        /\ phase \in {"live", "over"} =>
             phase' \in {"live", "over"} /\ member' = member
    BY <1>2 DEF busVars, streamVars, Replay, Subscribe, Forward
  <2>3. ASSUME NEW ev \in log, phase' \in {"replay", "live", "over"}
        PROVE  (Known(ev) \/ Coming(ev) \/ Behind(ev) \/ ev \in blind)'
    <3>1. CASE Known(ev)
      BY <2>1, <3>1 DEF Known, Calm
    <3>2. CASE Coming(ev)
      BY <2>1, <3>2 DEF Coming
    <3>3. CASE Behind(ev)
      BY <2>1, <2>2, <3>3 DEF Behind
    <3>4. QED
      BY <2>2, <2>3, <3>1, <3>2, <3>3 DEF NothingElseLost
  <2>4. log' = log
    BY <2>1 DEF Calm
  <2>5. QED
    BY <2>3, <2>4 DEF NothingElseLost
<1>3. CASE Begin
  <2>1. Calm /\ Ahead' \in Seq(Event)
    <3>1. wire' \in Seq(Event) /\ left' \in Seq(Event) /\ queue' \in Seq(Event)
      BY DEF Typed
    <3>2. Ahead' \in Seq(Event)
      BY <3>1, ConcatProperties DEF Ahead
    <3>3. QED
      BY <1>3, <3>2, Begun
  <2>2. \/ blind' = blind \cup (log \ handled)
        \/ Ahead' = <<StartOver(0, AnyTopic, counter)>>
        \/ /\ last # Null /\ ~ Lost(last) /\ Ahead' = Newer(last)
           /\ blind' = blind \cup {ev \in log \ handled : ev.id <= last}
    BY <1>3, Begun
  <2>3. ASSUME NEW ev \in log
        PROVE  (Known(ev) \/ Coming(ev) \/ ev \in blind)'
    <3>1. UNCHANGED <<handled, covered, log, counter>>
      BY <2>1 DEF Calm
    <3>2. CASE ev \in handled
      BY <3>1, <3>2 DEF Known
    <3>3. CASE ev \notin handled /\ blind' = blind \cup (log \ handled)
      BY <3>3
    <3>4. CASE Ahead' = <<StartOver(0, AnyTopic, counter)>>
      <4>1. /\ 1 \in 1..Len(Ahead') /\ Ahead'[1].what = Resync
            /\ Ahead'[1].upto = counter
        BY <3>4 DEF StartOver
      <4>2. Ahead'[1] \in ToSet(Ahead')
        BY <2>1, <4>1, InAhead
      <4>3. ev.id <= Ahead'[1].upto
        BY <4>1 DEF LogOK
      <4>4. QED
        BY <4>1, <4>2, <4>3 DEF Coming
    <3>5. CASE /\ ev \notin handled
               /\ last # Null /\ ~ Lost(last) /\ Ahead' = Newer(last)
               /\ blind' = blind \cup {e \in log \ handled : e.id <= last}
      <4>1. CASE ev.id <= last
        BY <3>5, <4>1
      <4>2. CASE ~ (ev.id <= last)
        <5>1. ev.id \in Nat /\ last \in Nat
          BY <3>5, LogFacts DEF Typed
        <5>2. Kept(ev) /\ ev.id > last
          BY <4>2, <5>1 DEF NewestKept
        <5>3. \E i \in 1..Len(Ahead') : Ahead'[i] = ev
          BY <3>5, <5>2, Replayed
        <5>4. ev \in ToSet(Ahead')
          BY <2>1, <5>3, InAhead
        <5>5. QED
          BY <5>4 DEF Coming
      <4>3. QED
        BY <4>1, <4>2
    <3>6. QED
      BY <2>2, <3>2, <3>3, <3>4, <3>5
  <2>4. log' = log
    BY <2>1 DEF Calm
  <2>5. QED
    BY <2>3, <2>4 DEF NothingElseLost
<1>4. ASSUME NEW x, Take(x) PROVE NothingElseLost'
  <2>1. /\ Ahead \in Seq(Event) /\ Ahead # <<>> /\ x = Ahead[1]
        /\ Ahead' = Tail(Ahead)
    BY <1>4, AheadIs, TakeIsHead
  <2>2. /\ Len(Ahead') = Len(Ahead) - 1 /\ Len(Ahead) \in Nat \ {0}
        /\ \A i \in 1..Len(Ahead') : Ahead'[i] = Ahead[i + 1]
        /\ Ahead' \in Seq(Event)
    BY <2>1, HeadTailProperties, EmptySeq
  <2>3. UNCHANGED <<phase, member, log, blind>>
    BY <1>4 DEF Take, busVars
  <2>4. IF x.what = Resync THEN covered' = x.upto /\ handled' = handled
        ELSE handled' = handled \cup {x} /\ covered' = covered
    BY <1>4 DEF Take
  <2>5. 1 \in 1..Len(Ahead)
    BY <2>2
  <2>6. covered \in Nat /\ covered' \in Nat /\ covered <= covered'
    <3>1. covered \in Nat /\ x.upto \in Nat
      BY <2>1, <2>5, AheadFacts DEF LogOK
    <3>2. x.what = Resync => covered <= x.upto
      BY <2>1, <2>5 DEF Resyncs
    <3>3. QED
      BY <2>4, <3>1, <3>2
  <2>7. \A e : /\ e \in ToSet(Ahead) <=> \E i \in 1..Len(Ahead) : e = Ahead[i]
               /\ e \in ToSet(Ahead') <=>
                    \E i \in 1..Len(Ahead') : e = Ahead'[i]
    BY <2>1, <2>2, InAhead
  <2>8. \A e \in ToSet(Ahead') : e \in ToSet(Ahead)
    <3>1. ASSUME NEW i \in 1..Len(Ahead')
          PROVE  Ahead'[i] \in ToSet(Ahead)
      <4>1. i + 1 \in 1..Len(Ahead) /\ Ahead'[i] = Ahead[i + 1]
        BY <2>2
      <4>2. QED
        BY <2>7, <4>1
    <3>2. QED
      BY <2>7, <3>1
  <2>9. \A e \in ToSet(Ahead) : e = x \/ e \in ToSet(Ahead')
    <3>1. ASSUME NEW i \in 1..Len(Ahead)
          PROVE  Ahead[i] = x \/ Ahead[i] \in ToSet(Ahead')
      <4>1. CASE i = 1
        BY <2>1, <4>1
      <4>2. CASE i # 1
        <5>1. i - 1 \in 1..Len(Ahead') /\ i - 1 + 1 = i
          BY <2>2, <4>2
        <5>2. Ahead[i] = Ahead'[i - 1]
          BY <2>2, <5>1
        <5>3. QED
          BY <2>7, <5>1, <5>2
      <4>3. QED
        BY <4>1, <4>2
    <3>2. QED
      BY <2>7, <3>1
  <2>10. ASSUME NEW ev \in log, phase \in {"replay", "live", "over"}
        PROVE  (Known(ev) \/ Coming(ev) \/ Behind(ev) \/ ev \in blind)'
    <3>1. ev.id \in Nat /\ ev.what # Resync
      BY LogFacts
    <3>2. CASE Known(ev)
      BY <2>4, <2>6, <3>1, <3>2 DEF Known
    <3>3. CASE Coming(ev)
      <4>1. PICK e \in ToSet(Ahead) :
              e = ev \/ (e.what = Resync /\ ev.id <= e.upto)
        BY <3>3 DEF Coming
      <4>2. CASE e = x
        BY <2>4, <3>1, <4>1, <4>2 DEF Known
      <4>3. CASE e \in ToSet(Ahead')
        BY <4>1, <4>3 DEF Coming
      <4>4. QED
        BY <2>9, <4>2, <4>3
    <3>4. CASE Behind(ev)
      BY <2>3, <2>8, <3>4 DEF Behind
    <3>5. QED
      BY <2>3, <2>10, <3>2, <3>3, <3>4 DEF NothingElseLost
  <2>11. QED
    BY <2>3, <2>10 DEF NothingElseLost
<1>5. ASSUME NEW t \in Topics, NEW w \in Whats, Announce(t, w)
      PROVE  NothingElseLost'
  <2> DEFINE n == Len(Ahead)
  <2> PICK ev : ev = News(counter + 1, t, w)
    OBVIOUS
  <2>1. /\ ev \in Event /\ ev.id = counter + 1
        /\ log' = IF t \in Feed THEN log \cup {ev} ELSE log
        /\ blind' = IF t \in Feed /\ phase = "replay" THEN blind \cup {ev}
                    ELSE blind
        /\ UNCHANGED <<phase, handled, covered>>
    BY <1>5, RingGrows DEF Announce
  <2>2. /\ n \in Nat /\ Ahead \in Seq(Event) /\ counter \in Nat
        /\ \A e \in ToSet(Ahead) : e.id \in Nat /\ e.id <= counter
        /\ \A e \in log : e.id \in Nat /\ e.id <= counter
    BY AheadFacts, InAhead, LogFacts DEF LogOK
  <2>3. \/ /\ Ahead' = Ahead /\ UNCHANGED member
           /\ ~ member \/ t \notin Feed
        \/ Ahead' = Append(Ahead, ev) /\ member
        \/ Overflown(ev)
    BY <1>5, Published
  <2>4. \A e \in log : Known(e) => Known(e)'
    BY <2>1 DEF Known
  <2>5. CASE /\ Ahead' = Ahead /\ UNCHANGED member
             /\ ~ member \/ t \notin Feed
    <3>1. ASSUME NEW e \in log, phase \in {"replay", "live", "over"}
          PROVE  (Known(e) \/ Coming(e) \/ Behind(e) \/ e \in blind)'
      <4>1. Coming(e) => Coming(e)'
        BY <2>5 DEF Coming
      <4>2. Behind(e) => Behind(e)'
        BY <2>1, <2>5 DEF Behind
      <4>3. QED
        BY <2>1, <2>4, <3>1, <4>1, <4>2 DEF NothingElseLost
    <3>2. ASSUME t \in Feed, phase \in {"replay", "live", "over"}
          PROVE  (Behind(ev) \/ ev \in blind)'
      <4>1. CASE phase = "replay"
        BY <2>1, <3>2, <4>1
      <4>2. CASE phase \in {"live", "over"}
        <5>1. \A e \in ToSet(Ahead) : e.id < ev.id
          BY <2>1, <2>2
        <5>2. QED
          BY <2>1, <2>5, <3>2, <4>2, <5>1 DEF Behind
      <4>3. QED
        BY <3>2, <4>1, <4>2
    <3>3. QED
      BY <2>1, <3>1, <3>2 DEF NothingElseLost
  <2>6. CASE Ahead' = Append(Ahead, ev) /\ member
    <3>1. \A e : e \in ToSet(Ahead') <=> (e \in ToSet(Ahead) \/ e = ev)
      <4>1. /\ Len(Ahead') = n + 1 /\ Ahead'[n + 1] = ev
            /\ Ahead' \in Seq(Event)
            /\ \A i \in 1..n : Ahead'[i] = Ahead[i]
        BY <2>1, <2>2, <2>6
      <4>2. \A i \in 1..(n + 1) : i \in 1..n \/ i = n + 1
        BY <2>2
      <4>3. n + 1 \in 1..(n + 1) /\ \A i \in 1..n : i \in 1..(n + 1)
        BY <2>2
      <4>4. QED
        BY <2>2, <4>1, <4>2, <4>3, InAhead
    <3>2. ASSUME NEW e \in log, phase \in {"replay", "live", "over"}
          PROVE  (Known(e) \/ Coming(e) \/ e \in blind)'
      <4>1. Coming(e) => Coming(e)'
        BY <3>1 DEF Coming
      <4>2. ~ Behind(e)
        BY <2>6 DEF Behind
      <4>3. QED
        BY <2>1, <2>4, <3>2, <4>1, <4>2 DEF NothingElseLost
    <3>3. Coming(ev)'
      BY <3>1 DEF Coming
    <3>4. QED
      BY <2>1, <3>2, <3>3 DEF NothingElseLost
  <2>7. CASE Overflown(ev)
    <3>1. /\ n \in 1..n /\ Len(Ahead') = n /\ Ahead' \in Seq(Event)
          /\ Ahead'[n] = StartOver(ev.id + 1, ev.topic, ev.id)
      BY <2>2, <2>7 DEF Overflown
    <3>2. Ahead'[n] \in ToSet(Ahead')
      BY <3>1, InAhead
    <3>3. Ahead'[n].what = Resync /\ Ahead'[n].upto = ev.id
      BY <3>1 DEF StartOver
    <3>4. \A e \in log' : e.id <= ev.id
      BY <2>1, <2>2
    <3>5. \A e \in log' : Coming(e)'
      BY <3>2, <3>3, <3>4 DEF Coming
    <3>6. QED
      BY <3>5 DEF NothingElseLost
  <2>8. QED
    BY <2>3, <2>5, <2>6, <2>7
<1>6. QED
  BY <1>1, <1>2, <1>3, <1>4, <1>5, StreamMoves

-----------------------------------------------------------------------------
(***************************************************************************)
(* The limits, and the views.                                              *)
(***************************************************************************)
\* Rings, queue and transport within their limits (_trim, publish, Room).
Limits ==
  /\ \A t \in Topics : Len(ring[t]) <= RingMax
  /\ Len(queue) <= QueueMax /\ Len(wire) <= WireMax

\* The part of TypeOK that speaks of the views.
ViewsTyped ==
  /\ db \in [Requests -> Statuses]
  /\ cache \in {Null} \cup
       [entry : [Requests -> Statuses \cup {Null}], resync : BOOLEAN]
  /\ fetch \in {Null} \cup [Requests -> Statuses]
  /\ answers \subseteq Requests
  /\ count \in Nat /\ counted \in Nat
  /\ refresh \in {"idle", "sent", "back"}
  /\ mine \in {Null} \cup [req : Requests, answer : {Null, "done", "failed"}]

\* The type invariant is that of the stream, its limits and that of the views.
LEMMA TypeParts ==
  TypeOK <=> Typed /\ Limits /\ ViewsTyped
BY DEF TypeOK, Typed, Limits, ViewsTyped

\* Publishing trims a ring and evicts from a full queue; forwarding waits for
\* room.
LEMMA LimitsKept ==
  ASSUME Typed, StreamInv, TypeOK, [Next]_vars
  PROVE  Limits'
<1> USE DEF StreamInv
<1>1. Limits /\ RingMax \in Nat /\ QueueMax \in Nat /\ WireMax \in Nat
      /\ QueueMax > 0
  BY TypeParts, BusAssumption, ViewsAssumption
<1>2. Len(<<>>) = 0
  OBVIOUS
<1>3. CASE UNCHANGED <<busVars, streamVars>> \/ Subscribe \/ Connect
  BY <1>1, <1>3 DEF busVars, streamVars, Subscribe, Connect, Limits
<1>4. CASE Begin
  <2>1. UNCHANGED <<ring, wire>> /\ queue' = <<>>
    BY <1>4 DEF Begin
  <2>2. QED
    BY <1>1, <1>2, <2>1 DEF Limits
<1>5. CASE Replay
  <2>1. UNCHANGED <<ring, queue>> /\ Len(wire') = Len(wire) + 1
        /\ Len(wire) < WireMax /\ Len(wire) \in Nat
    BY <1>5 DEF Replay, Room, busVars, Typed
  <2>2. QED
    BY <1>1, <2>1 DEF Limits
<1>6. CASE Forward
  <2>1. /\ UNCHANGED ring /\ Len(wire') = Len(wire) + 1
        /\ Len(wire) < WireMax /\ Len(wire) \in Nat
        /\ queue \in Seq(Event) /\ queue # <<>> /\ queue' = Tail(queue)
    BY <1>6 DEF Forward, Room, Typed
  <2>2. Len(queue') <= Len(queue) /\ Len(queue) \in Nat /\ Len(queue') \in Nat
    BY <2>1, HeadTailProperties
  <2>3. QED
    BY <1>1, <2>1, <2>2 DEF Limits
<1>7. CASE Eof \/ Cut \/ Forget
  <2>1. ring' = ring /\ wire' = <<>> /\ queue' = <<>>
    BY <1>7, Closed DEF Eof, Cut, Forget
  <2>2. QED
    BY <1>1, <1>2, <2>1 DEF Limits
<1>8. CASE Restart
  <2>1. ring' = [t \in Topics |-> <<>>] /\ wire' = <<>> /\ queue' = <<>>
    BY <1>8, Closed DEF Restart
  <2>2. QED
    BY <1>1, <1>2, <2>1 DEF Limits
<1>9. ASSUME NEW ev, Take(ev) PROVE Limits'
  <2>1. /\ UNCHANGED <<ring, queue>>
        /\ wire \in Seq(Event) /\ wire # <<>> /\ wire' = Tail(wire)
    BY <1>9 DEF Take, busVars, Typed
  <2>2. Len(wire') <= Len(wire) /\ Len(wire) \in Nat /\ Len(wire') \in Nat
    BY <2>1, HeadTailProperties
  <2>3. QED
    BY <1>1, <2>1, <2>2 DEF Limits
<1>10. ASSUME NEW t \in Topics, NEW w \in Whats, Announce(t, w)
       PROVE  Limits'
  <2> DEFINE ev == News(counter + 1, t, w)
  <2>1. wire' = wire /\ Publish(ev)
    BY <1>10 DEF Announce
  <2>2. \A u \in Topics : Len(ring'[u]) <= RingMax
    <3>1. Len(ring'[t]) <= RingMax /\ \A u \in Topics \ {t} : ring'[u] = ring[u]
      BY <1>10, RingGrows
    <3>2. QED
      BY <1>1, <3>1 DEF Limits
  <2>3. ev \in Event /\ StartOver(ev.id + 1, ev.topic, ev.id) \in Event
    BY DEF News, StartOver, Event, Typed
  <2> HIDE DEF ev
  <2>4. Len(queue') <= QueueMax
    <3>1. queue \in Seq(Event) /\ Len(queue) \in Nat
      BY DEF Typed
    <3>2. CASE queue' = queue
      BY <1>1, <3>2 DEF Limits
    <3>3. CASE Len(queue) < QueueMax /\ queue' = Append(queue, ev)
      BY <1>1, <2>3, <3>1, <3>3
    <3>4. CASE Len(queue) = QueueMax /\ Overflow(ev)
      <4>1. queue # <<>>
        BY <1>1, <1>2, <3>4
      <4>2. Tail(queue) \in Seq(Event) /\ Len(Tail(queue)) = Len(queue) - 1
        BY <3>1, <4>1, HeadTailProperties
      <4>3. queue' = Append(Tail(queue), StartOver(ev.id + 1, ev.topic, ev.id))
        BY <3>4 DEF Overflow
      <4>4. Len(queue') = Len(queue) - 1 + 1
        BY <2>3, <4>2, <4>3
      <4>5. QED
        BY <1>1, <3>1, <3>4, <4>4
    <3>5. QED
      BY <2>1, <3>2, <3>3, <3>4 DEF Publish
  <2>5. QED
    BY <1>1, <2>1, <2>2, <2>4 DEF Limits
<1>11. QED
  BY <1>3, <1>4, <1>5, <1>6, <1>7, <1>8, <1>9, <1>10, StreamMoves

\* A request that is decided stays as it is decided, and what is announced of
\* a decision has been committed with it.
LEMMA Decided ==
  ASSUME TypeOK, [Next]_vars
  PROVE  /\ db' \in [Requests -> Statuses]
         /\ \A r \in Requests : db[r] \in Final => db'[r] = db[r]
         /\ \A ev \in log' : ev \in log \/ Told(ev.what)'
<1>1. db \in [Requests -> Statuses]
  BY DEF TypeOK
<1>2. "none" \notin Final /\ "pending" \notin Final /\ Null \notin Final
  BY ViewsAssumption
<1>3. \A t, w : News(counter + 1, t, w).what = w
  BY DEF News
<1>4. \A t, w : Announce(t, w) =>
        \A ev \in log' : ev \in log \/ ev.what = w
  BY <1>3 DEF Announce
<1>5. ASSUME NEW r \in Requests, Propose(r)
      PROVE  /\ db' \in [Requests -> Statuses]
             /\ \A q \in Requests : db[q] \in Final => db'[q] = db[q]
             /\ \A ev \in log' : ev \in log \/ Told(ev.what)'
  <2>1. db[r] = "none" /\ db' = [db EXCEPT ![r] = "pending"]
        /\ Announce(Approvals, About(r, Null))
    BY <1>5 DEF Propose
  <2>2. Told(About(r, Null))'
    BY DEF Told, About
  <2>3. QED
    BY <1>1, <1>2, <1>4, <2>1, <2>2 DEF Statuses
<1>6. ASSUME NEW r \in Requests, NEW s \in Final, db[r] \notin Final,
             db' = [db EXCEPT ![r] = s],
             Announce(Approvals, About(r, s)) \/ log' = log
      PROVE  /\ db' \in [Requests -> Statuses]
             /\ \A q \in Requests : db[q] \in Final => db'[q] = db[q]
             /\ \A ev \in log' : ev \in log \/ Told(ev.what)'
  <2>1. db'[r] = s
    BY <1>1, <1>6
  <2>2. Told(About(r, s))'
    BY <2>1 DEF Told, About
  <2>3. \A ev \in log' : ev \in log \/ ev.what = About(r, s)
    BY <1>4, <1>6
  <2>4. \A ev \in log' : ev \in log \/ Told(ev.what)'
    BY <2>2, <2>3
  <2>5. db' \in [Requests -> Statuses]
    BY <1>1, <1>6 DEF Statuses
  <2>6. \A q \in Requests : db[q] \in Final => db'[q] = db[q]
    BY <1>1, <1>6
  <2>7. QED
    BY <2>4, <2>5, <2>6
<1>7. ASSUME NEW r \in Requests, NEW s \in Final,
             ArriveDecided(r, s) \/ Decide(r, s) \/ DecideSilently(r, s)
      PROVE  /\ db[r] \notin Final /\ db' = [db EXCEPT ![r] = s]
             /\ Announce(Approvals, About(r, s)) \/ log' = log
  BY <1>2, <1>7 DEF ArriveDecided, Decide, DecideSilently, Waits, streamVars
<1>8. ASSUME NEW t, Happen(t)
      PROVE  db' = db /\ \A ev \in log' : ev \in log \/ Told(ev.what)'
  <2>1. Elsewhere \notin ApprovalNews
    <3>1. \A r, o : About(r, o).req = r
      BY DEF About
    <3>2. Null \notin Requests
      BY ViewsAssumption
    <3>3. QED
      BY <3>1, <3>2 DEF Elsewhere, ApprovalNews
  <2>2. Told(Elsewhere)'
    BY <2>1 DEF Told
  <2>3. QED
    BY <1>4, <1>8, <2>2 DEF Happen
<1>9. CASE db' = db /\ log' \subseteq log
  BY <1>1, <1>9
<1>10. CASE Pipeline
  <2>1. CASE \E r \in Requests : Propose(r)
    BY <1>5, <2>1
  <2>2. CASE \E r \in Requests, s \in Final :
               ArriveDecided(r, s) \/ Decide(r, s) \/ DecideSilently(r, s)
    BY <1>6, <1>7, <2>2
  <2>3. CASE \E t \in Topics : Happen(t)
    BY <1>1, <1>8, <2>3
  <2>4. QED
    BY <1>10, <2>1, <2>2, <2>3 DEF Pipeline
<1>11. CASE CacheStep
  <2>1. db' = db /\ log' = log
    BY <1>11 DEF CacheStep, RestartMcp, Forget, ReadAsCache, Take, Ask, Merge,
                 NotePending, streamVars
  <2>2. QED
    BY <1>9, <2>1
<1>12. CASE TabStep
  <2>1. CASE \E s \in Final : Submit(s)
    <3>1. PICK s \in Final : Submit(s)
      BY <2>1
    <3>2. CASE /\ Waits(mine.req) /\ db' = [db EXCEPT ![mine.req] = s]
               /\ Announce(Approvals, About(mine.req, s))
      <4>1. mine.req \in Requests /\ db[mine.req] \notin Final
        BY <1>2, <3>1, <3>2 DEF Submit, TypeOK, Waits
      <4>2. QED
        BY <1>6, <3>2, <4>1
    <3>3. CASE UNCHANGED <<streamVars, db>>
      BY <1>9, <3>3 DEF streamVars
    <3>4. QED
      BY <3>1, <3>2, <3>3 DEF Submit
  <2>2. CASE ~ \E s \in Final : Submit(s)
    <3>1. db' = db /\ log' = log
      BY <1>12, <2>2 DEF TabStep, Reopen, Forget, ReadAsTab, Take, Revisit,
                         CountOnServer, ShowCount, Undo, Answered, DecideHere,
                         viewVars, streamVars
    <3>2. QED
      BY <1>9, <3>1
  <2>3. QED
    BY <2>1, <2>2
<1>13. CASE StreamStep
  <2>1. db' = db
    BY <1>13 DEF StreamStep
  <2>2. log' = log \/ log' = {}
    BY <1>13 DEF StreamStep, Begin, Replay, Subscribe, Forward, Eof, Cut,
                 Connect, Restart
  <2>3. QED
    BY <1>9, <2>1, <2>2
<1>14. CASE UNCHANGED vars
  BY <1>9, <1>14 DEF vars, streamVars
<1>15. QED
  BY <1>10, <1>11, <1>12, <1>13, <1>14 DEF Next

\* What the agent is told, by the backend or by an event, is so.
LEMMA CacheKept ==
  ASSUME TypeOK, Numbers(Ahead), ViewsInv, [Next]_vars
  PROVE  /\ cache' \in {Null} \cup
              [entry : [Requests -> Statuses \cup {Null}], resync : BOOLEAN]
         /\ fetch' \in {Null} \cup [Requests -> Statuses]
         /\ answers' \subseteq Requests
         /\ ViewsInv'
<1> DEFINE Cache == [entry : [Requests -> Statuses \cup {Null}],
                     resync : BOOLEAN]
<1>1. /\ db \in [Requests -> Statuses] /\ cache \in {Null} \cup Cache
      /\ fetch \in {Null} \cup [Requests -> Statuses]
      /\ answers \subseteq Requests
  BY DEF TypeOK
<1>2. /\ db' \in [Requests -> Statuses]
      /\ \A r \in Requests : db[r] \in Final => db'[r] = db[r]
      /\ \A ev \in log' : ev \in log \/ Told(ev.what)'
  BY Decided
<1>3. /\ "none" \notin Final /\ "pending" \notin Final /\ Null \notin Final
      /\ Final \subseteq Statuses /\ {"none", "pending"} \subseteq Statuses
  BY ViewsAssumption DEF Statuses
<1>4. Opened \in Cache
  <2>1. NoEntries \in Cache
    BY DEF NoEntries
  <2>2. QED
    BY <1>1, <2>1 DEF Opened
<1>5. \A r \in Requests : Opened.entry[r] \in Final => db[r] = Opened.entry[r]
  <2>1. \A r \in Requests : NoEntries.entry[r] \notin Final
    BY <1>3 DEF NoEntries
  <2>2. QED
    BY <2>1 DEF Opened, ViewsInv, CachedDecisionsTrue
<1>6. \A ev \in log' : Told(ev.what)'
  <2>1. ASSUME NEW ev \in log, Told(ev.what) PROVE Told(ev.what)'
    <3>1. CASE ev.what \in ApprovalNews /\ ev.what.outcome # Null
      <4>1. PICK r \in Requests, o \in Final \cup {Null} :
              ev.what = About(r, o)
        BY <3>1 DEF ApprovalNews
      <4>2. ev.what.req = r /\ ev.what.outcome = o /\ o \in Final
        BY <3>1, <4>1 DEF About
      <4>3. db[r] = o
        BY <2>1, <3>1, <4>2 DEF Told
      <4>4. QED
        BY <1>2, <4>2, <4>3 DEF Told
    <3>2. CASE ~ (ev.what \in ApprovalNews /\ ev.what.outcome # Null)
      BY <3>2 DEF Told
    <3>3. QED
      BY <3>1, <3>2
  <2>2. QED
    BY <1>2, <2>1 DEF ViewsInv
<1>7. ASSUME fetch' \in {Null, fetch} \/ (fetch' = db /\ db' = db)
      PROVE  /\ fetch' \in {Null} \cup [Requests -> Statuses]
             /\ fetch' # Null =>
                  \A r \in Requests : fetch'[r] \in Final => db'[r] = fetch'[r]
  BY <1>1, <1>2, <1>7 DEF ViewsInv
<1>8. ASSUME cache' \in {Null, cache}
      PROVE  cache' \in {Null} \cup Cache /\ CachedDecisionsTrue'
  BY <1>1, <1>2, <1>8 DEF ViewsInv, CachedDecisionsTrue
<1>9. ASSUME cache' \in Cache,
             \A r \in Requests : cache'.entry[r] \in Final =>
               db[r] = cache'.entry[r]
      PROVE  CachedDecisionsTrue'
  BY <1>2, <1>9 DEF CachedDecisionsTrue
<1>10. CASE UNCHANGED mcpVars
  BY <1>1, <1>6, <1>7, <1>8, <1>10 DEF mcpVars, ViewsInv
<1>11. ASSUME NEW r \in Requests, Propose(r) PROVE UNCHANGED <<cache, fetch>>
                                    /\ answers' \subseteq Requests
  BY <1>1, <1>11 DEF Propose
<1>12. CASE Pipeline
  <2>1. UNCHANGED <<cache, fetch>> /\ answers' \subseteq Requests
    BY <1>1, <1>11, <1>12 DEF Pipeline, ArriveDecided, Decide, DecideSilently,
                             Happen, viewVars, mcpVars
  <2>2. QED
    BY <1>6, <1>7, <1>8, <2>1 DEF ViewsInv
<1>13. CASE RestartMcp
  BY <1>6, <1>7, <1>8, <1>13 DEF RestartMcp, ViewsInv
<1>14. CASE ReadAsCache
  <2>1. PICK ev \in ToSet(wire) :
          /\ Take(ev)
          /\ \/ /\ ev.what = Resync
                /\ cache' = IF cache = Null THEN Null
                            ELSE [cache EXCEPT !.resync = TRUE]
             \/ /\ ev.what \in ApprovalNews
                /\ ApplyEvent(ev.what)
             \/ /\ ev.what = Elsewhere
                /\ UNCHANGED cache
    BY <1>14 DEF ReadAsCache
  <2>2. UNCHANGED <<fetch, answers>>
    BY <1>14 DEF ReadAsCache
  <2>3. cache' \in {Null} \cup Cache /\ CachedDecisionsTrue'
    <3>1. CASE cache' = cache \/ cache' = Null
      BY <1>8, <3>1
    <3>2. CASE cache # Null /\ cache' = [cache EXCEPT !.resync = TRUE]
      <4>1. cache' \in Cache /\ cache'.entry = cache.entry
        BY <1>1, <3>2
      <4>2. QED
        BY <1>9, <3>2, <4>1 DEF ViewsInv, CachedDecisionsTrue
    <3>3. CASE ev.what \in ApprovalNews /\ ApplyEvent(ev.what)
      <4>1. PICK r \in Requests, o \in Final \cup {Null} :
              ev.what = About(r, o)
        BY <3>3 DEF ApprovalNews
      <4>2. ev.what.req = r /\ ev.what.outcome = o
        BY <4>1 DEF About
      <4>3. o # Null => db[r] = o
        <5>1. Typed
          BY TypeParts
        <5>2. Ahead \in Seq(Event) /\ Ahead # <<>> /\ ev = Ahead[1]
          BY <2>1, <5>1, AheadIs, TakeIsHead
        <5>3. 1 \in 1..Len(Ahead)
          BY <5>2
        <5>4. ev.what # Resync
          BY <3>3, BusAssumption, ViewsAssumption
        <5>5. ev \in log
          BY <5>2, <5>3, <5>4 DEF Numbers
        <5>6. QED
          BY <3>3, <4>2, <5>5 DEF ViewsInv, Told
      <4>4. PICK v \in Statuses :
              /\ v \in Final => db[r] = v
              /\ cache' = [Opened EXCEPT !.entry[r] = v]
        <5>1. CASE o = Null
          BY <1>3, <3>3, <4>2, <5>1 DEF ApplyEvent
        <5>2. CASE o # Null
          BY <1>3, <3>3, <4>2, <4>3, <5>2 DEF ApplyEvent
        <5>3. QED
          BY <5>1, <5>2
      <4>5. /\ cache' \in Cache /\ cache'.entry[r] = v
            /\ \A q \in Requests \ {r} : cache'.entry[q] = Opened.entry[q]
        BY <1>4, <4>4
      <4>6. QED
        BY <1>5, <1>9, <4>4, <4>5
    <3>4. QED
      BY <2>1, <3>1, <3>2, <3>3
  <2>4. QED
    BY <1>1, <1>6, <1>7, <2>2, <2>3 DEF ViewsInv
<1>15. CASE Ask
  <2>1. cache' = cache /\ fetch' = db /\ db' = db /\ answers' = answers
    BY <1>15 DEF Ask
  <2>2. QED
    BY <1>1, <1>6, <1>7, <1>8, <2>1 DEF ViewsInv
<1>16. CASE Merge
  <2>1. fetch # Null /\ fetch' = Null /\ answers' = answers
    BY <1>16 DEF Merge
  <2>2. cache' \in {Null} \cup Cache /\ CachedDecisionsTrue'
    <3>1. CASE cache' = cache
      BY <1>8, <3>1
    <3>2. CASE cache' = [entry |-> [r \in Requests |->
                                      IF fetch[r] = "none" THEN Opened.entry[r]
                                      ELSE fetch[r]],
                         resync |-> FALSE]
      <4>1. cache' \in Cache
        BY <1>1, <1>4, <2>1, <3>2
      <4>2. \A r \in Requests : cache'.entry[r] =
              IF fetch[r] = "none" THEN Opened.entry[r] ELSE fetch[r]
        BY <3>2
      <4>3. \A r \in Requests : cache'.entry[r] \in Final =>
              db[r] = cache'.entry[r]
        BY <1>5, <2>1, <4>2 DEF ViewsInv
      <4>4. QED
        BY <1>9, <4>1, <4>3
    <3>3. QED
      BY <1>16, <3>1, <3>2 DEF Merge
  <2>3. QED
    BY <1>1, <1>6, <1>7, <2>1, <2>2 DEF ViewsInv
<1>17. ASSUME NEW r \in Requests, NotePending(r)
       PROVE  /\ UNCHANGED fetch /\ answers' \subseteq Requests
              /\ cache' \in {Null} \cup Cache /\ CachedDecisionsTrue'
  <2>1. cache' = [Opened EXCEPT !.entry[r] = "pending"]
    BY <1>17 DEF NotePending
  <2>2. /\ cache' \in Cache /\ cache'.entry[r] = "pending"
        /\ \A q \in Requests \ {r} : cache'.entry[q] = Opened.entry[q]
    BY <1>3, <1>4, <2>1
  <2>3. CachedDecisionsTrue'
    BY <1>3, <1>5, <1>9, <2>2
  <2>4. QED
    BY <1>1, <1>17, <2>2, <2>3 DEF NotePending
<1>18. CASE TabStep
  <2>1. UNCHANGED mcpVars
    BY <1>18 DEF TabStep, Reopen, ReadAsTab, Revisit, CountOnServer, ShowCount,
                 DecideHere, Undo, Submit, Answered, viewVars
  <2>2. QED
    BY <1>10, <2>1
<1>19. CASE StreamStep \/ UNCHANGED vars
  BY <1>10, <1>19 DEF StreamStep, viewVars, vars
<1>20. CASE \E r \in Requests : NotePending(r)
  BY <1>6, <1>7, <1>17, <1>20 DEF ViewsInv
<1>21. QED
  BY <1>12, <1>13, <1>14, <1>15, <1>16, <1>18, <1>19, <1>20 DEF Next, CacheStep

\* The state of the views stays of its type.
LEMMA TabKept ==
  ASSUME TypeOK, [Next]_vars
  PROVE  /\ count' \in Nat /\ counted' \in Nat
         /\ refresh' \in {"idle", "sent", "back"}
         /\ mine' \in {Null} \cup
              [req : Requests, answer : {Null, "done", "failed"}]
<1> DEFINE Decisions == [req : Requests, answer : {Null, "done", "failed"}]
<1>1. /\ count \in Nat /\ counted \in Nat
      /\ refresh \in {"idle", "sent", "back"}
      /\ mine \in {Null} \cup Decisions
  BY DEF TypeOK
<1>2. /\ Less \in Nat /\ count + 1 \in Nat
      /\ Requested \in {"idle", "sent", "back"}
  BY <1>1 DEF Less, Requested
<1>3. Waiting \in Nat
  <2> DEFINE S == {r \in Requests : Waits(r)}
  <2>1. IsFiniteSet(S)
    <3>1. S \subseteq Requests /\ IsFiniteSet(Requests)
      BY ViewsAssumption
    <3> HIDE DEF S
    <3>2. QED
      BY <3>1, FS_Subset
  <2>2. QED
    BY <2>1, FS_CardinalityType DEF Waiting
<1>4. \A r \in Requests : [req |-> r, answer |-> Null] \in Decisions
  OBVIOUS
<1>5. mine # Null =>
        /\ [mine EXCEPT !.answer = "done"] \in Decisions
        /\ [mine EXCEPT !.answer = "failed"] \in Decisions
  BY <1>1
<1> HIDE DEF Decisions
<1>6. CASE UNCHANGED tabVars
  BY <1>1, <1>6 DEF tabVars, Decisions
<1>7. CASE Pipeline \/ CacheStep \/ StreamStep \/ UNCHANGED vars
  <2>1. UNCHANGED tabVars
    BY <1>7 DEF Pipeline, Propose, ArriveDecided, Decide, DecideSilently, Happen,
                CacheStep, RestartMcp, ReadAsCache, Ask, Merge, NotePending,
                StreamStep, viewVars, vars
  <2>2. QED
    BY <1>6, <2>1
<1>8. CASE TabStep
  <2>1. CASE Reopen \/ Revisit
    BY <1>1, <2>1 DEF Reopen, Revisit, viewVars, tabVars, Decisions
  <2>2. CASE ReadAsTab
    <3>1. /\ count' \in {count, count + 1, Less}
          /\ refresh' \in {refresh, Requested}
          /\ UNCHANGED <<counted, mine>>
      BY <2>2 DEF ReadAsTab
    <3>2. QED
      BY <1>1, <1>2, <3>1 DEF Decisions
  <2>3. CASE CountOnServer \/ ShowCount
    <3>1. /\ count' \in {count, counted} /\ counted' \in {Waiting, 0}
          /\ refresh' \in {"idle", "back"} /\ mine' = mine
      BY <2>3 DEF CountOnServer, ShowCount
    <3>2. QED
      BY <1>1, <1>3, <3>1 DEF Decisions
  <2>4. CASE Undo \/ Answered
    <3>1. /\ count' \in {count, count + 1} /\ refresh' \in {refresh, Requested}
          /\ counted' = counted /\ mine' = Null
      BY <2>4 DEF Undo, Answered
    <3>2. QED
      BY <1>1, <1>2, <3>1
  <2>5. CASE \E r \in Requests : DecideHere(r)
    BY <1>1, <1>2, <1>4, <2>5 DEF DecideHere, Decisions
  <2>6. CASE \E s \in Final : Submit(s)
    <3>1. /\ mine # Null /\ UNCHANGED <<count, refresh, counted>>
          /\ \/ mine' = [mine EXCEPT !.answer = "done"]
             \/ mine' = [mine EXCEPT !.answer = "failed"]
      BY <2>6 DEF Submit
    <3>2. QED
      BY <1>1, <1>5, <3>1 DEF Decisions
  <2>7. QED
    BY <1>8, <2>1, <2>2, <2>3, <2>4, <2>5, <2>6 DEF TabStep
<1>9. QED
  BY <1>7, <1>8 DEF Next

-----------------------------------------------------------------------------
(***************************************************************************)
(* The invariant.                                                          *)
(***************************************************************************)
\* The types, what the stream keeps, and what the views keep.
LiveInv == TypeOK /\ StreamInv /\ ViewsInv

\* The invariant holds of a process that has just started.
LEMMA InitLive ==
  Init => LiveInv
<1> SUFFICES ASSUME Init PROVE LiveInv
  OBVIOUS
<1>1. /\ wire = <<>> /\ left = <<>> /\ queue = <<>> /\ log = {} /\ handled = {}
      /\ counter = 0 /\ covered = 0 /\ last = Null /\ phase = "none"
      /\ member = FALSE /\ ring = [t \in Topics |-> <<>>] /\ client \in Clients
      /\ cache = Null /\ fetch = Null
  BY DEF Init
<1>2. Len(<<>>) = 0 /\ <<>> \in Seq(Event)
  OBVIOUS
<1>3. Limits
  BY <1>1, <1>2, BusAssumption, ViewsAssumption DEF Limits
<1>4. Typed
  BY <1>1, <1>2 DEF Typed
<1>5. ViewsTyped
  BY ViewsAssumption DEF Init, ViewsTyped, Statuses
<1>6. Ahead = <<>>
  BY <1>1, <1>4, AheadIs
<1>7. Feed \subseteq Topics
  BY <1>1, FeedOfTopics
<1>8. LogOK /\ RingsOK /\ NewestKept
  BY <1>1, <1>2, <1>7 DEF LogOK, RingsOK, NewestKept
<1>9. StageOK
  BY <1>1, <1>2 DEF StageOK
<1>10. Numbers(Ahead) /\ Resyncs(Ahead)
  BY <1>2, <1>6 DEF Numbers, Resyncs
<1>11. Position /\ NothingElseLost
  BY <1>1 DEF Position, NothingElseLost
<1>12. ViewsInv
  BY <1>1 DEF ViewsInv, CachedDecisionsTrue
<1>13. QED
  BY <1>3, <1>4, <1>5, <1>8, <1>9, <1>10, <1>11, <1>12, TypeParts
     DEF LiveInv, StreamInv

\* Every step of the stream and the views keeps the invariant.
LEMMA NextLive ==
  LiveInv /\ [Next]_vars => LiveInv'
<1> SUFFICES ASSUME LiveInv, [Next]_vars PROVE LiveInv'
  OBVIOUS
<1>1. TypeOK /\ StreamInv /\ ViewsInv /\ Typed
  BY TypeParts DEF LiveInv
<1>2. Typed'
  BY <1>1, TypedKept
<1>3. LogOK' /\ RingsOK' /\ NewestKept' /\ StageOK'
  BY <1>1, LogKept, RingsKept, StageKept
<1>4. Numbers(Ahead)' /\ Resyncs(Ahead)' /\ Position' /\ NothingElseLost'
  BY <1>1, <1>2, NumbersKept, ResyncsKept, PositionKept, PromiseKept
<1>5. Limits'
  BY <1>1, LimitsKept
<1>6. /\ cache' \in {Null} \cup
           [entry : [Requests -> Statuses \cup {Null}], resync : BOOLEAN]
      /\ fetch' \in {Null} \cup [Requests -> Statuses]
      /\ answers' \subseteq Requests
      /\ ViewsInv'
  BY <1>1, CacheKept DEF StreamInv
<1>7. ViewsTyped'
  BY <1>1, <1>6, Decided, TabKept DEF ViewsTyped
<1>8. TypeOK'
  BY <1>2, <1>5, <1>7 DEF TypeOK, Typed, Limits, ViewsTyped
<1>9. QED
  BY <1>3, <1>4, <1>6, <1>8 DEF LiveInv, StreamInv

\* What is on its way is in order, and above what was handled.
LEMMA OrderOf ==
  LiveInv => ReadInOrder
<1> SUFFICES ASSUME LiveInv PROVE ReadInOrder
  OBVIOUS
<1>1. Typed /\ StreamInv /\ Numbers(Ahead)
  BY TypeParts DEF LiveInv, StreamInv
<1>2. Len(Ahead) \in Nat
  BY <1>1, AheadFacts
<1>3. ASSUME NEW j \in 1..Len(Ahead), Ahead[j].what # Resync
      PROVE  /\ \A i \in 1..(j - 1) : Ahead[i].id < Ahead[j].id
             /\ \A e \in handled : e.id < Ahead[j].id
  <2>1. \A i \in 1..(j - 1) : i \in 1..Len(Ahead) /\ i < j
    BY <1>2
  <2>2. Ahead[j].id \in Nat /\ Ahead[j].id >= 1
    BY <1>1, <1>3, AheadFacts
  <2>3. Ahead[j].id # 0
    BY <2>2
  <2>4. QED
    BY <1>1, <2>1, <2>3 DEF Numbers
<1>4. QED
  BY <1>3 DEF ReadInOrder

-----------------------------------------------------------------------------
(***************************************************************************)
(* The stream implements Subscription.                                     *)
(***************************************************************************)
\* What fell into a hole had been published to the client.
HolesOK == blind \subseteq log

LEMMA HolesKept ==
  ASSUME HolesOK, StageOK, LogOK, RingsOK, TypeOK, [Next]_vars
  PROVE  HolesOK'
<1>1. CASE Begin
  <2>1. Calm
    BY <1>1, CalmSteps
  <2>2. blind' \subseteq blind \cup log
    BY <1>1 DEF Begin
  <2>3. QED
    BY <2>1, <2>2 DEF Calm, HolesOK
<1>2. CASE Restart
  BY <1>2 DEF Restart, HolesOK
<1>3. ASSUME NEW t \in Topics, NEW w \in Whats, Announce(t, w)
      PROVE  HolesOK'
  <2>1. \/ t \notin Feed /\ log' = log /\ blind' = blind
        \/ /\ t \in Feed /\ log' = log \cup {News(counter + 1, t, w)}
           /\ blind' \subseteq blind \cup {News(counter + 1, t, w)}
    BY <1>3 DEF Announce
  <2>2. QED
    BY <2>1 DEF HolesOK
<1>4. CASE UNCHANGED <<log, blind>>
  BY <1>4 DEF HolesOK
<1>5. ASSUME \/ UNCHANGED <<busVars, streamVars>>
             \/ Replay \/ Subscribe \/ Forward \/ Eof \/ Cut \/ Connect
             \/ Forget \/ \E ev : Take(ev)
      PROVE  UNCHANGED <<log, blind>>
  BY <1>5 DEF busVars, streamVars, Replay, Subscribe, Forward, Eof, Cut,
              Connect, Forget, Take
<1>6. QED
  BY <1>1, <1>2, <1>3, <1>4, <1>5, StreamMoves

\* A start-over is owed for what was published, is neither known, nor in a
\* hole, nor on its way, and is stood for by a resync that is.
LEMMA DueIs ==
  /\ \A e : e \in Due <=>
       /\ e \in log /\ e \notin blind /\ e \notin handled
       /\ ~ (e.id <= covered) /\ e \notin ToSet(Ahead)
       /\ \E x \in ToSet(Ahead) : x.what = Resync /\ e.id <= x.upto
  /\ \A e : e \in Due' <=>
       /\ e \in log' /\ e \notin blind' /\ e \notin handled'
       /\ ~ (e.id <= covered') /\ e \notin ToSet(Ahead')
       /\ \E x \in ToSet(Ahead') : x.what = Resync /\ e.id <= x.upto
BY DEF Due, Known, Coming

\* Without a resync on its way nothing is due.
LEMMA NothingDue ==
  /\ (\A x \in ToSet(Ahead) : x.what # Resync) => Due = {}
  /\ (\A x \in ToSet(Ahead') : x.what # Resync) => Due' = {}
BY DueIs

\* The stream is down until a request has been answered.
LEMMA DownIs ==
  ASSUME Typed, Typed', StageOK
  PROVE  /\ Stage = "down" <=> phase \in {"none", "asked"}
         /\ Stage' = "down" <=> phase' \in {"none", "asked"}
         /\ Stage = "down" => Due = {}
         /\ Stage = "catching up" <=> phase = "replay"
         /\ Stage' = "catching up" <=> phase' = "replay"
         /\ Stage = "live" <=> phase \in {"live", "over"} /\ member
         /\ Stage' = "live" <=> phase' \in {"live", "over"} /\ member'
         /\ Stage = "closing" <=> phase \in {"live", "over"} /\ ~ member
         /\ Stage' = "closing" <=> phase' \in {"live", "over"} /\ ~ member'
<1>1. /\ phase \in {"none", "asked", "replay", "live", "over"}
      /\ phase' \in {"none", "asked", "replay", "live", "over"}
  BY DEF Typed
<1>2. Stage = "down" <=> phase \in {"none", "asked"}
  BY <1>1 DEF Stage
<1>3. Stage = "down" => Due = {}
  <2>1. SUFFICES ASSUME Stage = "down" PROVE Due = {}
    OBVIOUS
  <2>2. Ahead = <<>>
    BY <1>2, <2>1, Silent
  <2>3. ToSet(Ahead) = {}
    BY <2>2, EmptySeq DEF ToSet
  <2>4. QED
    BY <2>3, NothingDue
<1>4. QED
  BY <1>1, <1>2, <1>3 DEF Stage

\* Reading takes the first of what is on its way.
LEMMA TakeSplits ==
  ASSUME Typed, NEW x, Take(x)
  PROVE  x \in ToSet(Ahead) /\ ToSet(Ahead) = {x} \cup ToSet(Ahead')
<1>1. /\ Ahead \in Seq(Event) /\ Ahead # <<>> /\ x = Ahead[1]
      /\ Ahead' = Tail(Ahead)
  BY AheadIs, TakeIsHead
<1>2. /\ Len(Ahead') = Len(Ahead) - 1 /\ Len(Ahead) \in Nat \ {0}
      /\ \A i \in 1..Len(Ahead') : Ahead'[i] = Ahead[i + 1]
      /\ Ahead' \in Seq(Event)
  BY <1>1, HeadTailProperties, EmptySeq
<1>3. \A e : /\ e \in ToSet(Ahead) <=> \E i \in 1..Len(Ahead) : e = Ahead[i]
             /\ e \in ToSet(Ahead') <=> \E i \in 1..Len(Ahead') : e = Ahead'[i]
  BY <1>1, <1>2, InAhead
<1>4. x \in ToSet(Ahead)
  BY <1>1, <1>2, <1>3
<1>5. \A e \in ToSet(Ahead') : e \in ToSet(Ahead)
  <2>1. \A i \in 1..Len(Ahead') : i + 1 \in 1..Len(Ahead)
    BY <1>2
  <2>2. QED
    BY <1>2, <1>3, <2>1
<1>6. ASSUME NEW i \in 1..Len(Ahead)
      PROVE  Ahead[i] = x \/ Ahead[i] \in ToSet(Ahead')
  <2>1. CASE i = 1
    BY <1>1, <2>1
  <2>2. CASE i # 1
    <3>1. i - 1 \in 1..Len(Ahead') /\ i - 1 + 1 = i
      BY <1>2, <2>2
    <3>2. Ahead[i] = Ahead'[i - 1]
      BY <1>2, <3>1
    <3>3. QED
      BY <1>3, <3>1, <3>2
  <2>3. QED
    BY <2>1, <2>2
<1>7. QED
  BY <1>3, <1>4, <1>5, <1>6

\* Handing on and asking change nothing of the subscription.
LEMMA SubStutter ==
  ASSUME Typed, Typed', StageOK,
         UNCHANGED <<busVars, streamVars>> \/ Replay \/ Forward \/ Connect
  PROVE  UNCHANGED Sub!vars
<1>1. Calm /\ Ahead' = Ahead
  BY Carried
<1>2. blind' = blind /\ member' = member
      /\ \/ phase' = phase
         \/ phase \in {"none", "asked"} /\ phase' \in {"none", "asked"}
         \/ phase \in {"live", "over"} /\ phase' \in {"live", "over"}
  BY DEF busVars, streamVars, Replay, Forward, Connect
<1>3. Due' = Due
  BY <1>1, <1>2, DueIs DEF Calm
<1>4. Excused' = Excused
  BY <1>1 DEF Calm, Excused
<1>5. Stage' = Stage
  BY <1>2 DEF Stage, Typed
<1>6. QED
  BY <1>1, <1>2, <1>3, <1>4, <1>5 DEF Calm, Sub!vars

\* The replay is done.
LEMMA SubSubscribes ==
  ASSUME Typed, Typed', StageOK, Subscribe
  PROVE  Sub!Subscribe
<1>1. Calm /\ Ahead' = Ahead
  BY Carried
<1>2. blind' = blind /\ phase = "replay" /\ phase' = "live" /\ member' = TRUE
  BY DEF Subscribe
<1>3. Due' = Due
  BY <1>1, <1>2, DueIs DEF Calm
<1>4. Excused' = Excused
  BY <1>1 DEF Calm, Excused
<1>5. Stage = "catching up" /\ Stage' = "live"
  BY <1>2, DownIs
<1>6. QED
  BY <1>1, <1>2, <1>3, <1>4, <1>5 DEF Calm, Sub!Subscribe

\* The stream ends.
LEMMA SubHangsUp ==
  ASSUME Typed, Typed', StageOK, Eof \/ Cut \/ Forget
  PROVE  Sub!HangUp \/ UNCHANGED Sub!vars
<1>1. Calm /\ blind' = blind /\ phase' = "none" /\ Ahead' = <<>>
  BY CalmSteps, Closed DEF Eof, Cut, Forget
<1>2. ToSet(Ahead') = {}
  BY <1>1, EmptySeq DEF ToSet
<1>3. Due' = {}
  BY <1>2, NothingDue
<1>4. Excused' = Excused
  BY <1>1 DEF Calm, Excused
<1>5. Stage' = "down" /\ (Stage = "down" => Due = {})
  BY <1>1, DownIs
<1>6. CASE Stage = "down"
  BY <1>1, <1>3, <1>4, <1>5, <1>6 DEF Calm, Sub!vars
<1>7. CASE Stage # "down"
  BY <1>1, <1>3, <1>4, <1>5, <1>7 DEF Calm, Sub!HangUp
<1>8. QED
  BY <1>6, <1>7

\* The backend restarts.
LEMMA SubRestarts ==
  ASSUME Typed, Typed', StageOK, Restart
  PROVE  Sub!Restart
<1>1. phase' = "none" /\ log' = {} /\ handled' = {} /\ blind' = {}
  BY Closed DEF Restart
<1>2. Due' = {}
  BY <1>1, DueIs
<1>3. Excused' = {}
  BY <1>1 DEF Excused
<1>4. Stage' = "down"
  BY <1>1, DownIs
<1>5. QED
  BY <1>1, <1>2, <1>3, <1>4 DEF Sub!Restart

\* The client comes back.
LEMMA SubResumes ==
  ASSUME Typed, Typed', StreamInv, HolesOK, Begin
  PROVE  Sub!Resume
<1> USE DEF StreamInv
<1>1. /\ Calm /\ Ahead' \in Seq(Event) /\ phase = "asked"
      /\ phase' \in {"replay", "live"}
      /\ phase' = "live" => member'
  <2>1. wire' \in Seq(Event) /\ left' \in Seq(Event) /\ queue' \in Seq(Event)
    BY DEF Typed
  <2>2. Ahead' \in Seq(Event)
    BY <2>1, ConcatProperties DEF Ahead
  <2>3. QED
    BY <2>2, CalmSteps DEF Begin
<1>2. /\ Stage = "down" /\ Due = {} /\ Stage' \in {"catching up", "live"}
      /\ phase' = "replay" => Stage' = "catching up"
  BY <1>1, DownIs
<1>3. UNCHANGED <<log, handled, covered, counter>> /\ Excused' = Excused
  BY <1>1 DEF Calm, Excused
<1>4. \A e \in log : e.id \in Nat /\ e.id <= counter /\ e.what # Resync
  BY LogFacts DEF LogOK
<1>5. CASE /\ last # Null /\ Lost(last) /\ phase' = "replay"
           /\ Ahead' = <<StartOver(0, AnyTopic, counter)>>
           /\ blind' = blind
  <2> DEFINE over == StartOver(0, AnyTopic, counter)
  <2>1. ToSet(Ahead') = {over}
    BY <1>5 DEF ToSet
  <2>2. over.what = Resync /\ over.upto = counter
    BY DEF StartOver
  <2> HIDE DEF over
  <2>3. \A e \in log : e \notin ToSet(Ahead')
    BY <1>4, <2>1, <2>2
  <2>4. Due' = Sub!Open
    BY <1>3, <1>4, <1>5, <2>1, <2>2, <2>3, DueIs
       DEF Sub!Open, Sub!Known, Excused
  <2>5. QED
    BY <1>2, <1>3, <1>5, <2>4 DEF Sub!Resume
<1>6. CASE last = Null /\ Ahead' = <<>> /\ blind' = blind \cup (log \ handled)
  <2>1. ToSet(Ahead') = {}
    BY <1>6, EmptySeq DEF ToSet
  <2>2. Due' = {}
    BY <2>1, NothingDue
  <2> DEFINE passed == log \ handled
  <2>3. Sub!Prefix(passed, log \ handled)
    BY DEF Sub!Prefix
  <2>4. \A h \in handled, f \in log :
          f.id < h.id => f \in Sub!Known \cup blind'
    BY <1>6 DEF Sub!Known
  <2>5. QED
    BY <1>2, <1>3, <1>6, <2>2, <2>3, <2>4 DEF Sub!Resume
<1>7. CASE /\ last # Null /\ ~ Lost(last) /\ Ahead' = Newer(last)
           /\ blind' = blind \cup {ev \in log \ handled : ev.id <= last}
  <2> DEFINE passed == {ev \in log \ handled : ev.id <= last}
  <2>1. \A x \in ToSet(Ahead') : x.what # Resync
    <3>1. \A i \in 1..Len(Ahead') : Ahead'[i] \in log
      BY <1>7, Replayed
    <3>2. QED
      BY <1>1, <1>4, <3>1, InAhead
  <2>2. Due' = {}
    BY <2>1, NothingDue
  <2>3. last \in Nat
    BY <1>7 DEF Typed
  <2>4. Sub!Prefix(passed, log \ handled)
    BY <1>4, <2>3 DEF Sub!Prefix
  <2>5. ASSUME NEW h \in handled, NEW f \in log, f.id < h.id
        PROVE  f \in Sub!Known \cup blind'
    <3>1. h.id <= last /\ h.id \in Nat /\ f.id \in Nat
      BY <1>4, <1>7 DEF Position, LogOK
    <3>2. f.id <= last
      BY <2>3, <2>5, <3>1
    <3>3. QED
      BY <1>7, <3>2 DEF Sub!Known
  <2>6. blind' = blind \cup passed
    BY <1>7
  <2> HIDE DEF passed
  <2>7. passed \in SUBSET (log \ handled)
    BY <2>4 DEF Sub!Prefix
  <2>8. QED
    BY <1>2, <1>3, <2>2, <2>4, <2>5, <2>6, <2>7 DEF Sub!Resume
<1>8. \/ last = Null /\ Ahead' = <<>> /\ blind' = blind \cup (log \ handled)
      \/ /\ last # Null /\ Lost(last) /\ phase' = "replay"
         /\ Ahead' = <<StartOver(0, AnyTopic, counter)>>
         /\ blind' = blind
      \/ /\ last # Null /\ ~ Lost(last) /\ Ahead' = Newer(last)
         /\ blind' = blind \cup {ev \in log \ handled : ev.id <= last}
  <2>1. (last # Null /\ Lost(last)) => blind' = blind
    BY DEF Begin
  <2>2. QED
    BY <2>1, Begun
<1>9. QED
  BY <1>5, <1>6, <1>7, <1>8

\* The client reads an event, with every earlier one accounted for, or is told
\* to start over.
LEMMA SubReads ==
  ASSUME Typed, Typed', StreamInv, NEW x, Take(x)
  PROVE  (x \in log' /\ Sub!Handle(x)) \/ Sub!StartOver
<1> USE DEF StreamInv
<1>1. x \in ToSet(Ahead) /\ ToSet(Ahead) = {x} \cup ToSet(Ahead')
  BY TakeSplits
<1>2. /\ UNCHANGED <<phase, member, log, blind>> /\ wire # <<>>
      /\ IF x.what = Resync THEN covered' = x.upto /\ handled' = handled
         ELSE handled' = handled \cup {x} /\ covered' = covered
  BY DEF Take, busVars
<1>3. Stage' = Stage /\ Stage # "down" /\ phase \in {"replay", "live", "over"}
  <2>1. phase \notin {"none", "asked"}
    BY <1>2 DEF StageOK
  <2>2. QED
    BY <1>2, <2>1, DownIs DEF Stage, Typed
<1>4. \A e \in log : e.id \in Nat /\ e.id <= counter /\ e.what # Resync
  BY LogFacts DEF LogOK
<1>5. /\ Ahead \in Seq(Event) /\ Ahead # <<>> /\ x = Ahead[1]
      /\ 1 \in 1..Len(Ahead)
  <2>1. Ahead \in Seq(Event) /\ Ahead # <<>> /\ x = Ahead[1]
    BY AheadIs, TakeIsHead
  <2>2. QED
    BY <2>1, EmptySeq
<1>6. CASE x.what = Resync
  <2>1. /\ covered' = x.upto /\ handled' = handled
        /\ covered \in Nat /\ x.upto \in Nat /\ covered <= x.upto
    <3>1. covered \in Nat /\ x.upto \in Nat
      BY <1>5, AheadFacts DEF LogOK
    <3>2. QED
      BY <1>2, <1>5, <1>6, <3>1 DEF Resyncs
  <2>2. Excused' = {e \in log : e.id <= x.upto} /\ Excused \subseteq Excused'
    BY <1>2, <1>4, <2>1 DEF Excused
  <2>3. Sub!Prefix(Excused', log)
    BY <1>4, <2>1, <2>2 DEF Sub!Prefix
  <2>4. \A e : e \in Due' => e \in Due /\ e \notin Excused'
    BY <1>1, <1>2, <1>4, <1>6, <2>1, <2>2, DueIs
  <2>5. \A e : (e \in Due /\ e \notin Excused') => e \in Due'
    BY <1>1, <1>2, <1>4, <1>6, <2>1, <2>2, DueIs
  <2>6. Due' = Due \ Excused'
    BY <2>4, <2>5
  <2>7. QED
    BY <1>2, <1>3, <2>1, <2>2, <2>3, <2>6 DEF Sub!StartOver
<1>7. CASE x.what # Resync
  <2>1. x \in log /\ x.id \in Nat /\ x.id # 0
    BY <1>5, <1>7, AheadFacts DEF LogOK
  <2>2. \A h \in handled : h.id < x.id
    BY <1>5, <2>1 DEF Numbers
  <2>3. ASSUME NEW f \in log, f.id < x.id
        PROVE  f \in Sub!Known \cup blind \cup Due
    <3>1. CASE Known(f)
      BY <3>1 DEF Known, Sub!Known, Excused
    <3>2. CASE Behind(f)
      BY <1>1, <1>4, <2>1, <2>3, <3>2 DEF Behind
    <3>3. ASSUME f \in ToSet(Ahead) PROVE FALSE
      <4>1. PICK i \in 1..Len(Ahead) : f = Ahead[i]
        BY <1>5, <3>3, InAhead
      <4>2. i # 1
        BY <1>4, <1>5, <2>1, <2>3, <4>1
      <4>3. 1 < i
        BY <4>2
      <4>4. x.id < f.id
        BY <1>5, <4>1, <4>3 DEF Numbers
      <4>5. QED
        BY <1>4, <2>1, <2>3, <4>4
    <3>4. CASE Coming(f) /\ ~ Known(f) /\ f \notin blind
      BY <3>3, <3>4 DEF Due
    <3>5. QED
      BY <1>3, <3>1, <3>2, <3>4 DEF NothingElseLost
  <2>4. handled' = handled \cup {x} /\ Excused' = Excused
    BY <1>2, <1>7 DEF Excused
  <2>5. \A e : e \in Due' => e \in Due
    BY <1>1, <1>2, <1>7, DueIs
  <2>6. \A e : e \in Due => e \in Due'
    BY <1>1, <1>2, <1>7, DueIs
  <2>7. Due' = Due
    BY <2>5, <2>6
  <2>8. QED
    BY <1>2, <1>3, <2>1, <2>2, <2>3, <2>4, <2>7 DEF Sub!Handle
<1>8. QED
  BY <1>6, <1>7

\* An event is published beside the subscription, into it, or over it.
LEMMA SubPublishes ==
  ASSUME Typed, Typed', StreamInv, HolesOK, NEW t \in Topics, NEW w \in Whats,
         Announce(t, w)
  PROVE  \/ UNCHANGED Sub!vars
         \/ \E e \in log' : Sub!Publish(e)
<1> USE DEF StreamInv
<1> DEFINE n == Len(Ahead)
<1> PICK ev : ev = News(counter + 1, t, w)
  OBVIOUS
<1>1. /\ ev.id = counter + 1 /\ ev.what # Resync /\ ev.topic = t
      /\ log' = IF t \in Feed THEN log \cup {ev} ELSE log
      /\ blind' = IF t \in Feed /\ phase = "replay" THEN blind \cup {ev}
                  ELSE blind
      /\ UNCHANGED <<phase, handled, covered>>
  BY RingGrows, BusAssumption DEF Announce, News
<1>2. /\ n \in Nat /\ Ahead \in Seq(Event) /\ counter \in Nat
      /\ covered \in Nat /\ covered <= counter
      /\ \A e \in ToSet(Ahead) :
           /\ e.id \in Nat /\ e.id <= counter /\ e.upto \in Nat
           /\ e.what = Resync => e.upto <= counter
      /\ \A e \in log : e.id \in Nat /\ e.id <= counter /\ e.what # Resync
  BY AheadFacts, InAhead, LogFacts DEF LogOK, Resyncs
<1>3. /\ \A e \in log : e.id < ev.id
      /\ ev \notin log /\ ev \notin blind /\ ev \notin handled
      /\ ev \notin ToSet(Ahead)
      /\ ~ (ev.id <= covered)
      /\ \A x \in ToSet(Ahead) : x.what = Resync => ~ (ev.id <= x.upto)
  <2>1. \A e \in log \cup ToSet(Ahead) : e.id < ev.id
    BY <1>1, <1>2
  <2>2. ~ (ev.id < ev.id)
    BY <1>1, <1>2
  <2>3. ev \notin log /\ ev \notin ToSet(Ahead)
    BY <2>1, <2>2
  <2>4. QED
    BY <1>1, <1>2, <2>1, <2>3 DEF HolesOK, LogOK
<1>4. Excused' = Excused
  BY <1>1, <1>3 DEF Excused
<1>5. \/ /\ Ahead' = Ahead /\ UNCHANGED member
         /\ ~ member \/ t \notin Feed
      \/ Ahead' = Append(Ahead, ev) /\ member /\ UNCHANGED member /\ t \in Feed
      \/ Overflown(ev) /\ member /\ member' = FALSE /\ t \in Feed
  BY Published
<1> HIDE DEF n
<1>6. CASE t \notin Feed
  <2>1. Ahead' = Ahead /\ UNCHANGED <<member, phase, log, handled, covered, blind>>
    BY <1>1, <1>5, <1>6
  <2>2. Due' = Due
    BY <2>1, DueIs
  <2>3. Stage' = Stage
    BY <2>1 DEF Stage
  <2>4. QED
    BY <1>4, <2>1, <2>2, <2>3 DEF Sub!vars
<1>7. CASE t \in Feed /\ ~ member /\ Ahead' = Ahead /\ UNCHANGED member
  <2>1. Stage' = Stage /\ Stage \in {"down", "catching up", "closing"}
        /\ (Stage = "catching up" <=> phase = "replay")
    BY <1>1, <1>7, DownIs DEF Stage, Typed
  <2>2. log' = log \cup {ev}
    BY <1>1, <1>7
  <2>3. \A e : e \in Due' => e \in Due
    BY <1>1, <1>3, <1>7, <2>2, DueIs
  <2>4. \A e : e \in Due => e \in Due'
    BY <1>1, <1>3, <1>7, <2>2, DueIs
  <2>5. Due' = Due
    BY <2>3, <2>4
  <2>6. CASE phase = "replay"
    <3>1. blind' = blind \cup {ev}
      BY <1>1, <1>7, <2>6
    <3>2. Sub!Publish(ev)
      BY <1>1, <1>3, <1>4, <2>1, <2>2, <2>5, <2>6, <3>1 DEF Sub!Publish
    <3>3. QED
      BY <2>2, <3>2
  <2>7. CASE phase # "replay"
    <3>1. blind' = blind
      BY <1>1, <2>7
    <3>2. Sub!Publish(ev)
      BY <1>1, <1>3, <1>4, <2>1, <2>2, <2>5, <2>7, <3>1 DEF Sub!Publish
    <3>3. QED
      BY <2>2, <3>2
  <2>8. QED
    BY <2>6, <2>7
<1>8. ASSUME member, t \in Feed
      PROVE  Stage = "live" /\ blind' = blind /\ log' = log \cup {ev}
  <2>1. phase = "live"
    BY <1>8 DEF StageOK
  <2>2. QED
    BY <1>1, <1>8, <2>1 DEF Stage
<1>9. CASE Ahead' = Append(Ahead, ev) /\ member /\ UNCHANGED member /\ t \in Feed
  <2>1. Stage = "live" /\ Stage' = "live"
        /\ blind' = blind /\ log' = log \cup {ev}
    BY <1>1, <1>8, <1>9 DEF Stage
  <2>2. \A e : e \in ToSet(Ahead') <=> (e \in ToSet(Ahead) \/ e = ev)
    <3>1. /\ Len(Ahead') = n + 1 /\ Ahead'[n + 1] = ev
          /\ Ahead' \in Seq(Event)
          /\ \A i \in 1..n : Ahead'[i] = Ahead[i]
      <4>1. ev \in Event
        BY RingGrows
      <4>2. QED
        BY <1>2, <1>9, <4>1 DEF n
    <3>2. \A i \in 1..(n + 1) : i \in 1..n \/ i = n + 1
      BY <1>2
    <3>3. n + 1 \in 1..(n + 1) /\ \A i \in 1..n : i \in 1..(n + 1)
      BY <1>2
    <3>4. n = Len(Ahead)
      BY DEF n
    <3>5. QED
      BY <1>2, <3>1, <3>2, <3>3, <3>4, InAhead
  <2>3. \A e : e \in Due' => e \in Due
    BY <1>1, <1>3, <2>1, <2>2, DueIs
  <2>4. \A e : e \in Due => e \in Due'
    BY <1>1, <1>3, <2>1, <2>2, DueIs
  <2>5. Due' = Due
    BY <2>3, <2>4
  <2>6. Sub!Publish(ev)
    BY <1>1, <1>3, <1>4, <2>1, <2>5 DEF Sub!Publish
  <2>7. QED
    BY <2>1, <2>6
<1>10. CASE Overflown(ev) /\ member /\ member' = FALSE /\ t \in Feed
  <2> DEFINE over == StartOver(ev.id + 1, ev.topic, ev.id)
  <2>1. Stage = "live" /\ Stage' = "closing"
        /\ blind' = blind /\ log' = log \cup {ev}
    BY <1>1, <1>8, <1>10 DEF Stage, StageOK
  <2>2. /\ n # 0 /\ Len(Ahead') = n /\ Ahead' \in Seq(Event)
        /\ Ahead'[n] = over
        /\ \A i \in 1..(n - 1) : \E j \in 1..n : Ahead'[i] = Ahead[j]
    <3>1. PICK k \in 1..n : \A i \in 1..(n - 1) :
            Ahead'[i] = Ahead[IF i < k THEN i ELSE i + 1]
      BY <1>10 DEF Overflown, n
    <3>2. \A i \in 1..(n - 1) : (IF i < k THEN i ELSE i + 1) \in 1..n
      BY <1>2
    <3>3. QED
      BY <1>10, <3>1, <3>2 DEF Overflown, n
  <2>3. over.what = Resync /\ over.upto = ev.id
    BY DEF StartOver
  <2> HIDE DEF over
  <2>4. over \in ToSet(Ahead')
    BY <1>2, <2>2, InAhead
  <2>5. \A e \in ToSet(Ahead') : e = over \/ e \in ToSet(Ahead)
    <3>1. \A i \in 1..n : i = n \/ i \in 1..(n - 1)
      BY <1>2
    <3>2. \A e \in ToSet(Ahead') : \E i \in 1..n : e = Ahead'[i]
      BY <2>2, InAhead
    <3>3. \A j \in 1..n : Ahead[j] \in ToSet(Ahead)
      BY <1>2, InAhead DEF n
    <3>4. QED
      BY <2>2, <3>1, <3>2, <3>3
  <2>6. \A e \in log' : e.id <= over.upto
    BY <1>1, <1>2, <2>1, <2>3
  <2>7. ASSUME NEW e \in Due PROVE e \in Due'
    <3>1. e \in log /\ e.what # Resync /\ e \notin ToSet(Ahead)
      BY <1>2, DueIs
    <3>2. e \notin ToSet(Ahead')
      BY <2>3, <2>5, <3>1
    <3>3. QED
      BY <1>1, <2>1, <2>3, <2>4, <2>6, <3>1, <3>2, DueIs
  <2>8. ev \in Due'
    <3>1. ev \notin ToSet(Ahead')
      BY <1>1, <1>3, <2>3, <2>5
    <3>2. QED
      BY <1>1, <1>3, <2>1, <2>3, <2>4, <2>6, <3>1, DueIs
  <2>9. Due' \subseteq Sub!Open'
    BY DueIs DEF Sub!Open, Sub!Known, Excused
  <2>10. Due \cup {ev} \subseteq Due'
    BY <2>7, <2>8
  <2>11. Sub!Publish(ev)
    BY <1>1, <1>3, <1>4, <2>1, <2>9, <2>10 DEF Sub!Publish
  <2>12. QED
    BY <2>1, <2>11
<1>11. QED
  BY <1>5, <1>6, <1>7, <1>9, <1>10

\* The stream starts as a subscription does.
LEMMA SubStarts ==
  Init => Sub!Init
<1> SUFFICES ASSUME Init PROVE Sub!Init
  OBVIOUS
<1>1. phase = "none" /\ log = {} /\ handled = {} /\ blind = {}
  BY DEF Init
<1>2. Stage = "down" /\ Excused = {} /\ Due = {}
  BY <1>1 DEF Stage, Excused, Due
<1>3. QED
  BY <1>1, <1>2 DEF Sub!Init

\* Every step of the stream and the views is a step of the subscription, or
\* nothing to it.
LEMMA SubSteps ==
  ASSUME LiveInv, HolesOK, LiveInv', [Next]_vars
  PROVE  [Sub!Next]_(Sub!vars)
<1>1. Typed /\ Typed' /\ StreamInv /\ StageOK /\ TypeOK
  BY TypeParts DEF LiveInv, StreamInv, TypeOK, Typed
<1>2. CASE UNCHANGED <<busVars, streamVars>> \/ Replay \/ Forward \/ Connect
  BY <1>1, <1>2, SubStutter
<1>3. CASE Subscribe
  BY <1>1, <1>3, SubSubscribes DEF Sub!Next
<1>4. CASE Eof \/ Cut \/ Forget
  BY <1>1, <1>4, SubHangsUp DEF Sub!Next
<1>5. CASE Restart
  BY <1>1, <1>5, SubRestarts DEF Sub!Next
<1>6. CASE Begin
  BY <1>1, <1>6, SubResumes DEF Sub!Next
<1>7. CASE \E x : Take(x)
  BY <1>1, <1>7, SubReads DEF Sub!Next
<1>8. ASSUME NEW t \in Topics, NEW w \in Whats, Announce(t, w)
      PROVE  Sub!Next \/ UNCHANGED Sub!vars
  BY <1>1, <1>8, SubPublishes DEF Sub!Next
<1>9. QED
  BY <1>1, <1>2, <1>3, <1>4, <1>5, <1>6, <1>7, <1>8, StreamMoves

-----------------------------------------------------------------------------
\* The invariant holds of every behaviour of the stream and the views.
THEOREM LiveInvariant ==
  Spec => []LiveInv
BY InitLive, NextLive, PTL DEF Spec

\* Rings, queue and transport never grow beyond their limits, whatever is
\* published and however slowly it is read (bus.py _trim, publish).
THEOREM LiveTyped ==
  Spec => []TypeOK
<1>1. LiveInv => TypeOK
  BY DEF LiveInv
<1>2. QED
  BY <1>1, LiveInvariant, PTL

\* No event is lost without a word but in the two holes of EventStream
\* (publish, replay_since, _stream).
THEOREM LossesAnnounced ==
  Spec => []NothingElseLost
<1>1. LiveInv => NothingElseLost
  BY DEF LiveInv, StreamInv
<1>2. QED
  BY <1>1, LiveInvariant, PTL

\* Every event is read at most once and in the order of publication, across
\* replays, subscriptions and reconnections (publish, replay_since).
THEOREM OrderedReading ==
  Spec => []ReadInOrder
BY OrderOf, LiveInvariant, PTL

\* What a client reads has no gap but the two holes that it was not, or is
\* not about to be, told of: the stream implements Subscription (publish,
\* replay_since, _stream).
THEOREM SubscriptionImplemented ==
  Spec => ImplementsSubscription
<1>1. Init => LiveInv /\ HolesOK
  BY InitLive DEF Init, HolesOK
<1>2. LiveInv /\ HolesOK /\ [Next]_vars => (LiveInv /\ HolesOK)'
  <2> SUFFICES ASSUME LiveInv, HolesOK, [Next]_vars
               PROVE  (LiveInv /\ HolesOK)'
    OBVIOUS
  <2>1. HolesOK'
    BY HolesKept DEF LiveInv, StreamInv
  <2>2. QED
    BY <2>1, NextLive
<1>3. LiveInv /\ HolesOK /\ LiveInv' /\ [Next]_vars => [Sub!Next]_(Sub!vars)
  BY SubSteps
<1>4. QED
  BY <1>1, <1>2, <1>3, SubStarts, PTL DEF Spec, ImplementsSubscription, Sub!Spec

\* The cache of the MCP process never tells an agent of a decision that was
\* not made (_apply_event, status_of).
THEOREM CacheTruthful ==
  Spec => []CachedDecisionsTrue
<1>1. LiveInv => CachedDecisionsTrue
  BY DEF LiveInv, ViewsInv
<1>2. QED
  BY <1>1, LiveInvariant, PTL

=============================================================================
