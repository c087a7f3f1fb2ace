------------------------------ MODULE EventBus ------------------------------
(***************************************************************************)
(* events/bus.py: the in-process event bus, as one of its subscribers      *)
(* meets it.                                                               *)
(*                                                                         *)
(* Each topic has a ring of recent events, trimmed by age and by number.   *)
(* Each subscriber has a bounded queue; when an event finds it full, the   *)
(* oldest queued event makes room for a final resync_required and the      *)
(* subscriber is removed.  Ids count up over all topics and start again    *)
(* with the process.  Subscribers meet only in these ids, and topics that  *)
(* a subscriber does not follow leave the same gaps in them.               *)
(***************************************************************************)
EXTENDS Integers, Sequences, SequencesExt

CONSTANTS
  Topics,
  Clients,    \* the kinds of subscriber
  Feeds,      \* the topics each kind follows
  Whats,      \* payloads
  Resync,     \* the kind of event that tells a client to start over
  AnyTopic,   \* "*"
  Null,
  RingMax,    \* events kept per topic (2000 for approvals)
  QueueMax    \* events queued per subscriber (1000)

ASSUME BusAssumption ==
  /\ Feeds \in [Clients -> SUBSET Topics]
  /\ Resync \notin Whats /\ AnyTopic \notin Topics /\ Null \notin Nat
  /\ RingMax \in Nat \ {0} /\ QueueMax \in Nat \ {0}

VARIABLES
  client,    \* which kind of subscriber this behaviour has
  counter,   \* the last id given out
  ring,      \* ring[t]: the events kept of topic t, oldest first
  member,    \* the subscriber is registered
  queue      \* the subscriber's queue

busVars == <<client, counter, ring, member, queue>>

\* upto is history: a resync stands for everything published up to there.
Event == [id : Nat, topic : Topics \cup {AnyTopic},
          what : Whats \cup {Resync}, upto : Nat]
News(id, t, w) == [id |-> id, topic |-> t, what |-> w, upto |-> 0]
StartOver(id, t, upto) ==
  [id |-> id, topic |-> t, what |-> Resync, upto |-> upto]

Feed == Feeds[client]

\* What can be left of a ring after an append: the age limit may drop any
\* number of the oldest events, the count limit drops down to RingMax.
Trimmed(events) ==
  {SubSeq(events, k, Len(events)) :
     k \in {i \in 1..Len(events) : Len(events) - i < RingMax}}

\* Mutant of Overflow: nothing makes room for the resync.
OverflowGrowing(ev) ==
  /\ queue' = Append(queue, StartOver(ev.id + 1, ev.topic, ev.id))
  /\ counter' = ev.id + 1
  /\ member' = FALSE

\* Mutant of Overflow: the oldest event makes room for the new one, and nobody
\* is told.
OverflowSilent(ev) ==
  /\ queue' = Append(Tail(queue), ev)
  /\ counter' = ev.id
  /\ UNCHANGED member

\* A full queue: its oldest event makes room for a resync, and the
\* subscription ends.
Overflow(ev) ==
  /\ queue' = Append(Tail(queue), StartOver(ev.id + 1, ev.topic, ev.id))
  /\ counter' = ev.id + 1
  /\ member' = FALSE

\* publish: keep the event, then offer it to the subscriber.
Publish(ev) ==
  /\ ev.id = counter + 1
  /\ \E kept \in Trimmed(Append(ring[ev.topic], ev)) :
       ring' = [ring EXCEPT ![ev.topic] = kept]
  /\ \/ /\ ~ member \/ ev.topic \notin Feed
        /\ counter' = ev.id
        /\ UNCHANGED <<member, queue>>
     \/ /\ member /\ ev.topic \in Feed /\ Len(queue) < QueueMax
        /\ queue' = Append(queue, ev)
        /\ counter' = ev.id
        /\ UNCHANGED member
     \/ /\ member /\ ev.topic \in Feed /\ Len(queue) = QueueMax
        /\ Overflow(ev)
  /\ UNCHANGED client

-----------------------------------------------------------------------------
\* Mutant of Lost: the range check without its last event.
LostLate(last) ==
  \E t \in Feed : ring[t] # <<>> /\ last < Head(ring[t]).id - 2

\* replay_since answers "miss": a ring no longer reaches back to last.
Lost(last) ==
  \E t \in Feed : ring[t] # <<>> /\ last < Head(ring[t]).id - 1

\* The events of a set in the order of their ids.
ById(events) ==
  CHOOSE s \in SetToSeqs(events) :
    \A i, j \in DOMAIN s : i < j => s[i].id < s[j].id

\* Mutant of Newer: a replay that begins with the last event seen.
NewerOrEqual(last) ==
  ById({ev \in UNION {ToSet(ring[t]) : t \in Feed} : ev.id >= last})

\* replay_since otherwise: what the followed rings hold after last, by id.
Newer(last) ==
  ById({ev \in UNION {ToSet(ring[t]) : t \in Feed} : ev.id > last})
=============================================================================
