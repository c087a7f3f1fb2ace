---------------------------- MODULE EventStream -----------------------------
(***************************************************************************)
(* api/events.py and the connection to its client.                         *)
(*                                                                         *)
(* A stream replays what the rings hold after the client's Last-Event-Id,  *)
(* or says that it cannot; then it subscribes and forwards.  Each replayed *)
(* event is handed to the transport before the next is taken, and the      *)
(* subscription comes after the last: what is published in between is in   *)
(* neither.  The connection can be cut at any time, and what was on its    *)
(* way is lost.  The client reconnects with the last id it has seen.       *)
(***************************************************************************)
EXTENDS EventBus

CONSTANTS
  WireMax,      \* events the transport holds before the stream has to wait
  MaxCuts,      \* bound: connections cut
  MaxRestarts   \* bound: restarts of the backend

VARIABLES
  phase,     \* the stream: "none", "asked", "replay", "live" or "over"
  left,      \* what it has still to replay
  wire,      \* sent and not yet read
  last,      \* the last event id the client has seen, Null at first
  log,       \* history: what this process published on the client's topics
  handled,   \* history: the events of log the client has handled
  covered,   \* history: a resync up to this id has been handled
  blind,     \* history: the events that fell into a hole (see Begin, Announce)
  cuts, restarts

streamVars == <<phase, left, wire, last, log, handled, covered, blind,
                cuts, restarts>>

Room == Len(wire) < WireMax

\* The client's request arrives.  Ids at or below the one it names are taken
\* as seen; without one, so is everything.
Begin ==
  /\ phase = "asked"
  /\ \/ /\ last = Null
        /\ phase' = "live" /\ member' = TRUE
        /\ blind' = blind \cup (log \ handled)
        /\ UNCHANGED left
     \/ /\ last # Null /\ Lost(last)
        /\ phase' = "replay"
        /\ left' = <<StartOver(0, AnyTopic, counter)>>
        /\ UNCHANGED <<member, blind>>
     \/ /\ last # Null /\ ~ Lost(last) /\ Newer(last) # <<>>
        /\ phase' = "replay"
        /\ left' = Newer(last)
        /\ blind' = blind \cup {ev \in log \ handled : ev.id <= last}
        /\ UNCHANGED member
     \/ /\ last # Null /\ ~ Lost(last) /\ Newer(last) = <<>>
        /\ phase' = "live" /\ member' = TRUE
        /\ blind' = blind \cup {ev \in log \ handled : ev.id <= last}
        /\ UNCHANGED left
  /\ queue' = <<>>
  /\ UNCHANGED <<client, counter, ring, wire, last, log, handled, covered,
                 cuts, restarts>>

\* One event of the replay is handed to the transport.
Replay ==
  /\ phase = "replay" /\ left # <<>> /\ Room
  /\ wire' = Append(wire, Head(left))
  /\ left' = Tail(left)
  /\ UNCHANGED busVars
  /\ UNCHANGED <<phase, last, log, handled, covered, blind, cuts,
                 restarts>>

\* The replay is done; what was published meanwhile is not part of it.
Subscribe ==
  /\ phase = "replay" /\ left = <<>>
  /\ phase' = "live" /\ member' = TRUE
  /\ UNCHANGED <<client, counter, ring, queue, left, wire, last, log,
                 handled, covered, blind, cuts, restarts>>

\* A resync is the last event of its subscription.
Forward ==
  /\ phase = "live" /\ queue # <<>> /\ Room
  /\ wire' = Append(wire, Head(queue))
  /\ queue' = Tail(queue)
  /\ phase' = IF Head(queue).what = Resync THEN "over" ELSE "live"
  /\ UNCHANGED <<client, counter, ring, member, left, last, log, handled,
                 covered, blind, cuts, restarts>>

-----------------------------------------------------------------------------
NoStream ==
  /\ phase' = "none" /\ left' = <<>> /\ wire' = <<>>
  /\ member' = FALSE /\ queue' = <<>>

\* The stream is over and read to its end.
Eof ==
  /\ phase = "over" /\ wire = <<>>
  /\ NoStream
  /\ UNCHANGED <<client, counter, ring, last, log, handled, covered, blind,
                 cuts, restarts>>

\* The connection breaks.  The stream polls for that every second, which is
\* less than a client waits before it tries again.
Cut ==
  /\ phase # "none" /\ cuts < MaxCuts
  /\ cuts' = cuts + 1
  /\ NoStream
  /\ UNCHANGED <<client, counter, ring, last, log, handled, covered, blind,
                 restarts>>

\* Mutant of Connect: a client that has seen something does not come back.
ConnectOnce ==
  /\ phase = "none" /\ last = Null
  /\ phase' = "asked"
  /\ UNCHANGED busVars
  /\ UNCHANGED <<left, wire, last, log, handled, covered, blind, cuts,
                 restarts>>

\* A client without a stream tries again, for ever.
Connect ==
  /\ phase = "none"
  /\ phase' = "asked"
  /\ UNCHANGED busVars
  /\ UNCHANGED <<left, wire, last, log, handled, covered, blind, cuts,
                 restarts>>

\* The client starts over: it has seen nothing.
Forget ==
  /\ cuts < MaxCuts
  /\ cuts' = cuts + 1
  /\ NoStream
  /\ last' = Null
  /\ UNCHANGED <<client, counter, ring, log, handled, covered, blind, restarts>>

\* The backend restarts: the bus is empty and counts from one again.
Restart ==
  /\ restarts < MaxRestarts
  /\ restarts' = restarts + 1
  /\ counter' = 0 /\ ring' = [t \in Topics |-> <<>>]
  /\ NoStream
  /\ log' = {} /\ handled' = {} /\ covered' = 0 /\ blind' = {}
  /\ UNCHANGED <<client, last, cuts>>

\* The MCP process keeps the greatest id; a browser keeps the latest.
Remember(id) ==
  IF client = "mcp" THEN IF id > (IF last = Null THEN 0 ELSE last)
                         THEN id ELSE last
  ELSE id

\* The client reads one event.
Take(ev) ==
  /\ wire # <<>> /\ ev = Head(wire)
  /\ wire' = Tail(wire)
  /\ last' = Remember(ev.id)
  /\ IF ev.what = Resync
     THEN covered' = ev.upto /\ UNCHANGED handled
     ELSE handled' = handled \cup {ev} /\ UNCHANGED covered
  /\ UNCHANGED busVars
  /\ UNCHANGED <<phase, left, log, blind, cuts, restarts>>

\* An event is published while the stream may be in any phase.
Announce(t, w) ==
  LET ev == News(counter + 1, t, w)
  IN  /\ Publish(ev)
      /\ log' = IF t \in Feed THEN log \cup {ev} ELSE log
      /\ blind' = IF t \in Feed /\ phase = "replay"
                  THEN blind \cup {ev} ELSE blind
      /\ UNCHANGED <<phase, left, wire, last, handled, covered, cuts,
                     restarts>>

-----------------------------------------------------------------------------
(***************************************************************************)
(* What the stream owes its client.                                        *)
(***************************************************************************)
\* On its way, in the order in which it will be read.
Ahead == wire \o left \o queue

\* The client has handled ev, or was told to start over after it.
Known(ev) == ev \in handled \/ ev.id <= covered

\* ev is on its way, or a resync that stands for it is.
Coming(ev) ==
  \E e \in ToSet(Ahead) : e = ev \/ (e.what = Resync /\ ev.id <= e.upto)

\* ev was published after the resync that ends this subscription: it is left
\* to the next connection.
Behind(ev) ==
  /\ ~ member /\ phase \in {"live", "over"}
  /\ \A e \in ToSet(Ahead) : e.id < ev.id

\* No event is lost without a word (publish, replay_since, _stream): while a
\* stream runs, what the client has not been given and is not about to be
\* given fell into one of the two holes the code leaves: the time between a
\* replay and its subscription, and ids that a reconnecting client passes off
\* as seen because an overflow dropped them or because they are of an earlier
\* process.
NothingElseLost ==
  phase \in {"replay", "live", "over"} =>
    \A ev \in log : Known(ev) \/ Coming(ev) \/ Behind(ev) \/ ev \in blind

\* Each event is read at most once and in the order of publication, across
\* replays, subscriptions and reconnections: a counter that is moved by
\* events depends on it.
ReadInOrder ==
  \A j \in 1..Len(Ahead) : Ahead[j].what # Resync =>
    /\ \A i \in 1..(j - 1) :
         Ahead[i].what # Resync => Ahead[i].id < Ahead[j].id
    /\ \A e \in handled : e.id < Ahead[j].id

\* What a subscription (Subscription) is about, in terms of the stream: how
\* far it is set up, what a start-over has been read for, and what a resync on
\* its way stands for.
Stage ==
  CASE phase \in {"none", "asked"} -> "down"
    [] phase = "replay" -> "catching up"
    [] OTHER -> IF member THEN "live" ELSE "closing"
Excused == {ev \in log : ev.id <= covered}
Due ==
  {ev \in log \ blind : ~ Known(ev) /\ Coming(ev) /\ ev \notin ToSet(Ahead)}

Sub == INSTANCE Subscription WITH
         stage <- Stage, published <- log, excused <- Excused,
         holes <- blind, due <- Due

\* What a client reads has no gap but the two holes that it was not, or is
\* not about to be, told of (publish, replay_since, _stream).
ImplementsSubscription == Sub!Spec

\* A client that is no longer cut off gets to know everything.
CaughtUp == <>[](\A ev \in log : Known(ev) \/ ev \in blind)
=============================================================================
