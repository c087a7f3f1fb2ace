---------------------------- MODULE Subscription ----------------------------
(***************************************************************************)
(* What a client of the event bus is promised: events reach it in order    *)
(* and once, and when it reads one, each earlier event has been read, was  *)
(* written off by a start-over, fell into one of the holes, or is due: a   *)
(* start-over that stands for it is on its way.                            *)
(***************************************************************************)
EXTENDS Integers

VARIABLES
  stage,      \* "down", "catching up", "live" or "closing"
  published,  \* the events published to the client
  handled,    \* those it has read
  excused,    \* those a start-over it has read stands for
  holes,      \* those that were not kept for it
  due         \* those a start-over on its way stands for

vars == <<stage, published, handled, excused, holes, due>>

Known == handled \cup excused
Open == published \ (Known \cup holes)

\* S holds all the events of T that are older than one of its own.
Prefix(S, T) ==
  S \subseteq T /\ \A e \in S, f \in T : f.id < e.id => f \in S

Init ==
  /\ stage = "down"
  /\ published = {} /\ handled = {} /\ excused = {}
  /\ holes = {} /\ due = {}

-----------------------------------------------------------------------------
\* The newest event is out.  While the client catches up, it is not kept for
\* it; a live subscription keeps it, or overflows: the start-over that ends
\* the subscription stands for this event and for all that is dropped.
Publish(e) ==
  /\ published' = published \cup {e}
  /\ \A f \in published : f.id < e.id
  /\ \/ /\ stage \in {"down", "live", "closing"}
        /\ UNCHANGED <<stage, holes, due>>
     \/ /\ stage = "catching up"
        /\ holes' = holes \cup {e}
        /\ UNCHANGED <<stage, due>>
     \/ /\ stage = "live" /\ stage' = "closing"
        /\ due \cup {e} \subseteq due' /\ due' \subseteq Open'
        /\ UNCHANGED holes
  /\ UNCHANGED <<handled, excused>>

\* The client reads an event: later than any it has read, and with every
\* earlier one accounted for.
Handle(e) ==
  /\ stage # "down" /\ e \in published
  /\ \A h \in handled : h.id < e.id
  /\ \A f \in published : f.id < e.id => f \in Known \cup holes \cup due
  /\ handled' = handled \cup {e}
  /\ UNCHANGED <<stage, published, excused, holes, due>>

\* The client is told to start over after an event.
StartOver ==
  /\ stage # "down"
  /\ Prefix(excused', published) /\ excused \subseteq excused'
  /\ due' = due \ excused'
  /\ UNCHANGED <<stage, published, handled, holes>>

-----------------------------------------------------------------------------
\* The client comes back and names where it was.  What was published up to
\* there is taken as read, and nothing older than what it has read is left
\* out; or it is told at once to start over.
Resume ==
  /\ stage = "down"
  /\ \/ /\ stage' \in {"catching up", "live"}
        /\ \E passed \in SUBSET (published \ handled) :
             /\ Prefix(passed, published \ handled)
             /\ holes' = holes \cup passed
        /\ \A h \in handled, f \in published :
             f.id < h.id => f \in Known \cup holes'
        /\ UNCHANGED due
     \/ /\ stage' = "catching up"
        /\ due' = Open
        /\ UNCHANGED holes
  /\ UNCHANGED <<published, handled, excused>>

Subscribe ==
  /\ stage = "catching up" /\ stage' = "live"
  /\ UNCHANGED <<published, handled, excused, holes, due>>

\* The stream ends, by itself or not: what was due is open again.
HangUp ==
  /\ stage # "down" /\ stage' = "down"
  /\ due' = {}
  /\ UNCHANGED <<published, handled, excused, holes>>

\* The bus starts again.
Restart ==
  /\ stage' = "down"
  /\ published' = {} /\ handled' = {} /\ excused' = {}
  /\ holes' = {} /\ due' = {}

Next ==
  \/ \E e \in published' : Publish(e) \/ Handle(e)
  \/ StartOver \/ Resume \/ Subscribe \/ HangUp \/ Restart

Spec == Init /\ [][Next]_vars
=============================================================================
