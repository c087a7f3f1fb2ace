----------------------------- MODULE Lifecycle ------------------------------
(***************************************************************************)
(* What the approval service promises about a request to anyone who only   *)
(* sees committed rows: the status moves along the table _ALLOWED of       *)
(* src/backend/app/approval/lifecycle.py, several edges at a time when one *)
(* transaction takes them, and whoever decided a request stays its         *)
(* decider.  A transaction may carry several requests at once.             *)
(***************************************************************************)
CONSTANTS Requests, Deciders, NoDecider

VARIABLES
  status,   \* status[r]: the committed status of request r
  decider   \* decider[r]: who decided it

vars == <<status, decider>>

Statuses == {"created", "pending", "approved", "applied",
             "application_failed", "denied", "superseded", "expired"}

\* _ALLOWED, and the birth of a row.
Allowed(s) ==
  CASE s = "created" -> {"pending"}
    [] s = "pending" -> {"approved", "denied", "superseded", "expired"}
    [] s = "approved" -> {"applied", "application_failed", "denied",
                          "superseded"}
    [] OTHER -> {}

\* What one transaction can make of status s: the paths of _ALLOWED have at
\* most three edges.
Reachable(s) ==
  LET after(S) == UNION {Allowed(t) : t \in S}
  IN  Allowed(s) \cup after(Allowed(s)) \cup after(after(Allowed(s)))

Undecided == {"created", "pending"}

TypeOK ==
  /\ status \in [Requests -> Statuses]
  /\ decider \in [Requests -> Deciders \cup {NoDecider}]

Init ==
  /\ status = [r \in Requests |-> "created"]
  /\ decider = [r \in Requests |-> NoDecider]

\* What a committed transaction may do to one request.
Moves(r) ==
  /\ status'[r] \in {status[r]} \cup Reachable(status[r])
  /\ status[r] \notin Undecided => decider'[r] = decider[r]
  /\ decider'[r] = NoDecider <=> status'[r] \in Undecided

Next ==
  /\ status' \in [Requests -> Statuses]
  /\ decider' \in [Requests -> Deciders \cup {NoDecider}]
  /\ \A r \in Requests : Moves(r)

Spec == Init /\ [][Next]_vars
=============================================================================
