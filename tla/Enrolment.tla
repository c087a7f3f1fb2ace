----------------------------- MODULE Enrolment ------------------------------
(***************************************************************************)
(* What self-registration promises to its parties: an application is       *)
(* admitted before it is served, is served with one key, and is refused    *)
(* only while nobody admitted it; once served, refused or lapsed it stays  *)
(* so, and no key is handed out on any other path.                         *)
(***************************************************************************)
CONSTANTS Regs, Keys

VARIABLES
  stage,  \* the stage of each application
  keys    \* the keys handed out for it

vars == <<stage, keys>>

Stages == {"none", "open", "admitted", "served", "refused", "lapsed"}

Init ==
  /\ stage = [r \in Regs |-> "none"]
  /\ keys = [r \in Regs |-> {}]

\* The stages one committed step may take an application through.
After(s) ==
  CASE s = "none" -> {"open", "admitted", "refused"}
    [] s = "open" -> {"admitted", "refused", "lapsed"}
    [] s = "admitted" -> {"served", "lapsed"}
    [] OTHER -> {}

\* Several applications may lapse in one step.
Proceed(r) ==
  /\ stage'[r] \in {stage[r]} \cup After(stage[r])
  /\ IF stage[r] # "served" /\ stage'[r] = "served"
     THEN \E k \in Keys :
            keys'[r] = {k} /\ \A s \in Regs : k \notin keys[s]
     ELSE keys'[r] = keys[r]

Next ==
  /\ stage' \in [Regs -> Stages]
  /\ keys' \in [Regs -> SUBSET Keys]
  /\ \A r \in Regs : Proceed(r)

Spec == Init /\ [][Next]_vars
=============================================================================
