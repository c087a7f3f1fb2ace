------------------------------ MODULE MCAccess ------------------------------
(***************************************************************************)
(* Small instances of what stands at the entrance, one in each initial     *)
(* state: clients that enrol, calls of an agent, the bucket of an agent,   *)
(* and logins.  They share no tables but agents, and only the calls and    *)
(* the enrolment touch those; the calls' agent is in place from the start. *)
(***************************************************************************)
EXTENDS Gateway, RateLimit, Sessions

CONSTANTS a1, k1, plain, padded

ASSUME MCAccessAssumption == a1 \in Agents /\ k1 \in Keys /\ plain \in Names

VARIABLE scene

vars == <<scene, accessVars, gatewayVars, rateVars, loginVars>>

StripNames == [n \in Names |-> IF n = padded THEN plain ELSE n]
TwoSteps == [n \in 0..MaxFailures |-> IF n < 2 THEN 0 ELSE n - 1]

Employ ==
  /\ agents = [a \in Agents |->
       IF a = a1 THEN [status |-> "active", name |-> plain, key |-> k1]
       ELSE Absent]
  /\ minted = {k1}
  /\ regs = [r \in Regs |-> NoReg] /\ asks = [r \in Regs |-> NoReg]
  /\ handed = [r \in Regs |-> {}]

Init ==
  /\ scene \in {"enrol", "call", "rate", "login"}
  /\ IF scene = "call" THEN Employ ELSE InitAccess
  /\ InitGateway /\ InitRate /\ InitLogins

Next ==
  /\ \/ /\ scene = "enrol"
        /\ EnrolStep \/ TickAccess
        /\ UNCHANGED <<gatewayVars, rateVars, loginVars>>
     \/ /\ scene = "call" /\ GatewayStep
        /\ UNCHANGED <<rateVars, loginVars>>
     \/ /\ scene = "rate" /\ RateStep
        /\ UNCHANGED <<accessVars, gatewayVars, loginVars>>
     \/ /\ scene = "login" /\ LoginStep
        /\ UNCHANGED <<accessVars, gatewayVars, rateVars>>
  /\ UNCHANGED scene

\* Time passes, and a client polls for its own registration until it has the
\* answer.
Fairness ==
  /\ WF_vars(scene = "enrol" /\ TickAccess
               /\ UNCHANGED <<gatewayVars, rateVars, loginVars, scene>>)
  /\ \A r \in Regs :
       WF_vars(scene = "enrol" /\ Poll(r)
                 /\ UNCHANGED <<gatewayVars, rateVars, loginVars, scene>>)

Spec == Init /\ [][Next]_vars /\ Fairness

TypeOK == AccessTypeOK /\ GatewayTypeOK /\ RateTypeOK /\ SessionsTypeOK
=============================================================================
