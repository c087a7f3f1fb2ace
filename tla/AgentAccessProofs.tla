------------------------- MODULE AgentAccessProofs --------------------------
(***************************************************************************)
(* Self-registration keeps its promises for any number of clients, names   *)
(* and keys: the two tables it is kept in agree, names stay distinct, and  *)
(* what happens to a registration is what Enrolment allows.                *)
(*                                                                         *)
(* Registers speaks of a pair of tables and not of the variables, because  *)
(* register_request decides on tables it has just swept and added to.      *)
(***************************************************************************)
EXTENDS AgentAccess, TLAPS

RegTable == [Regs -> [status : RegStatuses, name : Names \cup {Null},
                      left : -1..RegistrationTTL]]
AskTable == [Regs -> [status : AskStatuses, name : Names \cup {Null},
                      left : 0..PendingTTL]]

\* Which status a request and its registration have together.
Agree(ask, s) ==
  /\ ask = "none" <=> s = "none"
  /\ ask = "applied" => s \in {"approved", "claimed", "expired"}
  /\ ask = "denied" => s \in {"denied", "expired"}
  /\ ask \in {"pending", "expired", "application_failed"}
       => s \in {"pending", "expired"}

Distinct(table, asked) ==
  \A q, s \in Regs :
    (/\ q # s /\ table[q].status \in Live /\ table[s].status \in Live
     /\ table[q].name = table[s].name)
      => \/ asked[q].name # table[q].name
         \/ asked[s].name # table[s].name

\* A waiting registration has the name it was asked for under: only approval
\* strips it.
Registers(table, asked) ==
  /\ table \in RegTable /\ asked \in AskTable
  /\ \A q \in Regs :
       /\ Agree(asked[q].status, table[q].status)
       /\ table[q].status \in Live => asked[q].name \in Names
       /\ table[q].status = "pending" => table[q].name = asked[q].name
  /\ Distinct(table, asked)

\* A key is handed out when a registration is claimed, and is used up then.
Handing ==
  /\ handed \in [Regs -> SUBSET Keys]
  /\ \A r \in Regs : /\ handed[r] \subseteq minted
                     /\ regs[r].status # "claimed" => handed[r] = {}
  /\ minted \subseteq Keys

Staff ==
  /\ agents \in [Agents -> [status : AgentStatuses, name : Names \cup {Null},
                            key : Keys \cup {Null}]]
  /\ \A a, b \in Agents :
       (a # b /\ Exists(a) /\ Exists(b)) => agents[a].name # agents[b].name

AccessInv == Registers(regs, asks) /\ Handing /\ Staff

\* The changes of status a committed step may make.
Passes(s, t) ==
  \/ t = s
  \/ s = "none" /\ t \in {"pending", "approved", "denied"}
  \/ s = "pending" /\ t \in {"approved", "denied", "expired"}
  \/ s = "approved" /\ t \in {"claimed", "expired"}

Given(r) ==
  IF regs[r].status # "claimed" /\ regs'[r].status = "claimed"
  THEN \E k \in Keys :
         handed'[r] = {k} /\ \A q \in Regs : k \notin handed[q]
  ELSE handed'[r] = handed[r]

Proceeds == \A r \in Regs : Passes(regs[r].status, regs'[r].status) /\ Given(r)

-----------------------------------------------------------------------------
LEMMA Ranges ==
  /\ 0 \in -1..RegistrationTTL /\ RegistrationTTL \in -1..RegistrationTTL
  /\ 0 \in 0..PendingTTL /\ PendingTTL \in 0..PendingTTL
  /\ RegistrationTTL \in Nat /\ PendingTTL \in Nat
BY AgentAccessAssumption

\* One row is replaced.
LEMMA PutRow ==
  ASSUME NEW table, NEW r \in Regs, NEW row
  PROVE  /\ Put(table, r, row)[r] = row
         /\ \A q \in Regs \ {r} : Put(table, r, row)[q] = table[q]
         /\ DOMAIN Put(table, r, row) = Regs
BY DEF Put

LEMMA PutReg ==
  ASSUME NEW table \in RegTable, NEW r \in Regs,
         NEW row \in [status : RegStatuses, name : Names \cup {Null},
                      left : -1..RegistrationTTL]
  PROVE  Put(table, r, row) \in RegTable
BY DEF Put, RegTable

LEMMA PutAsk ==
  ASSUME NEW table \in AskTable, NEW r \in Regs,
         NEW row \in [status : AskStatuses, name : Names \cup {Null},
                      left : 0..PendingTTL]
  PROVE  Put(table, r, row) \in AskTable
BY DEF Put, AskTable

LEMMA CloseReg ==
  ASSUME NEW table \in RegTable, NEW r \in Regs, NEW status \in RegStatuses
  PROVE  /\ Closed(table, r, status) \in RegTable
         /\ Closed(table, r, status)[r].status = status
         /\ Closed(table, r, status)[r].name = table[r].name
         /\ \A q \in Regs \ {r} : Closed(table, r, status)[q] = table[q]
<1>1. table[r].name \in Names \cup {Null}
  BY DEF RegTable
<1>2. Ended(table[r], status) \in [status : RegStatuses,
         name : Names \cup {Null}, left : -1..RegistrationTTL]
  BY <1>1, Ranges DEF Ended
<1>3. QED
  BY <1>2, PutRow, PutReg DEF Closed, Ended

LEMMA CloseAsk ==
  ASSUME NEW table \in AskTable, NEW r \in Regs, NEW status \in AskStatuses
  PROVE  /\ Closed(table, r, status) \in AskTable
         /\ Closed(table, r, status)[r].status = status
         /\ Closed(table, r, status)[r].name = table[r].name
         /\ \A q \in Regs \ {r} : Closed(table, r, status)[q] = table[q]
<1>1. table[r].name \in Names \cup {Null}
  BY DEF AskTable
<1>2. Ended(table[r], status) \in [status : AskStatuses,
         name : Names \cup {Null}, left : 0..PendingTTL]
  BY <1>1, Ranges DEF Ended
<1>3. QED
  BY <1>2, PutRow, PutAsk DEF Closed, Ended

\* A pair of tables that differs from one in order in the row of r alone, which
\* keeps its names and is in order, is in order.
LEMMA OneRow ==
  ASSUME NEW table, NEW asked, Registers(table, asked), NEW r \in Regs,
         NEW new \in RegTable, NEW now \in AskTable,
         \A q \in Regs \ {r} : new[q] = table[q] /\ now[q] = asked[q],
         Agree(now[r].status, new[r].status),
         new[r].status \in Live => now[r].name \in Names,
         new[r].status = "pending" => new[r].name = now[r].name,
         new[r].status \in Live =>
           \/ table[r].status \in Live /\ new[r].name = table[r].name
                /\ now[r].name = asked[r].name
           \/ now[r].name # new[r].name
           \/ \A q \in Regs \ {r} :
                table[q].status \in Live => table[q].name # new[r].name
  PROVE  Registers(new, now)
<1>1. ASSUME NEW q \in Regs, NEW s \in Regs, q # s,
             new[q].status \in Live, new[s].status \in Live,
             new[q].name = new[s].name,
             now[q].name = new[q].name, now[s].name = new[s].name
      PROVE  FALSE
  <2>1. CASE q # r /\ s # r
    BY <1>1, <2>1 DEF Registers, Distinct
  <2>2. CASE q = r
    BY <1>1, <2>2 DEF Registers, Distinct
  <2>3. CASE s = r
    BY <1>1, <2>3 DEF Registers, Distinct
  <2>4. QED
    BY <2>1, <2>2, <2>3
<1>2. Distinct(new, now)
  BY <1>1 DEF Distinct
<1>3. QED
  BY <1>2 DEF Registers

-----------------------------------------------------------------------------
\* What a verdict does to tables in order.
LEMMA SettleHolds ==
  ASSUME NEW table, NEW asked, Registers(table, asked), NEW r \in Regs,
         asked[r].status = "pending", NEW verdict,
         Settle(table, asked, r, verdict)
  PROVE  /\ Registers(regs', asks')
         /\ \A q \in Regs \ {r} : regs'[q] = table[q]
         /\ \/ regs'[r].status = table[r].status
            \/ table[r].status = "pending"
                 /\ regs'[r].status \in {"approved", "denied"}
<1>1. /\ table \in RegTable /\ asked \in AskTable
      /\ table[r].status \in {"pending", "expired"}
      /\ table[r].status = "pending" => asked[r].name \in Names
      /\ table[r].status = "pending" => table[r].name = asked[r].name
  BY DEF Registers, Agree, Live
<1>2. /\ "applied" \in AskStatuses /\ "application_failed" \in AskStatuses
      /\ "denied" \in AskStatuses
      /\ "denied" \in RegStatuses /\ "approved" \in RegStatuses
  BY DEF AskStatuses, RegStatuses, Live
<1>3. CASE asks' = Closed(asked, r, "denied") /\ regs' = Refused(table, r)
  <2>1. /\ asks' \in AskTable /\ asks'[r].status = "denied"
        /\ \A q \in Regs \ {r} : asks'[q] = asked[q]
    <3>1. "denied" \in AskStatuses /\ asked \in AskTable
      BY <1>1, <1>2
    <3>2. /\ Closed(asked, r, "denied") \in AskTable
          /\ Closed(asked, r, "denied")[r].status = "denied"
          /\ \A q \in Regs \ {r} : Closed(asked, r, "denied")[q] = asked[q]
      BY <3>1, CloseAsk
    <3>3. QED
      BY <1>3, <3>2
  <2>2. /\ regs' \in RegTable
        /\ \A q \in Regs \ {r} : regs'[q] = table[q]
        /\ IF table[r].status = "pending" THEN regs'[r].status = "denied"
           ELSE regs'[r].status = "expired" /\ table[r].status = "expired"
    BY <1>1, <1>2, <1>3, CloseReg DEF Refused, Live
  <2>3. Agree(asks'[r].status, regs'[r].status)
          /\ regs'[r].status \notin Live
    BY <2>1, <2>2 DEF Agree, Live
  <2>4. regs'[r].status # "pending"
    BY <2>3 DEF Live
  <2>5. Registers(regs', asks')
    BY <2>1, <2>2, <2>3, <2>4, OneRow
  <2>6. QED
    BY <2>2, <2>5
<1>4. CASE /\ Approvable(table, r, asked[r].name)
           /\ asks' = Closed(asked, r, "applied")
           /\ regs' = Approved(table, r, asked[r].name)
  <2> DEFINE name == Stripped[asked[r].name]
  <2>1. table[r].status = "pending" /\ name \in Names
    BY <1>1, <1>4, AgentAccessAssumption DEF Approvable
  <2>2. /\ asks' \in AskTable /\ asks'[r].status = "applied"
        /\ asks'[r].name = asked[r].name
        /\ \A q \in Regs \ {r} : asks'[q] = asked[q]
    <3>1. "applied" \in AskStatuses /\ asked \in AskTable
      BY <1>1, <1>2
    <3>2. /\ Closed(asked, r, "applied") \in AskTable
          /\ Closed(asked, r, "applied")[r].status = "applied"
          /\ Closed(asked, r, "applied")[r].name = asked[r].name
          /\ \A q \in Regs \ {r} :
               Closed(asked, r, "applied")[q] = asked[q]
      BY <3>1, CloseAsk
    <3>3. QED
      BY <1>4, <3>2
  <2> DEFINE row == [status |-> "approved", name |-> name,
                     left |-> RegistrationTTL]
  <2>3. row \in [status : RegStatuses, name : Names \cup {Null},
                 left : -1..RegistrationTTL]
    BY <1>2, <2>1, Ranges
  <2>4. regs' = Put(table, r, row)
    BY <1>4 DEF Approved
  <2>5. /\ regs' \in RegTable /\ regs'[r].status = "approved"
        /\ regs'[r].name = name
        /\ \A q \in Regs \ {r} : regs'[q] = table[q]
    BY <1>1, <2>3, <2>4, PutReg, PutRow
  <2>6. Agree(asks'[r].status, regs'[r].status)
    BY <2>2, <2>5 DEF Agree
  <2>7. asks'[r].name # regs'[r].name
          \/ (table[r].status \in Live /\ regs'[r].name = table[r].name
                /\ asks'[r].name = asked[r].name)
    BY <1>1, <2>1, <2>2, <2>5 DEF Live
  <2>8. asks'[r].name \in Names /\ regs'[r].status # "pending"
    BY <1>1, <2>1, <2>2, <2>5
  <2>9. Registers(regs', asks')
    BY <2>2, <2>5, <2>6, <2>7, <2>8, OneRow
  <2>10. QED
    BY <2>1, <2>5, <2>9
<1>5. CASE /\ asks' = Closed(asked, r, "application_failed")
           /\ regs' = table
  <2>1. /\ asks' \in AskTable /\ asks'[r].status = "application_failed"
        /\ asks'[r].name = asked[r].name
        /\ \A q \in Regs \ {r} : asks'[q] = asked[q]
    <3>1. "application_failed" \in AskStatuses /\ asked \in AskTable
      BY <1>1, <1>2
    <3>2. /\ Closed(asked, r, "application_failed") \in AskTable
          /\ Closed(asked, r, "application_failed")[r].status = "application_failed"
          /\ Closed(asked, r, "application_failed")[r].name = asked[r].name
          /\ \A q \in Regs \ {r} :
               Closed(asked, r, "application_failed")[q] = asked[q]
      BY <3>1, CloseAsk
    <3>3. QED
      BY <1>5, <3>2
  <2>2. Agree(asks'[r].status, regs'[r].status)
    BY <1>1, <1>5, <2>1 DEF Agree
  <2>3. Registers(regs', asks')
    BY <1>1, <1>5, <2>1, <2>2, OneRow DEF Live
  <2>4. QED
    BY <1>5, <2>3
<1>6. CASE asks' = asked /\ regs' = table
  BY <1>6
<1>7. QED
  BY <1>3, <1>4, <1>5, <1>6 DEF Settle

\* _expire_stale leaves the tables in order.
LEMMA SweepHolds ==
  ASSUME Registers(regs, asks)
  PROVE  /\ Registers(Swept, SweptAsks)
         /\ \A q \in Regs :
              /\ Passes(regs[q].status, Swept[q].status)
              /\ Swept[q].status \in Live \cup {"claimed", "none"}
                   => Swept[q].status = regs[q].status
<1>1. ASSUME NEW q \in Regs
      PROVE  /\ Swept[q] \in [status : RegStatuses, name : Names \cup {Null},
                              left : -1..RegistrationTTL]
             /\ SweptAsks[q] \in [status : AskStatuses,
                                  name : Names \cup {Null},
                                  left : 0..PendingTTL]
             /\ Agree(SweptAsks[q].status, Swept[q].status)
             /\ Swept[q].name = regs[q].name
             /\ SweptAsks[q].name = asks[q].name
             /\ \/ Swept[q].status = regs[q].status
                \/ Swept[q].status = "expired" /\ regs[q].status \in Live
  <2>1. /\ regs[q] \in [status : RegStatuses, name : Names \cup {Null},
                        left : -1..RegistrationTTL]
        /\ asks[q] \in [status : AskStatuses, name : Names \cup {Null},
                        left : 0..PendingTTL]
        /\ Agree(asks[q].status, regs[q].status)
    BY DEF Registers, RegTable, AskTable
  <2>2. "expired" \in RegStatuses /\ "expired" \in AskStatuses
    BY DEF RegStatuses, AskStatuses
  <2>3. CASE ~ Stale(q)
    <3>1. Swept[q] = regs[q] /\ SweptAsks[q] = asks[q]
      BY <2>3 DEF Swept, SweptAsks
    <3>2. QED
      BY <2>1, <3>1
  <2>4. CASE Stale(q)
    <3>1. /\ Swept[q] = [status |-> "expired", name |-> regs[q].name, left |-> 0]
          /\ regs[q].status \in Live
      BY <2>4 DEF Swept, Ended, Stale
    <3>2. SweptAsks[q] =
            IF asks[q].status = "pending"
            THEN [status |-> "expired", name |-> asks[q].name, left |-> 0]
            ELSE asks[q]
      BY <2>4 DEF SweptAsks, Ended
    <3>3. /\ Swept[q] \in [status : RegStatuses, name : Names \cup {Null},
                           left : -1..RegistrationTTL]
          /\ SweptAsks[q] \in [status : AskStatuses, name : Names \cup {Null},
                               left : 0..PendingTTL]
      BY <2>1, <2>2, <3>1, <3>2, Ranges
    <3>4. Agree(SweptAsks[q].status, "expired")
      BY <2>1, <3>1, <3>2 DEF Agree, AskStatuses, Live
    <3>5. QED
      BY <3>1, <3>2, <3>3, <3>4
  <2>5. QED
    BY <2>3, <2>4
<1>2. Swept \in RegTable /\ SweptAsks \in AskTable
  <2>1. Swept = [q \in Regs |-> Swept[q]]
    BY DEF Swept
  <2>2. SweptAsks = [q \in Regs |-> SweptAsks[q]]
    BY DEF SweptAsks
  <2>3. QED
    BY <1>1, <2>1, <2>2 DEF RegTable, AskTable
<1>3. Distinct(Swept, SweptAsks)
  BY <1>1 DEF Registers, Distinct, Live
<1>4. \A q \in Regs :
        /\ Swept[q].status \in Live => SweptAsks[q].name \in Names
        /\ Swept[q].status = "pending" => Swept[q].name = SweptAsks[q].name
  BY <1>1 DEF Registers, Live
<1>5. QED
  BY <1>1, <1>2, <1>3, <1>4 DEF Registers, Passes, Live

-----------------------------------------------------------------------------
\* A step that changes no registration and hands out nothing.
LEMMA Stays ==
  ASSUME \A r \in Regs : regs'[r].status = regs[r].status,
         handed' = handed
  PROVE  Proceeds
BY DEF Proceeds, Passes, Given

LEMMA EnrolStarts ==
  ASSUME InitAccess PROVE AccessInv
<1>1. /\ "none" \in RegStatuses /\ "none" \in AskStatuses
      /\ "none" \in AgentStatuses /\ "none" \notin Live
  BY DEF RegStatuses, AskStatuses, AgentStatuses, Live
<1>2. regs \in RegTable /\ asks \in AskTable
  BY <1>1, Ranges DEF InitAccess, RegTable, AskTable, NoReg
<1>3. \A r \in Regs : /\ regs[r].status = "none" /\ asks[r].status = "none"
  BY DEF InitAccess, NoReg
<1>4. Registers(regs, asks)
  BY <1>1, <1>2, <1>3 DEF Registers, Distinct, Agree
<1>5. Handing
  BY DEF InitAccess, Handing
<1>6. Staff
  BY <1>1 DEF InitAccess, Staff, Absent, Exists
<1>7. QED
  BY <1>4, <1>5, <1>6 DEF AccessInv

LEMMA StepDecideAsk ==
  ASSUME AccessInv, NEW r \in Regs, NEW verdict, DecideAsk(r, verdict)
  PROVE  AccessInv' /\ Proceeds
<1>1. /\ asks[r].status = "pending" /\ Settle(regs, asks, r, verdict)
      /\ UNCHANGED <<agents, minted, handed>>
  BY DEF DecideAsk
<1>2. /\ Registers(regs', asks')
      /\ \A q \in Regs \ {r} : regs'[q] = regs[q]
      /\ \/ regs'[r].status = regs[r].status
         \/ regs[r].status = "pending"
              /\ regs'[r].status \in {"approved", "denied"}
  BY <1>1, SettleHolds DEF AccessInv
<1>3. \A q \in Regs :
        /\ Passes(regs[q].status, regs'[q].status)
        /\ ~ (regs[q].status # "claimed" /\ regs'[q].status = "claimed")
  BY <1>2 DEF Passes
<1>4. Proceeds
  BY <1>1, <1>3 DEF Proceeds, Given
<1>5. Handing' /\ Staff'
  BY <1>1, <1>3 DEF AccessInv, Handing, Staff, Exists, Passes
<1>6. QED
  BY <1>2, <1>4, <1>5 DEF AccessInv

\* The new row is in order beside the swept ones: the name is free.
LEMMA StepRegister ==
  ASSUME AccessInv, NEW r \in Regs, NEW n \in Names, NEW verdict,
         Register(r, n, verdict)
  PROVE  AccessInv' /\ Proceeds
<1> DEFINE row == [status |-> "pending", name |-> n, left |-> RegistrationTTL]
           ask == [status |-> "pending", name |-> n, left |-> PendingTTL]
           table == Put(Swept, r, row)
           asked == Put(SweptAsks, r, ask)
<1>1. /\ regs[r].status = "none" /\ NameFree(n)
      /\ Settle(table, asked, r, verdict)
      /\ UNCHANGED <<agents, minted, handed>>
  BY DEF Register
<1>2. /\ Registers(Swept, SweptAsks)
      /\ \A q \in Regs :
           /\ Passes(regs[q].status, Swept[q].status)
           /\ Swept[q].status \in Live \cup {"claimed", "none"}
                => Swept[q].status = regs[q].status
  BY SweepHolds DEF AccessInv
<1>3. /\ row \in [status : RegStatuses, name : Names \cup {Null},
                  left : -1..RegistrationTTL]
      /\ ask \in [status : AskStatuses, name : Names \cup {Null},
                  left : 0..PendingTTL]
  BY Ranges DEF RegStatuses, AskStatuses, Live
<1>4. /\ table \in RegTable /\ asked \in AskTable
      /\ table[r] = row /\ asked[r] = ask
      /\ \A q \in Regs \ {r} : table[q] = Swept[q] /\ asked[q] = SweptAsks[q]
  <2>1. Swept \in RegTable /\ SweptAsks \in AskTable
    BY <1>2 DEF Registers
  <2>2. table \in RegTable /\ asked \in AskTable
    BY <1>3, <2>1, PutReg, PutAsk
  <2>3. table[r] = row /\ \A q \in Regs \ {r} : table[q] = Swept[q]
    BY PutRow
  <2>4. asked[r] = ask /\ \A q \in Regs \ {r} : asked[q] = SweptAsks[q]
    BY PutRow
  <2>5. QED
    BY <2>2, <2>3, <2>4
<1>5. Registers(table, asked)
  <2>1. Agree(asked[r].status, table[r].status)
    BY <1>4 DEF Agree
  <2>2. /\ table[r].name = n /\ asked[r].name = n /\ n \in Names
        /\ table[r].status = "pending"
    BY <1>4
  <2>3. \A q \in Regs \ {r} : Swept[q].status \in Live => Swept[q].name # n
    BY <1>1 DEF NameFree
  <2> HIDE DEF table, asked
  <2>4. QED
    BY <1>2, <1>4, <2>1, <2>2, <2>3, OneRow
<1>6. asked[r].status = "pending" /\ table[r].status = "pending"
  BY <1>4
<1> HIDE DEF table, asked
<1>7. /\ Registers(regs', asks')
      /\ \A q \in Regs \ {r} : regs'[q] = table[q]
      /\ regs'[r].status \in {"pending", "approved", "denied"}
  BY <1>1, <1>5, <1>6, SettleHolds
<1>8. \A q \in Regs :
        /\ Passes(regs[q].status, regs'[q].status)
        /\ ~ (regs[q].status # "claimed" /\ regs'[q].status = "claimed")
  <2>1. ASSUME NEW q \in Regs \ {r}
        PROVE  /\ Passes(regs[q].status, regs'[q].status)
               /\ ~ (regs[q].status # "claimed" /\ regs'[q].status = "claimed")
    <3>1. regs'[q] = Swept[q]
      BY <1>4, <1>7
    <3>2. /\ Passes(regs[q].status, Swept[q].status)
          /\ Swept[q].status = "claimed" => Swept[q].status = regs[q].status
      BY <1>2
    <3>3. QED
      BY <3>1, <3>2
  <2>2. Passes(regs[r].status, regs'[r].status) /\ regs'[r].status # "claimed"
    BY <1>1, <1>7 DEF Passes
  <2>3. QED
    BY <2>1, <2>2
<1>9. Proceeds
  BY <1>1, <1>8 DEF Proceeds, Given
<1>10. Handing' /\ Staff'
  BY <1>1, <1>8 DEF AccessInv, Handing, Staff, Exists, Passes
<1>11. QED
  BY <1>7, <1>9, <1>10 DEF AccessInv

\* One registration is closed, as claimed or expired.
LEMMA CloseHolds ==
  ASSUME AccessInv, NEW r \in Regs, NEW status \in {"claimed", "expired"},
         regs[r].status \in Live, status = "claimed" => regs[r].status = "approved",
         regs' = Closed(regs, r, status), asks' = asks
  PROVE  /\ Registers(regs', asks')
         /\ \A q \in Regs \ {r} : regs'[q] = regs[q]
         /\ regs'[r].status = status
<1>1. regs \in RegTable /\ asks \in AskTable /\ status \in RegStatuses
  BY DEF AccessInv, Registers, RegStatuses
<1>2. /\ Closed(regs, r, status) \in RegTable
      /\ Closed(regs, r, status)[r].status = status
      /\ \A q \in Regs \ {r} : Closed(regs, r, status)[q] = regs[q]
  BY <1>1, CloseReg
<1>3. regs' \in RegTable /\ regs'[r].status = status
      /\ \A q \in Regs \ {r} : regs'[q] = regs[q]
  BY <1>2
<1>4. Agree(asks[r].status, regs[r].status) /\ asks[r].status \in AskStatuses
  BY <1>1 DEF AccessInv, Registers, AskTable
<1>5. Agree(asks[r].status, status)
  BY <1>4 DEF Agree, Live, AskStatuses
<1>6. status \notin Live /\ status # "pending"
  BY DEF Live
<1>7. Registers(regs', asks')
  BY <1>1, <1>3, <1>5, <1>6, OneRow DEF AccessInv
<1>8. QED
  BY <1>3, <1>7

LEMMA StepClaimLate ==
  ASSUME AccessInv, NEW r \in Regs, ClaimLate(r)
  PROVE  AccessInv' /\ Proceeds
<1>1. /\ regs[r].status \in Live /\ regs' = Closed(regs, r, "expired")
      /\ UNCHANGED <<agents, asks, minted, handed>>
  BY DEF ClaimLate, Stale
<1>2. /\ Registers(regs', asks')
      /\ \A q \in Regs \ {r} : regs'[q] = regs[q]
      /\ regs'[r].status = "expired"
  BY <1>1, CloseHolds
<1>3. \A q \in Regs :
        /\ Passes(regs[q].status, regs'[q].status)
        /\ ~ (regs[q].status # "claimed" /\ regs'[q].status = "claimed")
  BY <1>1, <1>2 DEF Passes, Live
<1>4. Proceeds
  BY <1>1, <1>3 DEF Proceeds, Given
<1>5. Handing' /\ Staff'
  BY <1>1, <1>3 DEF AccessInv, Handing, Staff, Exists, Passes
<1>6. QED
  BY <1>2, <1>4, <1>5 DEF AccessInv

\* The name is free, and the key is new to everybody.
LEMMA StepClaim ==
  ASSUME AccessInv, NEW r \in Regs, NEW a \in Agents, NEW k \in Keys,
         Claim(r, a, k)
  PROVE  AccessInv' /\ Proceeds
<1>1. /\ regs[r].status = "approved" /\ ~ Taken(regs[r].name)
      /\ k \in Keys \ minted
      /\ agents' = [agents EXCEPT ![a] =
                      [status |-> "active", name |-> regs[r].name,
                       key |-> k]]
      /\ regs' = Closed(regs, r, "claimed") /\ asks' = asks
      /\ minted' = minted \cup {k}
      /\ handed' = [handed EXCEPT ![r] = @ \cup {k}]
  BY DEF Claim, Fresh
<1>2. /\ Registers(regs', asks')
      /\ \A q \in Regs \ {r} : regs'[q] = regs[q]
      /\ regs'[r].status = "claimed"
  BY <1>1, CloseHolds DEF Live
<1>3. handed[r] = {}
  BY <1>1 DEF AccessInv, Handing
<1>4. /\ handed'[r] = {k}
      /\ \A q \in Regs \ {r} : handed'[q] = handed[q]
      /\ \A q \in Regs : k \notin handed[q]
  BY <1>1, <1>3 DEF AccessInv, Handing
<1>5. Proceeds
  <2>1. Given(r) /\ Passes(regs[r].status, regs'[r].status)
    BY <1>1, <1>2, <1>4 DEF Given, Passes
  <2>2. \A q \in Regs \ {r} : Given(q) /\ Passes(regs[q].status, regs'[q].status)
    BY <1>2, <1>4 DEF Given, Passes
  <2>3. QED
    BY <2>1, <2>2 DEF Proceeds
<1>6. Handing'
  BY <1>1, <1>2, <1>4 DEF AccessInv, Handing
<1>7. Staff'
  <2>1. regs[r].name \in Names \cup {Null}
    BY DEF AccessInv, Registers, RegTable
  <2>2. /\ agents'[a].name = regs[r].name
        /\ \A b \in Agents \ {a} : agents'[b] = agents[b]
    BY <1>1 DEF AccessInv, Staff
  <2>3. \A b \in Agents : agents[b].status # "none" =>
                            agents[b].name # regs[r].name
    BY <1>1 DEF Taken, Exists
  <2>4. agents' \in [Agents -> [status : AgentStatuses,
                                name : Names \cup {Null},
                                key : Keys \cup {Null}]]
    BY <1>1, <2>1 DEF AccessInv, Staff, AgentStatuses
  <2>5. QED
    BY <2>2, <2>3, <2>4 DEF AccessInv, Staff, Exists
<1>8. QED
  BY <1>2, <1>5, <1>6, <1>7 DEF AccessInv

LEMMA StepExpireAsk ==
  ASSUME AccessInv, NEW r \in Regs, ExpireAsk(r)
  PROVE  AccessInv' /\ Proceeds
<1>1. /\ asks[r].status = "pending" /\ asks' = Closed(asks, r, "expired")
      /\ UNCHANGED <<agents, regs, minted, handed>>
  BY DEF ExpireAsk
<1>2. regs \in RegTable /\ asks \in AskTable /\ "expired" \in AskStatuses
  BY DEF AccessInv, Registers, AskStatuses
<1>3. /\ Closed(asks, r, "expired") \in AskTable
      /\ Closed(asks, r, "expired")[r].status = "expired"
      /\ Closed(asks, r, "expired")[r].name = asks[r].name
      /\ \A q \in Regs \ {r} : Closed(asks, r, "expired")[q] = asks[q]
  BY <1>2, CloseAsk
<1>4. Agree("expired", regs[r].status)
  BY <1>1 DEF AccessInv, Registers, Agree
<1>5. Registers(regs', asks')
  <2>1. /\ regs' \in RegTable /\ asks' \in AskTable
        /\ Agree(asks'[r].status, regs'[r].status)
        /\ asks'[r].name = asks[r].name /\ regs'[r] = regs[r]
        /\ \A q \in Regs \ {r} : regs'[q] = regs[q] /\ asks'[q] = asks[q]
    BY <1>1, <1>2, <1>3, <1>4
  <2>2. /\ regs'[r].status \in Live => asks'[r].name \in Names
        /\ regs'[r].status = "pending" => regs'[r].name = asks'[r].name
    BY <2>1 DEF AccessInv, Registers
  <2>3. QED
    BY <2>1, <2>2, OneRow DEF AccessInv
<1>6. Proceeds
  BY <1>1, Stays
<1>7. Handing' /\ Staff'
  BY <1>1 DEF AccessInv, Handing, Staff, Exists
<1>8. QED
  BY <1>5, <1>6, <1>7 DEF AccessInv

\* One agent's row is replaced.
LEMMA PutAgent ==
  ASSUME Staff, NEW a \in Agents,
         NEW row \in [status : AgentStatuses, name : Names \cup {Null},
                      key : Keys \cup {Null}],
         agents' \in [Agents -> [status : AgentStatuses,
                                 name : Names \cup {Null},
                                 key : Keys \cup {Null}]],
         agents'[a] = row,
         \A b \in Agents \ {a} : agents'[b] = agents[b],
         \/ row.status = "none"
         \/ Exists(a) /\ row.name = agents[a].name
         \/ ~ Taken(row.name)
  PROVE  Staff'
<1>1. ~ Taken(row.name) =>
        \A b \in Agents : agents[b].status # "none" => agents[b].name # row.name
  BY DEF Taken, Exists
<1>2. QED
  BY <1>1 DEF Staff, Exists

LEMMA StepCreateAgent ==
  ASSUME AccessInv, NEW a \in Agents, NEW n \in Names, NEW k \in Keys,
         CreateAgent(a, n, k)
  PROVE  AccessInv' /\ Proceeds
<1> DEFINE row == [status |-> "active", name |-> n, key |-> k]
<1>1. /\ ~ Taken(n) /\ agents' = [agents EXCEPT ![a] = row]
      /\ minted' = minted \cup {k}
      /\ UNCHANGED <<regs, asks, handed>>
  BY DEF CreateAgent
<1>2. /\ row \in [status : AgentStatuses, name : Names \cup {Null},
                  key : Keys \cup {Null}]
      /\ row.name = n
  BY DEF AgentStatuses
<1>3. /\ agents' \in [Agents -> [status : AgentStatuses,
                                 name : Names \cup {Null},
                                 key : Keys \cup {Null}]]
      /\ agents'[a] = row
      /\ \A b \in Agents \ {a} : agents'[b] = agents[b]
  BY <1>1, <1>2 DEF AccessInv, Staff
<1>4. Staff'
  BY <1>1, <1>2, <1>3, PutAgent DEF AccessInv
<1>5. Handing' /\ Registers(regs', asks')
  BY <1>1 DEF AccessInv, Handing
<1>6. Proceeds
  BY <1>1, Stays
<1>7. QED
  BY <1>4, <1>5, <1>6 DEF AccessInv

LEMMA StepRenameAgent ==
  ASSUME AccessInv, NEW a \in Agents, NEW n \in Names, RenameAgent(a, n)
  PROVE  AccessInv' /\ Proceeds
<1> DEFINE row == [status |-> agents[a].status, name |-> n,
                   key |-> agents[a].key]
<1>1. /\ ~ Taken(n) /\ agents' = [agents EXCEPT ![a].name = n]
      /\ UNCHANGED <<regs, asks, minted, handed>>
  BY DEF RenameAgent
<1>2. /\ agents[a] \in [status : AgentStatuses, name : Names \cup {Null},
                        key : Keys \cup {Null}]
      /\ agents \in [Agents -> [status : AgentStatuses,
                                name : Names \cup {Null},
                                key : Keys \cup {Null}]]
  BY DEF AccessInv, Staff
<1>3. /\ row \in [status : AgentStatuses, name : Names \cup {Null},
                  key : Keys \cup {Null}]
      /\ row.name = n
  BY <1>2
<1>4. /\ agents'[a] = row
      /\ \A b \in Agents \ {a} : agents'[b] = agents[b]
      /\ agents' = [b \in Agents |-> agents'[b]]
  <2>1. /\ agents'[a] = [agents[a] EXCEPT !.name = n]
        /\ \A b \in Agents \ {a} : agents'[b] = agents[b]
        /\ agents' = [b \in Agents |-> agents'[b]]
    BY <1>1, <1>2
  <2>2. [agents[a] EXCEPT !.name = n] = row
    BY <1>2
  <2>3. QED
    BY <2>1, <2>2
<1>5. Staff'
  BY <1>1, <1>2, <1>3, <1>4, PutAgent DEF AccessInv
<1>6. Handing' /\ Registers(regs', asks')
  BY <1>1 DEF AccessInv, Handing
<1>7. Proceeds
  BY <1>1, Stays
<1>8. QED
  BY <1>5, <1>6, <1>7 DEF AccessInv

LEMMA StepHandleAgent ==
  ASSUME AccessInv, HandleAgent
  PROVE  AccessInv' /\ Proceeds
<1>1. UNCHANGED <<regs, asks, handed>>
  BY DEF HandleAgent, RotateKey, SetStatus
<1>2. PICK a \in Agents :
        \/ \E k \in Keys : RotateKey(a, k)
        \/ \E status \in {"active", "disabled", "revoked"} :
             SetStatus(a, status)
  BY DEF HandleAgent
<1>3. /\ agents[a] \in [status : AgentStatuses, name : Names \cup {Null},
                        key : Keys \cup {Null}]
      /\ agents \in [Agents -> [status : AgentStatuses,
                                name : Names \cup {Null},
                                key : Keys \cup {Null}]]
  BY DEF AccessInv, Staff
<1>4. CASE \E k \in Keys : RotateKey(a, k)
  <2>1. PICK k \in Keys : RotateKey(a, k)
    BY <1>4
  <2>2. /\ agents' = [agents EXCEPT ![a].key = k]
        /\ minted' = minted \cup {k}
    BY <2>1 DEF RotateKey
  <2>3. /\ agents'[a] = [agents[a] EXCEPT !.key = k]
        /\ \A b \in Agents \ {a} : agents'[b] = agents[b]
        /\ agents' = [b \in Agents |-> agents'[b]]
    BY <1>3, <2>2
  <2>4. /\ \A b \in Agents : agents'[b].name = agents[b].name
                             /\ agents'[b].status = agents[b].status
        /\ agents' \in [Agents -> [status : AgentStatuses,
                                   name : Names \cup {Null},
                                   key : Keys \cup {Null}]]
    BY <1>3, <2>3
  <2>5. Staff'
    BY <2>4 DEF AccessInv, Staff, Exists
  <2>6. Handing' /\ Registers(regs', asks')
    BY <1>1, <2>2 DEF AccessInv, Handing
  <2>7. QED
    BY <1>1, <2>5, <2>6, Stays DEF AccessInv
<1>5. CASE \E status \in {"active", "disabled", "revoked"} :
             SetStatus(a, status)
  <2>1. PICK status \in {"active", "disabled", "revoked"} :
          SetStatus(a, status)
    BY <1>5
  <2>2. /\ agents[a].status # "none" /\ minted' = minted
        /\ agents' = [agents EXCEPT ![a].status = status]
    BY <2>1 DEF SetStatus, Exists
  <2>3. /\ agents'[a] = [agents[a] EXCEPT !.status = status]
        /\ \A b \in Agents \ {a} : agents'[b] = agents[b]
        /\ agents' = [b \in Agents |-> agents'[b]]
    BY <1>3, <2>2
  <2>4. /\ \A b \in Agents :
             /\ agents'[b].name = agents[b].name
             /\ agents'[b].status # "none" => agents[b].status # "none"
        /\ agents' \in [Agents -> [status : AgentStatuses,
                                   name : Names \cup {Null},
                                   key : Keys \cup {Null}]]
    BY <1>3, <2>2, <2>3 DEF AgentStatuses
  <2>5. Staff'
    BY <2>4 DEF AccessInv, Staff, Exists
  <2>6. Handing' /\ Registers(regs', asks')
    BY <1>1, <2>2 DEF AccessInv, Handing
  <2>7. QED
    BY <1>1, <2>5, <2>6, Stays DEF AccessInv
<1>6. QED
  BY <1>2, <1>4, <1>5

LEMMA StepTickAccess ==
  ASSUME AccessInv, TickAccess
  PROVE  AccessInv' /\ Proceeds
<1>1. /\ regs' = [r \in Regs |-> IF regs[r].status \in Live
                                 THEN Elapse(regs[r], -1) ELSE regs[r]]
      /\ asks' = [r \in Regs |-> IF asks[r].status = "pending"
                                 THEN Elapse(asks[r], 0) ELSE asks[r]]
      /\ UNCHANGED <<agents, minted, handed>>
  BY DEF TickAccess
<1>2. ASSUME NEW r \in Regs
      PROVE  /\ regs'[r].status = regs[r].status
             /\ regs'[r].name = regs[r].name
             /\ regs'[r] \in [status : RegStatuses, name : Names \cup {Null},
                              left : -1..RegistrationTTL]
  <2>1. regs[r] \in [status : RegStatuses, name : Names \cup {Null},
                     left : -1..RegistrationTTL]
    BY DEF AccessInv, Registers, RegTable
  <2>2. Elapse(regs[r], -1) =
          [status |-> regs[r].status, name |-> regs[r].name,
           left |-> IF regs[r].left > -1 THEN regs[r].left - 1 ELSE -1]
    BY <2>1 DEF Elapse
  <2>3. (IF regs[r].left > -1 THEN regs[r].left - 1 ELSE -1)
          \in -1..RegistrationTTL
    BY <2>1, Ranges
  <2>4. QED
    BY <1>1, <2>1, <2>2, <2>3
<1>3. ASSUME NEW r \in Regs
      PROVE  /\ asks'[r].status = asks[r].status
             /\ asks'[r].name = asks[r].name
             /\ asks'[r] \in [status : AskStatuses, name : Names \cup {Null},
                              left : 0..PendingTTL]
  <2>1. asks[r] \in [status : AskStatuses, name : Names \cup {Null},
                     left : 0..PendingTTL]
    BY DEF AccessInv, Registers, AskTable
  <2>2. Elapse(asks[r], 0) =
          [status |-> asks[r].status, name |-> asks[r].name,
           left |-> IF asks[r].left > 0 THEN asks[r].left - 1 ELSE 0]
    BY <2>1 DEF Elapse
  <2>3. (IF asks[r].left > 0 THEN asks[r].left - 1 ELSE 0) \in 0..PendingTTL
    BY <2>1, Ranges
  <2>4. QED
    BY <1>1, <2>1, <2>2, <2>3
<1>4. regs' \in RegTable /\ asks' \in AskTable
  BY <1>1, <1>2, <1>3 DEF RegTable, AskTable
<1>5. Registers(regs', asks')
  BY <1>2, <1>3, <1>4 DEF AccessInv, Registers, Distinct
<1>6. Proceeds
  BY <1>1, <1>2, Stays
<1>7. Handing' /\ Staff'
  BY <1>1, <1>2 DEF AccessInv, Handing, Staff, Exists
<1>8. QED
  BY <1>5, <1>6, <1>7 DEF AccessInv

LEMMA EnrolHolds ==
  ASSUME AccessInv, [EnrolStep \/ HandleAgent \/ TickAccess]_accessVars
  PROVE  AccessInv' /\ Proceeds
<1>1. CASE UNCHANGED accessVars
  BY <1>1, Stays
     DEF accessVars, AccessInv, Handing, Staff, Exists
<1>2. CASE EnrolStep
  <2>1. CASE \E r \in Regs :
               \/ Poll(r) \/ ExpireAsk(r)
               \/ \E v \in {"prompt", "approve", "deny"} :
                    DecideAsk(r, v) \/ \E n \in Names : Register(r, n, v)
    BY <2>1, StepClaimLate, StepClaim, StepExpireAsk, StepDecideAsk,
       StepRegister DEF Poll
  <2>2. CASE \E a \in Agents, n \in Names :
               RenameAgent(a, n) \/ \E k \in Keys : CreateAgent(a, n, k)
    BY <2>2, StepRenameAgent, StepCreateAgent
  <2>3. QED
    BY <1>2, <2>1, <2>2 DEF EnrolStep
<1>3. CASE HandleAgent
  BY <1>3, StepHandleAgent
<1>4. CASE TickAccess
  BY <1>4, StepTickAccess
<1>5. QED
  BY <1>1, <1>2, <1>3, <1>4

-----------------------------------------------------------------------------
LEMMA InvImplies ==
  ASSUME AccessInv
  PROVE  AccessTypeOK /\ ClaimFollowsDecision /\ NamesDistinct
<1>1. AccessTypeOK
  BY DEF AccessInv, Registers, Handing, Staff, AccessTypeOK, RegTable, AskTable
<1>2. ASSUME NEW r \in Regs PROVE Fits(r)
  <2>1. Agree(asks[r].status, regs[r].status) /\ asks[r].status \in AskStatuses
    BY DEF AccessInv, Registers, AskTable
  <2>2. QED
    BY <2>1 DEF Agree, AskStatuses, Fits
<1>3. NamesDistinct
  BY DEF AccessInv, Staff, Registers, Distinct, NamesDistinct
<1>4. QED
  BY <1>1, <1>2, <1>3 DEF ClaimFollowsDecision

\* What a step may do to a registration is what Enrolment lets it do.
LEMMA Refines ==
  ASSUME AccessInv, AccessInv', Proceeds
  PROVE  E!Next
<1>1. ASSUME NEW r \in Regs
      PROVE  /\ regs[r].status \in RegStatuses /\ regs'[r].status \in RegStatuses
             /\ StageOf(r) \in E!Stages /\ StageOf(r)' \in E!Stages
  <2>1. regs[r].status \in RegStatuses /\ regs'[r].status \in RegStatuses
    BY DEF AccessInv, Registers, RegTable
  <2>2. QED
    BY <2>1 DEF RegStatuses, Live, StageOf, E!Stages
<1>2. ASSUME NEW r \in Regs
      PROVE  /\ StageOf(r)' \in {StageOf(r)} \cup E!After(StageOf(r))
             /\ StageOf(r) # "served" /\ StageOf(r)' = "served"
                  <=> regs[r].status # "claimed" /\ regs'[r].status = "claimed"
  <2>1. Passes(regs[r].status, regs'[r].status)
    BY DEF Proceeds
  <2>2. QED
    BY <1>1, <2>1 DEF Passes, RegStatuses, Live, StageOf, E!After
<1>3. \A r \in Regs : Given(r)
  BY DEF Proceeds
<1>4. handed' \in [Regs -> SUBSET Keys]
  BY DEF AccessInv, Handing
<1>5. \A r \in Regs : E!Proceed(r)
  BY <1>2, <1>3 DEF E!Proceed, Given
<1>6. QED
  BY <1>1, <1>4, <1>5 DEF E!Next

-----------------------------------------------------------------------------
(***************************************************************************)
(* The table of requests and the table of registrations agree about every  *)
(* registration, whichever of the six handlers wrote last.                 *)
(***************************************************************************)
THEOREM DecisionsReachRegistrations ==
  SpecAccess => [](AccessTypeOK /\ ClaimFollowsDecision)
<1>1. InitAccess => AccessInv
  BY EnrolStarts
<1>2. AccessInv /\ [EnrolStep \/ HandleAgent \/ TickAccess]_accessVars
        => AccessInv'
  BY EnrolHolds
<1>3. AccessInv => AccessTypeOK /\ ClaimFollowsDecision
  BY InvImplies
<1>4. QED
  BY <1>1, <1>2, <1>3, PTL DEF SpecAccess

(***************************************************************************)
(* No two agents have a name, and two live registrations share one only if *)
(* approval stripped the name of one of them.                              *)
(***************************************************************************)
THEOREM NamesStayDistinct == SpecAccess => []NamesDistinct
<1>1. InitAccess => AccessInv
  BY EnrolStarts
<1>2. AccessInv /\ [EnrolStep \/ HandleAgent \/ TickAccess]_accessVars
        => AccessInv'
  BY EnrolHolds
<1>3. AccessInv => NamesDistinct
  BY InvImplies
<1>4. QED
  BY <1>1, <1>2, <1>3, PTL DEF SpecAccess

(***************************************************************************)
(* The registrations implement Enrolment: every committed step is one of   *)
(* its steps or none, and a key is handed out once, after an admission.    *)
(***************************************************************************)
THEOREM EnrolmentImplemented == SpecAccess => ImplementsEnrolment
<1>1. InitAccess => AccessInv
  BY EnrolStarts
<1>2. AccessInv /\ [EnrolStep \/ HandleAgent \/ TickAccess]_accessVars
        => AccessInv' /\ Proceeds
  BY EnrolHolds
<1>3. InitAccess => E!Init
  BY DEF InitAccess, NoReg, StageOf, E!Init
<1>4. AccessInv /\ AccessInv' /\ Proceeds => [E!Next]_(E!vars)
  BY Refines
<1>5. QED
  BY <1>1, <1>2, <1>3, <1>4, PTL DEF SpecAccess, ImplementsEnrolment, E!Spec
=============================================================================
