-------------------------- MODULE WorkspaceProofs ---------------------------
(***************************************************************************)
(* What is served was reviewed, the disk follows the table, and no bytes   *)
(* vanish, for any number of places, files and contents; a walk through a  *)
(* list returns every row that stays once, for lists and pages of any      *)
(* size; and an ETag stands for what its reader saw, no write replaces     *)
(* what its client has not seen, and fields nobody named stay, for any     *)
(* number of modules, fields, proposals and writes.                        *)
(***************************************************************************)
EXTENDS MCWorkspace, FiniteSetTheorems, WellFoundedInduction, TLAPS

-----------------------------------------------------------------------------
(***************************************************************************)
(* Files.  A transaction that is rolled back returns the rows and not the  *)
(* files, so the invariant speaks of the rows as they are and as they were *)
(* before the open transaction.                                            *)
(***************************************************************************)

\* A row has the sha of its request, and there is one exactly for the requests
\* that were applied.
Coherent(rs, cs) ==
  \A f \in Files : cs[f] # NoClaim =>
    /\ (cs[f].status = "applied") <=> (rs[f] # NoRow)
    /\ rs[f] # NoRow => rs[f].sha = cs[f].sha

\* The blobs of a table are what it says.
Truthful(rs) ==
  \A f \in Files :
    (rs[f].status = "registered" /\ store[f] # Null
       /\ "swapped" \notin causes[f]) => store[f] = rs[f].sha

\* Where disk and table disagree, something went wrong.
Explained ==
  \A f \in Files :
    /\ (Shown(f) /\ store[f] = Null) => "rolled back" \in causes[f]
    /\ (~ Shown(f) /\ store[f] # Null) =>
         causes[f] \cap {"rolled back", "not unlinked"} # {}

\* A file under way has no row, waits if it was requested, and is in its place
\* as it was compared.
UnderWay ==
  tx.at \in {"decided", "hashed"} =>
    /\ tx.file \in Files /\ tx.place \in Places /\ tx.sha \in Bytes
    /\ rows[tx.file] = NoRow
    /\ claims[tx.file] = NoClaim
         \/ (claims[tx.file].status = "pending"
               /\ claims[tx.file].sha = tx.sha)
    /\ tx.at = "decided" => claims[tx.file] # NoClaim
    /\ tx.at = "hashed" /\ "swapped" \notin causes[tx.file] =>
         inbox[tx.place] = tx.sha

\* What an open transaction can return to is in order too.
Returnable ==
  tx.at # "none" =>
    /\ Coherent(tx.before.rows, tx.before.claims)
    /\ Truthful(tx.before.rows)
    /\ \A f \in Files : tx.before.rows[f] # NoRow => rows[f] # NoRow

FilesInv ==
  /\ FilesTypeOK /\ Coherent(rows, claims) /\ Truthful(rows)
  /\ Explained /\ UnderWay /\ Returnable

-----------------------------------------------------------------------------
\* The two parts of the open transaction's memory are tables.
LEMMA BeforeTables ==
  ASSUME FilesTypeOK
  PROVE  tx.before.rows \in RowTable /\ tx.before.claims \in ClaimTable
BY DEF FilesTypeOK, Transactions

LEMMA RowType ==
  ASSUME NEW rs \in RowTable, NEW f \in Files
  PROVE  /\ rs[f].status \in {"none", "registered", "deleted"}
         /\ rs[f] = NoRow <=> rs[f].status = "none"
         /\ rs[f] # NoRow => rs[f].sha \in Bytes
BY DEF RowTable, NoRow

LEMMA ClaimType ==
  ASSUME NEW cs \in ClaimTable, NEW f \in Files
  PROVE  /\ cs[f] = NoClaim <=> cs[f].status = "none"
         /\ cs[f] # NoClaim => cs[f].place \in Places /\ cs[f].sha \in Bytes
BY DEF ClaimTable, NoClaim

LEMMA InitFilesInv == InitFiles => FilesInv
BY FilesAssumption
   DEF InitFiles, FilesInv, FilesTypeOK, RowTable, ClaimTable, NoRow, NoClaim,
       NoTables, Idle, Stages, Transactions, Coherent, Truthful, Explained, Shown, UnderWay,
       Returnable

-----------------------------------------------------------------------------
LEMMA StepDrop ==
  ASSUME FilesInv, NEW p \in Places, NEW c \in Bytes, Drop(p, c)
  PROVE  FilesInv'
<1>1. /\ inbox' = [inbox EXCEPT ![p] = c]
      /\ UNCHANGED <<store, rows, claims, tx>>
  BY DEF Drop
<1>2. /\ causes' \in [Files -> SUBSET Causes]
      /\ \A f \in Files : causes[f] \subseteq causes'[f]
  BY DEF Drop, Blame, Causes, FilesInv, FilesTypeOK
<1>3. FilesTypeOK'
  BY <1>1, <1>2 DEF FilesInv, FilesTypeOK
<1>4. Truthful(rows)' /\ Explained'
  BY <1>1, <1>2 DEF FilesInv, Truthful, Explained, Shown
<1>5. UnderWay'
  <2>1. CASE tx.at = "hashed" /\ tx.place = p /\ tx.sha # c
    <3>1. tx.file \in Files
      BY <2>1 DEF FilesInv, UnderWay
    <3>2. "swapped" \in causes'[tx.file]
      BY <2>1, <3>1 DEF Drop, Blame
    <3>3. QED
      BY <1>1, <3>2 DEF FilesInv, UnderWay
  <2>2. CASE ~ (tx.at = "hashed" /\ tx.place = p /\ tx.sha # c)
    <3>1. causes' = causes
      BY <2>2 DEF Drop
    <3>2. QED
      BY <1>1, <2>2, <3>1 DEF FilesInv, FilesTypeOK, UnderWay
  <2>3. QED
    BY <2>1, <2>2
<1>6. Returnable'
  BY <1>1, <1>2 DEF FilesInv, Returnable, Coherent, Truthful
<1>7. QED
  BY <1>1, <1>3, <1>4, <1>5, <1>6 DEF FilesInv, Coherent

\* Opening a transaction remembers tables that are in order.
LEMMA OpenInOrder ==
  ASSUME FilesInv, NEW at \in Stages \ {"none"}, NEW f \in Files,
         NEW p \in Places \cup {Null}, NEW sha \in Bytes \cup {Null},
         NEW sweep \in BOOLEAN, Open(at, f, p, sha, sweep)
  PROVE  /\ tx' = [at |-> at, file |-> f, place |-> p, sha |-> sha,
                   sweep |-> sweep,
                   before |-> [rows |-> rows, claims |-> claims]]
         /\ tx' \in Transactions
BY DEF Open, Tables, FilesInv, FilesTypeOK, Transactions

LEMMA StepRegisterFile ==
  ASSUME FilesInv, NEW f \in Files, NEW p \in Places, RegisterFile(f, p)
  PROVE  FilesInv'
<1>1. /\ tx.at = "none" /\ inbox[p] \in Bytes
      /\ claims[f] = NoClaim /\ rows[f] = NoRow
      /\ UNCHANGED <<inbox, store, rows, causes>>
  BY DEF RegisterFile, FilesInv, FilesTypeOK
<1>2. PICK status \in {"pending", "denied"} :
        /\ claims' = [claims EXCEPT ![f] =
                        [status |-> status, place |-> p, sha |-> inbox[p]]]
        /\ \/ tx' = tx
           \/ status = "pending" /\ Open("decided", f, p, inbox[p], FALSE)
  BY DEF RegisterFile
<1>3. claims' \in ClaimTable
  BY <1>1, <1>2 DEF FilesInv, FilesTypeOK, ClaimTable
<1>4. claims'[f] = [status |-> status, place |-> p, sha |-> inbox[p]]
        /\ \A g \in Files \ {f} : claims'[g] = claims[g]
  BY <1>2 DEF FilesInv, FilesTypeOK, ClaimTable
<1>5. Coherent(rows, claims)'
  BY <1>1, <1>4 DEF FilesInv, Coherent
<1>6. Truthful(rows)' /\ Explained'
  BY <1>1 DEF FilesInv, Truthful, Explained, Shown
<1>7. CASE tx' = tx
  <2>1. FilesTypeOK'
    BY <1>1, <1>3, <1>7 DEF FilesInv, FilesTypeOK
  <2>2. UnderWay' /\ Returnable'
    BY <1>1, <1>7 DEF UnderWay, Returnable
  <2>3. QED
    BY <1>5, <1>6, <2>1, <2>2 DEF FilesInv
<1>8. CASE status = "pending" /\ Open("decided", f, p, inbox[p], FALSE)
  <2>1. /\ tx' = [at |-> "decided", file |-> f, place |-> p, sha |-> inbox[p],
                  sweep |-> FALSE,
                  before |-> [rows |-> rows, claims |-> claims]]
        /\ tx' \in Transactions
    BY <1>1, <1>8, OpenInOrder DEF Stages
  <2>3. FilesTypeOK'
    BY <1>1, <1>3, <2>1 DEF FilesInv, FilesTypeOK
  <2>4. UnderWay'
    BY <1>1, <1>4, <1>8, <2>1 DEF UnderWay, NoClaim
  <2>5. Returnable'
    BY <1>1, <2>1 DEF FilesInv, Returnable, Coherent, Truthful
  <2>6. QED
    BY <1>5, <1>6, <2>3, <2>4, <2>5 DEF FilesInv
<1>9. QED
  BY <1>2, <1>7, <1>8

LEMMA StepApproveClaim ==
  ASSUME FilesInv, NEW f \in Files, ApproveClaim(f)
  PROVE  FilesInv'
<1>1. /\ claims[f].status = "pending"
      /\ UNCHANGED <<inbox, store, rows, claims, causes>>
  BY DEF ApproveClaim
<1>2. /\ claims[f] # NoClaim /\ claims[f].place \in Places
      /\ claims[f].sha \in Bytes /\ rows[f] = NoRow
  BY <1>1, ClaimType DEF FilesInv, FilesTypeOK, Coherent, NoClaim
<1>3. /\ tx'.at = "decided" /\ tx'.file = f
      /\ tx'.place = claims[f].place /\ tx'.sha = claims[f].sha
      /\ tx' \in Transactions
      /\ \/ tx'.before = [rows |-> rows, claims |-> claims]
         \/ tx'.before = tx.before /\ tx.at # "none"
  <2>1. CASE tx.at = "none"
              /\ Open("decided", f, claims[f].place, claims[f].sha, TRUE)
    <3>1. /\ "decided" \in Stages \ {"none"} /\ TRUE \in BOOLEAN
          /\ claims[f].place \in Places \cup {Null}
          /\ claims[f].sha \in Bytes \cup {Null}
      BY <1>2 DEF Stages
    <3>2. /\ tx' = [at |-> "decided", file |-> f, place |-> claims[f].place,
                    sha |-> claims[f].sha, sweep |-> TRUE,
                    before |-> [rows |-> rows, claims |-> claims]]
          /\ tx' \in Transactions
      BY <2>1, <3>1, OpenInOrder
    <3>3. QED
      BY <3>2
  <2>2. CASE tx.at = "done"
              /\ tx' = [tx EXCEPT !.at = "decided", !.file = f,
                                  !.place = claims[f].place,
                                  !.sha = claims[f].sha]
    BY <1>2, <2>2 DEF FilesInv, FilesTypeOK, Transactions, Stages
  <2>3. QED
    BY <2>1, <2>2 DEF ApproveClaim
<1>4. FilesTypeOK'
  BY <1>1, <1>3 DEF FilesInv, FilesTypeOK
<1>5. Truthful(rows)' /\ Explained' /\ Coherent(rows, claims)'
  BY <1>1 DEF FilesInv, Truthful, Explained, Shown, Coherent
<1>6. UnderWay'
  BY <1>1, <1>2, <1>3 DEF UnderWay
<1>7. Returnable'
  BY <1>1, <1>3 DEF FilesInv, Returnable, Coherent, Truthful
<1>8. QED
  BY <1>4, <1>5, <1>6, <1>7 DEF FilesInv

LEMMA StepCloseClaim ==
  ASSUME FilesInv, NEW f \in Files, CloseClaim(f)
  PROVE  FilesInv'
<1>1. /\ tx.at = "none" /\ claims[f].status = "pending"
      /\ claims' = [claims EXCEPT ![f].status = "denied"]
      /\ UNCHANGED <<inbox, store, rows, tx, causes>>
  BY DEF CloseClaim
<1>2. claims' \in ClaimTable
  BY <1>1, ClaimType DEF FilesInv, FilesTypeOK, ClaimTable, NoClaim
<1>3. FilesTypeOK'
  BY <1>1, <1>2 DEF FilesInv, FilesTypeOK
<1>4. Coherent(rows, claims)'
  BY <1>1, ClaimType DEF FilesInv, FilesTypeOK, Coherent, ClaimTable, NoClaim
<1>5. Truthful(rows)' /\ Explained' /\ UnderWay' /\ Returnable'
  BY <1>1 DEF FilesInv, Truthful, Explained, Shown, UnderWay, Returnable
<1>6. QED
  BY <1>3, <1>4, <1>5 DEF FilesInv

LEMMA StepCompare ==
  ASSUME FilesInv, Compare
  PROVE  FilesInv'
<1>1. /\ tx.at = "decided" /\ UNCHANGED <<inbox, store, rows, causes>>
  BY DEF Compare
<1>2. /\ tx.file \in Files /\ tx.place \in Places /\ tx.sha \in Bytes
      /\ rows[tx.file] = NoRow /\ claims[tx.file].status = "pending"
      /\ claims[tx.file] # NoClaim /\ claims[tx.file].sha = tx.sha
  BY <1>1 DEF FilesInv, UnderWay
<1>3. Truthful(rows)' /\ Explained'
  BY <1>1 DEF FilesInv, Truthful, Explained, Shown
<1>4. PICK at \in {"hashed", "done"} : tx' = [tx EXCEPT !.at = at]
  BY DEF Compare, Goto
<1>5. tx' \in Transactions /\ tx'.before = tx.before /\ tx'.at = at
        /\ tx'.file = tx.file /\ tx'.place = tx.place /\ tx'.sha = tx.sha
  BY <1>4 DEF FilesInv, FilesTypeOK, Transactions, Stages
<1>6. Returnable'
  BY <1>1, <1>5 DEF FilesInv, Returnable, Coherent, Truthful
<1>7. CASE inbox[tx.place] = tx.sha
  <2>1. claims' = claims /\ tx' = [tx EXCEPT !.at = "hashed"]
    BY <1>7 DEF Compare, Goto
  <2>2. FilesTypeOK'
    BY <1>1, <1>5, <2>1 DEF FilesInv, FilesTypeOK
  <2>3. UnderWay'
    BY <1>1, <1>2, <1>5, <1>7, <2>1 DEF UnderWay
  <2>4. QED
    BY <1>1, <1>3, <1>6, <2>1, <2>2, <2>3 DEF FilesInv, Coherent
<1>8. CASE inbox[tx.place] # tx.sha
  <2>1. /\ tx' = [tx EXCEPT !.at = "done"]
        /\ claims' = [claims EXCEPT
                        ![tx.file].status = "application_failed"]
    BY <1>8 DEF Compare, Goto
  <2>2. claims' \in ClaimTable
    BY <1>2, <2>1, ClaimType DEF FilesInv, FilesTypeOK, ClaimTable, NoClaim
  <2>3. FilesTypeOK'
    BY <1>1, <1>5, <2>2 DEF FilesInv, FilesTypeOK
  <2>4. tx'.at = "done"
    BY <2>1 DEF FilesInv, FilesTypeOK, Transactions
  <2>5. UnderWay'
    BY <2>4 DEF UnderWay
  <2>6. Coherent(rows, claims)'
    BY <1>1, <1>2, <2>1, ClaimType
       DEF FilesInv, FilesTypeOK, Coherent, ClaimTable, NoClaim
  <2>7. QED
    BY <1>3, <1>6, <2>3, <2>5, <2>6 DEF FilesInv
<1>9. QED
  BY <1>7, <1>8

LEMMA StepRegisterInbox ==
  ASSUME FilesInv, NEW f \in Files, NEW p \in Places, RegisterInbox(f, p)
  PROVE  FilesInv'
<1>1. /\ tx.at = "none" /\ inbox[p] \in Bytes
      /\ claims[f] = NoClaim /\ rows[f] = NoRow
      /\ Open("hashed", f, p, inbox[p], FALSE)
      /\ UNCHANGED <<inbox, store, rows, claims, causes>>
  BY DEF RegisterInbox, FilesInv, FilesTypeOK
<1>2. /\ tx' = [at |-> "hashed", file |-> f, place |-> p, sha |-> inbox[p],
                sweep |-> FALSE,
                before |-> [rows |-> rows, claims |-> claims]]
      /\ tx' \in Transactions
  BY <1>1, OpenInOrder DEF Stages
<1>3. FilesTypeOK'
  BY <1>1, <1>2 DEF FilesInv, FilesTypeOK
<1>4. UnderWay'
  BY <1>1, <1>2 DEF UnderWay
<1>5. Returnable'
  BY <1>1, <1>2 DEF FilesInv, Returnable, Coherent, Truthful
<1>6. QED
  BY <1>1, <1>3, <1>4, <1>5
     DEF FilesInv, Coherent, Truthful, Explained, Shown

LEMMA StepMoveIn ==
  ASSUME FilesInv, MoveIn
  PROVE  FilesInv'
<1> DEFINE f == tx.file
<1>1. /\ tx.at = "hashed" /\ inbox[tx.place] # Null
      /\ store' = [store EXCEPT ![f] = inbox[tx.place]]
      /\ inbox' = [inbox EXCEPT ![tx.place] = Null]
      /\ rows' = [rows EXCEPT ![f] = [status |-> "registered",
                                     sha |-> tx.sha]]
      /\ claims' = Fulfilled(f)
      /\ tx' = [tx EXCEPT !.at = "done"] /\ causes' = causes
  BY DEF MoveIn, Registered, Goto
<1>2. /\ f \in Files /\ tx.place \in Places /\ tx.sha \in Bytes
      /\ rows[f] = NoRow
      /\ claims[f] = NoClaim
           \/ (claims[f].status = "pending" /\ claims[f].sha = tx.sha)
      /\ "swapped" \notin causes[f] => inbox[tx.place] = tx.sha
      /\ inbox[tx.place] \in Bytes
  BY <1>1 DEF FilesInv, FilesTypeOK, UnderWay
<1>3. /\ tx' \in Transactions /\ tx'.at = "done" /\ tx'.before = tx.before
  BY <1>1 DEF FilesInv, FilesTypeOK, Transactions, Stages
<1>4. /\ rows' \in RowTable
      /\ rows'[f] = [status |-> "registered", sha |-> tx.sha]
      /\ \A g \in Files \ {f} : rows'[g] = rows[g]
  BY <1>1, <1>2 DEF FilesInv, FilesTypeOK, RowTable
<1>5. /\ claims' \in ClaimTable
      /\ claims[f] = NoClaim => claims'[f] = NoClaim
      /\ claims[f] # NoClaim =>
           claims'[f].status = "applied" /\ claims'[f].sha = claims[f].sha
      /\ \A g \in Files \ {f} : claims'[g] = claims[g]
  BY <1>1, <1>2, ClaimType
     DEF FilesInv, FilesTypeOK, ClaimTable, NoClaim, Fulfilled
<1>6. /\ store' \in [Files -> Bytes \cup {Null}]
      /\ store'[f] = inbox[tx.place] /\ store'[f] # Null
      /\ \A g \in Files \ {f} : store'[g] = store[g]
  BY <1>1, <1>2 DEF FilesInv, FilesTypeOK
<1>7. FilesTypeOK'
  BY <1>1, <1>2, <1>3, <1>4, <1>5, <1>6 DEF FilesInv, FilesTypeOK
<1>8. Coherent(rows, claims)'
  <2>1. rows'[f] # NoRow /\ rows'[f].sha = tx.sha
    BY <1>4 DEF NoRow
  <2>2. ASSUME NEW g \in Files, claims'[g] # NoClaim
        PROVE  /\ (claims'[g].status = "applied") <=> (rows'[g] # NoRow)
               /\ rows'[g] # NoRow => rows'[g].sha = claims'[g].sha
    <3>1. CASE g = f
      BY <1>2, <1>5, <2>1, <2>2, <3>1
    <3>2. CASE g # f
      BY <1>4, <1>5, <2>2, <3>2 DEF FilesInv, Coherent
    <3>3. QED
      BY <3>1, <3>2
  <2>3. QED
    BY <2>2 DEF Coherent
<1>9. Truthful(rows)'
  BY <1>1, <1>2, <1>4, <1>6 DEF FilesInv, Truthful
<1>10. Explained'
  <2>1. ASSUME NEW g \in Files
        PROVE  /\ (Shown(g)' /\ store'[g] = Null) => "rolled back" \in causes'[g]
               /\ (~ Shown(g)' /\ store'[g] # Null) =>
                    causes'[g] \cap {"rolled back", "not unlinked"} # {}
    <3>1. CASE g = f
      <4>1. rows'[g].status = "registered"
        BY <1>4, <3>1
      <4>2. store'[g] # Null
        BY <1>6, <3>1
      <4>3. QED
        BY <4>1, <4>2 DEF Shown
    <3>2. CASE g # f
      <4>1. rows'[g] = rows[g] /\ store'[g] = store[g]
              /\ causes'[g] = causes[g]
        BY <1>1, <1>4, <1>6, <3>2
      <4>2. QED
        BY <4>1 DEF FilesInv, Explained, Shown
    <3>3. QED
      BY <3>1, <3>2
  <2>2. QED
    BY <2>1 DEF Explained
<1>11. UnderWay'
  BY <1>3 DEF UnderWay
<1>12. Returnable'
  <2>1. tx.before.rows[f] = NoRow
    BY <1>1, <1>2 DEF FilesInv, Returnable
  <2>2. tx.before.rows[f].status # "registered"
    BY <2>1 DEF NoRow
  <2>3. Truthful(tx.before.rows)'
    BY <1>1, <1>3, <1>6, <2>2 DEF FilesInv, Returnable, Truthful
  <2>4. \A g \in Files : tx.before.rows[g] # NoRow => rows'[g] # NoRow
    BY <1>1, <1>4, <2>1 DEF FilesInv, Returnable, NoRow
  <2>5. QED
    BY <1>1, <1>3, <2>3, <2>4 DEF FilesInv, Returnable, Coherent
<1>13. QED
  BY <1>7, <1>8, <1>9, <1>10, <1>11, <1>12 DEF FilesInv

LEMMA StepDeleteInbox ==
  ASSUME FilesInv, NEW p \in Places, DeleteInbox(p)
  PROVE  FilesInv'
<1>1. /\ tx.at = "none" /\ inbox' = [inbox EXCEPT ![p] = Null]
      /\ UNCHANGED <<store, rows, claims, tx, causes>>
  BY DEF DeleteInbox
<1>2. FilesTypeOK'
  BY <1>1 DEF FilesInv, FilesTypeOK
<1>3. QED
  BY <1>1, <1>2 DEF FilesInv, Coherent, Truthful, Explained, Shown, UnderWay,
                    Returnable

LEMMA StepDeleteFile ==
  ASSUME FilesInv, NEW f \in Files, DeleteFile(f)
  PROVE  FilesInv'
<1>1. /\ tx.at = "none" /\ rows[f].status = "registered"
      /\ Open("done", f, Null, Null, FALSE)
      /\ rows' = [rows EXCEPT ![f].status = "deleted"]
      /\ UNCHANGED <<inbox, claims>>
  BY DEF DeleteFile
<1>2. /\ tx' = [at |-> "done", file |-> f, place |-> Null, sha |-> Null,
                sweep |-> FALSE,
                before |-> [rows |-> rows, claims |-> claims]]
      /\ tx' \in Transactions
  BY <1>1, OpenInOrder DEF Stages
<1>3. rows[f] # NoRow /\ rows[f].sha \in Bytes
  BY <1>1, RowType DEF FilesInv, FilesTypeOK, NoRow
<1>4. /\ rows' \in RowTable
      /\ rows'[f].status = "deleted" /\ rows'[f] # NoRow
      /\ rows'[f].sha = rows[f].sha
      /\ \A g \in Files \ {f} : rows'[g] = rows[g]
  BY <1>1, <1>3 DEF FilesInv, FilesTypeOK, RowTable, NoRow
<1>5. /\ store' \in [Files -> Bytes \cup {Null}]
      /\ causes' \in [Files -> SUBSET Causes]
      /\ \A g \in Files : causes[g] \subseteq causes'[g]
      /\ store'[f] = Null
           \/ (store'[f] = store[f] /\ "not unlinked" \in causes'[f])
      /\ \A g \in Files \ {f} : store'[g] = store[g]
  BY DEF DeleteFile, Blame, Causes, FilesInv, FilesTypeOK
<1>6. FilesTypeOK'
  BY <1>1, <1>2, <1>4, <1>5 DEF FilesInv, FilesTypeOK
<1>7. Coherent(rows, claims)'
  BY <1>1, <1>3, <1>4 DEF FilesInv, Coherent
<1>8. Truthful(rows)'
  BY <1>4, <1>5 DEF FilesInv, Truthful
<1>9. Explained'
  BY <1>4, <1>5 DEF FilesInv, Explained, Shown
<1>10. UnderWay'
  BY <1>2 DEF UnderWay
<1>11. Returnable'
  <2>1. tx'.before.rows = rows /\ tx'.before.claims = claims
    BY <1>2
  <2>2. \A g \in Files : rows[g] # NoRow => rows'[g] # NoRow
    BY <1>4
  <2>3. \A g \in Files :
          (rows[g].status = "registered" /\ store'[g] # Null
             /\ "swapped" \notin causes'[g]) => store'[g] = rows[g].sha
    BY <1>5 DEF FilesInv, Truthful
  <2>4. QED
    BY <2>1, <2>2, <2>3 DEF FilesInv, Returnable, Coherent, Truthful
<1>12. QED
  BY <1>6, <1>7, <1>8, <1>9, <1>10, <1>11 DEF FilesInv

LEMMA StepCommitFiles ==
  ASSUME FilesInv, CommitFiles
  PROVE  FilesInv'
<1>1. tx' = Idle /\ UNCHANGED <<inbox, store, rows, claims, causes>>
  BY DEF CommitFiles
<1>2. Idle \in Transactions /\ Idle.at = "none"
  BY DEF Idle, NoTables, Transactions, Stages, RowTable, ClaimTable
<1>3. FilesTypeOK'
  BY <1>1, <1>2 DEF FilesInv, FilesTypeOK
<1>4. QED
  BY <1>1, <1>2, <1>3 DEF FilesInv, Coherent, Truthful, Explained, Shown,
                          UnderWay, Returnable

LEMMA StepAbortFiles ==
  ASSUME FilesInv, AbortFiles
  PROVE  FilesInv'
<1>1. /\ tx.at # "none"
      /\ rows' = tx.before.rows /\ claims' = tx.before.claims
      /\ tx' = Idle /\ UNCHANGED <<inbox, store>>
  BY DEF AbortFiles
<1>2. Idle \in Transactions /\ Idle.at = "none"
  BY DEF Idle, NoTables, Transactions, Stages, RowTable, ClaimTable
<1>3. rows' \in RowTable /\ claims' \in ClaimTable
  BY <1>1, BeforeTables DEF FilesInv
<1>4. /\ causes' \in [Files -> SUBSET Causes]
      /\ \A f \in Files : causes[f] \subseteq causes'[f]
      /\ \A f \in Files : rows[f] # rows'[f] => "rolled back" \in causes'[f]
  BY <1>1 DEF AbortFiles, Blame, Causes, FilesInv, FilesTypeOK
<1>5. FilesTypeOK'
  BY <1>1, <1>2, <1>3, <1>4 DEF FilesInv, FilesTypeOK
<1>6. Coherent(rows, claims)'
  BY <1>1 DEF FilesInv, Returnable, Coherent
<1>7. Truthful(rows)'
  BY <1>1, <1>4 DEF FilesInv, Returnable, Truthful
<1>8. Explained'
  BY <1>1, <1>4 DEF FilesInv, Explained, Shown
<1>9. UnderWay' /\ Returnable'
  BY <1>1, <1>2 DEF UnderWay, Returnable
<1>10. QED
  BY <1>5, <1>6, <1>7, <1>8, <1>9 DEF FilesInv

-----------------------------------------------------------------------------
LEMMA StepFilesInv == FilesInv /\ [FileStep]_fileVars => FilesInv'
<1> SUFFICES ASSUME FilesInv, [FileStep]_fileVars PROVE FilesInv'
  OBVIOUS
<1>1. CASE Compare \/ MoveIn \/ CommitFiles \/ AbortFiles
  BY <1>1, StepCompare, StepMoveIn, StepCommitFiles, StepAbortFiles
<1>2. ASSUME NEW f \in Files,
             ApproveClaim(f) \/ CloseClaim(f) \/ DeleteFile(f)
      PROVE  FilesInv'
  BY <1>2, StepApproveClaim, StepCloseClaim, StepDeleteFile
<1>3. ASSUME NEW p \in Places, DeleteInbox(p) PROVE FilesInv'
  BY <1>3, StepDeleteInbox
<1>4. ASSUME NEW p \in Places, NEW c \in Bytes, Drop(p, c) PROVE FilesInv'
  BY <1>4, StepDrop
<1>5. ASSUME NEW p \in Places, NEW f \in Files,
             RegisterFile(f, p) \/ RegisterInbox(f, p)
      PROVE  FilesInv'
  BY <1>5, StepRegisterFile, StepRegisterInbox
<1>6. CASE UNCHANGED fileVars
  BY <1>6 DEF fileVars, FilesInv, FilesTypeOK, Coherent, Truthful, Explained,
              Shown, UnderWay, Returnable
<1>7. QED
  BY <1>1, <1>2, <1>3, <1>4, <1>5, <1>6 DEF FileStep

\* Nobody is served bytes that were not reviewed, but for a write between the
\* comparison and the move (apply_register_file), with any number of drops,
\* retries, sweeps and rollbacks.
THEOREM ServedWasReviewed == SpecFiles => []ServedIsReviewed
<1>1. FilesInv => ServedIsReviewed
  <2> SUFFICES ASSUME FilesInv, NEW f \in Files, Served(f) # Null,
                      "swapped" \notin causes[f]
               PROVE  /\ Served(f) = rows[f].sha
                      /\ claims[f] = NoClaim \/ Served(f) = claims[f].sha
    BY DEF ServedIsReviewed
  <2>1. rows[f].status = "registered" /\ Served(f) = store[f]
    BY DEF Served, Shown
  <2>2. rows[f] # NoRow
    BY <2>1 DEF NoRow
  <2>3. QED
    BY <2>1, <2>2 DEF FilesInv, Truthful, Coherent
<1>2. QED
  BY <1>1, InitFilesInv, StepFilesInv, PTL DEF SpecFiles

\* What list_files shows as missing or orphaned has a cause that is not in the
\* ordinary course (delete_file, apply_register_file).
THEOREM DiskMatchesTable == SpecFiles => []DiskFollowsRows
<1>1. FilesInv => DiskFollowsRows
  BY DEF FilesInv, DiskFollowsRows, Explained, Coherent, Missing, StoreOrphans,
         Shown
<1>2. QED
  BY <1>1, InitFilesInv, StepFilesInv, PTL DEF SpecFiles

\* A copy of some bytes goes only with another left, or where the code means
\* it to go (remove_stored_file, delete_inbox_file, persist_registered_file).
LEMMA StepVanish ==
  ASSUME FilesInv, [FileStep]_fileVars, NEW c \in Bytes, Kept(c), ~ Kept(c)'
  PROVE  \/ UNCHANGED <<store, rows, claims, tx>>
         \/ \E f \in Files : store[f] = c /\ rows[f].status = "registered"
                              /\ rows'[f].status = "deleted"
         \/ \E f \in StoreOrphans : store[f] = c /\ store'[f] # Null
<1>1. ASSUME UNCHANGED <<inbox, store>> PROVE FALSE
  BY <1>1 DEF Kept
<1>2. CASE MoveIn
  <2>1. /\ tx.file \in Files /\ tx.place \in Places /\ rows[tx.file] = NoRow
        /\ inbox[tx.place] # Null
        /\ inbox' = [inbox EXCEPT ![tx.place] = Null]
        /\ store' = [store EXCEPT ![tx.file] = inbox[tx.place]]
    BY <1>2 DEF MoveIn, FilesInv, UnderWay
  <2>2. /\ inbox \in [Places -> Bytes \cup {Null}]
        /\ store \in [Files -> Bytes \cup {Null}] /\ c # Null
    BY FilesAssumption DEF FilesInv, FilesTypeOK
  <2>3. store'[tx.file] = inbox[tx.place]
    BY <2>1, <2>2
  <2>4. ASSUME NEW p \in Places, inbox[p] = c PROVE FALSE
    <3>1. CASE p = tx.place
      BY <2>1, <2>3, <2>4, <3>1 DEF Kept
    <3>2. CASE p # tx.place
      BY <2>1, <2>2, <2>4, <3>2 DEF Kept
    <3>3. QED
      BY <3>1, <3>2
  <2>5. PICK f \in Files : store[f] = c
    BY <2>4 DEF Kept
  <2>6. f = tx.file
    BY <2>1, <2>2, <2>5 DEF Kept
  <2>7. tx.file \in StoreOrphans
    BY <2>1, <2>2, <2>5, <2>6 DEF StoreOrphans, Shown, NoRow
  <2>8. QED
    BY <2>1, <2>3, <2>5, <2>6, <2>7
<1>3. CASE \E f \in Files : DeleteFile(f)
  <2>1. PICK f \in Files : DeleteFile(f)
    BY <1>3
  <2>2. /\ store \in [Files -> Bytes \cup {Null}] /\ rows \in RowTable
    BY DEF FilesInv, FilesTypeOK
  <2>3. /\ rows[f].status = "registered" /\ inbox' = inbox
        /\ rows' = [rows EXCEPT ![f].status = "deleted"]
        /\ store' = store \/ store' = [store EXCEPT ![f] = Null]
    BY <2>1 DEF DeleteFile
  <2>4. rows'[f].status = "deleted"
    BY <2>2, <2>3 DEF RowTable, NoRow
  <2>5. PICK g \in Files : store[g] = c /\ store'[g] # c
    BY <2>3 DEF Kept
  <2>6. g = f
    BY <2>2, <2>3, <2>5
  <2>7. QED
    BY <2>3, <2>4, <2>5, <2>6
<1>4. CASE \E p \in Places :
             DeleteInbox(p) \/ \E b \in Bytes : Drop(p, b)
  BY <1>4 DEF DeleteInbox, Drop
<1>5. CASE \/ Compare \/ CommitFiles \/ AbortFiles \/ UNCHANGED fileVars
           \/ \E f \in Files : ApproveClaim(f) \/ CloseClaim(f)
           \/ \E p \in Places, f \in Files :
                RegisterFile(f, p) \/ RegisterInbox(f, p)
  <2>1. UNCHANGED <<inbox, store>>
    BY <1>5 DEF Compare, CommitFiles, AbortFiles, ApproveClaim, CloseClaim,
                RegisterFile, RegisterInbox, fileVars
  <2>2. QED
    BY <1>1, <2>1
<1>6. QED
  BY <1>2, <1>3, <1>4, <1>5 DEF FileStep

\* The backend loses no bytes that were dropped, whatever is retried, rolled
\* back or swept (apply_register_file, delete_file).
THEOREM BytesKept == SpecFiles => NothingVanishes
<1> DEFINE Accounted == \A c \in Bytes : Kept(c) /\ ~Kept(c)' =>
      \/ UNCHANGED <<store, rows, claims, tx>>
      \/ \E f \in Files : store[f] = c /\ rows[f].status = "registered"
                           /\ rows'[f].status = "deleted"
      \/ \E f \in StoreOrphans : store[f] = c /\ store'[f] # Null
<1>1. FilesInv /\ [FileStep]_fileVars => [Accounted]_fileVars
  <2> SUFFICES ASSUME FilesInv, [FileStep]_fileVars PROVE Accounted
    OBVIOUS
  <2>1. QED
    BY StepVanish
<1>2. (InitFiles /\ [][FileStep]_fileVars) => [][Accounted]_fileVars
  <2> HIDE DEF Accounted
  <2>1. QED
    BY <1>1, InitFilesInv, StepFilesInv, PTL
<1>3. QED
  BY <1>2 DEF SpecFiles, NothingVanishes

-----------------------------------------------------------------------------
(***************************************************************************)
(* Lists.  What makes a walk complete is that a page is a beginning of the *)
(* rows that are left, and that the cursor is its end.                     *)
(***************************************************************************)

\* What was returned lies up to the cursor, and of the rows that stayed all up
\* to the cursor were returned.
Behind ==
  /\ \A i \in Ids : times[i] <= 1
  /\ walk # "over" =>
       /\ \A i \in Ids : i > cursor => times[i] = 0
       /\ \A i \in stayed \ skipped : i <= cursor => times[i] = 1
  /\ walk = "over" => \A i \in stayed \ skipped : times[i] = 1

PagingInv == PagingTypeOK /\ Behind

LessNat == {pair \in Nat \X Nat : pair[1] < pair[2]}

-----------------------------------------------------------------------------
\* Every inhabited set of naturals has a least member.
LEMMA LeastNat ==
  ASSUME NEW T, T \subseteq Nat, T # {}
  PROVE  \E x \in T : \A y \in T : x <= y
<1>1. IsWellFoundedOn(LessNat, Nat)
  BY NatLessThanWellFounded DEF OpToRel, LessNat
<1>2. PICK x \in T : \A y \in T : ~ (<<y, x>> \in LessNat)
  BY <1>1, WFMin
<1>3. ASSUME NEW y \in T PROVE x <= y
  <2>1. x \in Nat /\ y \in Nat
    OBVIOUS
  <2>2. y < x => <<y, x>> \in LessNat
    BY <2>1 DEF LessNat
  <2>3. QED
    BY <2>1, <2>2, <1>2
<1>4. QED
  BY <1>3

\* Every inhabited set of ids has a last member.
LEMMA LastId ==
  ASSUME NEW S, S \subseteq Ids, S # {}
  PROVE  LastOf(S) \in S /\ \A j \in S : j <= LastOf(S)
<1> DEFINE T == {MaxId - i : i \in S}
<1>1. MaxId \in Nat /\ \A i \in S : i \in Nat /\ i <= MaxId
  BY PagingAssumption DEF Ids
<1>2. T \subseteq Nat /\ T # {}
  BY <1>1
<1>3. PICK x \in T : \A y \in T : x <= y
  BY <1>2, LeastNat
<1>4. PICK i \in S : x = MaxId - i
  OBVIOUS
<1>5. \A j \in S : j <= i
  <2> TAKE j \in S
  <2>1. MaxId - i <= MaxId - j
    BY <1>3, <1>4
  <2>2. QED
    BY <1>1, <2>1
<1>6. QED
  BY <1>5 DEF LastOf

-----------------------------------------------------------------------------
LEMMA RestIsFinite ==
  ASSUME PagingTypeOK
  PROVE  /\ Rest \subseteq Ids /\ IsFiniteSet(Rest)
         /\ \A i \in Rest : i \in Nat /\ cursor < i
         /\ Page \subseteq Rest
<1>1. IsFiniteSet(1..MaxId)
  BY PagingAssumption, FS_Interval
<1>2. Rest \subseteq 1..MaxId
  BY DEF Rest, PagingTypeOK, Ids
<1>3. IsFiniteSet(Rest)
  BY <1>1, <1>2, FS_Subset
<1>4. \A i \in Rest : i \in Nat /\ cursor < i
  BY PagingAssumption DEF Rest, PagingTypeOK, Ids
<1>5. QED
  BY <1>2, <1>3, <1>4 DEF Ids, Page

\* A page is a beginning of what is left (the query's ORDER BY and LIMIT).
LEMMA PageIsInitial ==
  ASSUME PagingTypeOK, NEW i \in Page, NEW j \in Rest, j < i
  PROVE  j \in Page
<1>1. /\ Rest \subseteq Ids /\ IsFiniteSet(Rest) /\ i \in Rest
      /\ \A k \in Rest : k \in Nat
  BY RestIsFinite DEF Page
<1>2. Before(j) \subseteq Before(i) /\ Before(i) \subseteq Rest
  BY <1>1 DEF Before
<1>3. IsFiniteSet(Before(i))
  BY <1>1, <1>2, FS_Subset
<1>4. /\ Cardinality(Before(j)) \in Nat /\ Cardinality(Before(i)) \in Nat
      /\ Cardinality(Before(j)) <= Cardinality(Before(i))
  <2>1. IsFiniteSet(Before(j)) /\ Cardinality(Before(j)) <= Cardinality(Before(i))
    BY <1>2, <1>3, FS_Subset
  <2>2. QED
    BY <1>3, <2>1, FS_CardinalityType
<1>5. Cardinality(Before(i)) <= Limit
  BY DEF Page
<1>6. Cardinality(Before(j)) <= Limit
  BY <1>4, <1>5, PagingAssumption
<1>7. QED
  BY <1>6 DEF Page

\* If anything is left, the page has a row.
LEMMA PageInhabited ==
  ASSUME PagingTypeOK, Rest # {}
  PROVE  Page # {}
<1>1. Rest \subseteq Ids /\ \A k \in Rest : k \in Nat
  BY RestIsFinite
<1>2. PICK i \in Rest : \A j \in Rest : i <= j
  BY <1>1, LeastNat
<1>3. Before(i) = {i}
  BY <1>1, <1>2 DEF Before
<1>4. Cardinality(Before(i)) = 1
  BY <1>3, FS_Singleton
<1>5. i \in Page
  BY <1>4, PagingAssumption DEF Page
<1>6. QED
  BY <1>5

\* The last row of a page is a cursor that divides it from the rest.
LEMMA LastDivides ==
  ASSUME PagingTypeOK, HasMore
  PROVE  /\ LastOf(Page) \in Ids /\ cursor < LastOf(Page)
         /\ \A i \in Rest : i \in Page <=> i <= LastOf(Page)
<1>1. /\ Page \subseteq Rest /\ Rest \subseteq Ids
      /\ \A k \in Rest : k \in Nat /\ cursor < k
  BY RestIsFinite
<1>2. Page # {}
  BY <1>1, PageInhabited DEF HasMore
<1>3. LastOf(Page) \in Page /\ \A j \in Page : j <= LastOf(Page)
  BY <1>1, <1>2, LastId
<1>4. ASSUME NEW i \in Rest, i <= LastOf(Page) PROVE i \in Page
  <2>1. i = LastOf(Page) \/ i < LastOf(Page)
    BY <1>1, <1>3, <1>4
  <2>2. QED
    BY <1>3, <2>1, PageIsInitial
<1>5. QED
  BY <1>1, <1>3, <1>4

\* So is the row after it, but that one is left out.
LEMMA LookAheadDivides ==
  ASSUME PagingTypeOK, HasMore
  PROVE  /\ LookAhead \in Ids /\ LookAhead \notin Page /\ cursor < LookAhead
         /\ \A i \in Rest : i \in Page <=> i < LookAhead
<1>1. /\ Page \subseteq Rest /\ Rest \subseteq Ids
      /\ \A k \in Rest : k \in Nat /\ cursor < k
  BY RestIsFinite
<1>2. Rest \ Page # {} /\ Rest \ Page \subseteq Nat
  BY <1>1 DEF HasMore
<1>3. \E i \in Rest \ Page : \A j \in Rest \ Page : i <= j
  BY <1>2, LeastNat
<1>4. LookAhead \in Rest \ Page /\ \A j \in Rest \ Page : LookAhead <= j
  BY <1>3 DEF LookAhead
<1>5. ASSUME NEW i \in Page PROVE i < LookAhead
  <2>1. i # LookAhead /\ ~ LookAhead < i
    BY <1>1, <1>4, PageIsInitial
  <2>2. QED
    BY <1>1, <1>4, <2>1
<1>6. QED
  BY <1>1, <1>4, <1>5

-----------------------------------------------------------------------------
\* Nobody has seen a row of the page yet.
LEMMA PageIsNew ==
  ASSUME PagingInv, walk # "over"
  PROVE  \A i \in Page : i \in Ids /\ times[i] = 0
BY RestIsFinite DEF PagingInv, Behind

LEMMA ReturnOnce ==
  ASSUME PagingInv, walk # "over", Return
  PROVE  /\ times' \in [Ids -> Nat] /\ \A i \in Ids : times'[i] <= 1
         /\ \A i \in Page : times'[i] = 1
         /\ \A i \in Ids \ Page : times'[i] = times[i]
BY PageIsNew, RestIsFinite DEF PagingInv, PagingTypeOK, Behind, Return

\* Every row that stayed and is behind the cursor had its turn.
LEMMA StayedSeen ==
  ASSUME PagingInv, walk # "over", NEW i \in stayed \ skipped
  PROVE  i \in Ids /\ (times[i] = 1 \/ i \in Rest)
<1>1. i \in matching /\ i \in Ids /\ i \in Int /\ cursor \in Int
  BY DEF PagingInv, PagingTypeOK, Ids
<1>2. i <= cursor => times[i] = 1
  BY DEF PagingInv, Behind
<1>3. i > cursor => i \in Rest
  BY <1>1 DEF Rest
<1>4. QED
  BY <1>1, <1>2, <1>3

LEMMA LastFetch ==
  ASSUME PagingInv, walk # "over", Return, ~ HasMore, walk' = "over",
         UNCHANGED <<matching, stayed, skipped, cursor>>
  PROVE  PagingInv'
<1>1. PagingTypeOK'
  BY ReturnOnce DEF PagingInv, PagingTypeOK
<1>2. ASSUME NEW i \in stayed \ skipped PROVE times'[i] = 1
  BY StayedSeen, ReturnOnce DEF HasMore
<1>3. QED
  BY <1>1, <1>2, ReturnOnce DEF PagingInv, Behind

LEMMA StepFetchPage ==
  ASSUME PagingInv, FetchPage
  PROVE  PagingInv'
<1>1. walk = "agent" /\ Return /\ UNCHANGED <<matching, stayed, skipped>>
  BY DEF FetchPage
<1>2. CASE ~ HasMore
  BY <1>1, <1>2, LastFetch DEF FetchPage
<1>3. CASE HasMore
  <2>1. cursor' = LastOf(Page) /\ walk' = walk
    BY <1>3 DEF FetchPage
  <2>2. /\ cursor' \in Ids /\ cursor' \in Int /\ cursor \in Int /\ cursor < cursor'
        /\ \A i \in Rest : i \in Page <=> i <= cursor'
    BY <1>3, <2>1, LastDivides DEF PagingInv, PagingTypeOK, Ids
  <2>3. PagingTypeOK'
    BY <1>1, <2>1, <2>2, ReturnOnce DEF PagingInv, PagingTypeOK, Ids
  <2>4. ASSUME NEW i \in Ids, i > cursor' PROVE times'[i] = 0
    <3>1. i \notin Page /\ i > cursor
      BY <2>2, <2>4, RestIsFinite DEF PagingInv, Ids
    <3>2. QED
      BY <1>1, <3>1, ReturnOnce DEF PagingInv, Behind
  <2>5. ASSUME NEW i \in stayed \ skipped, i <= cursor' PROVE times'[i] = 1
    BY <1>1, <2>2, <2>5, StayedSeen, ReturnOnce
  <2>6. QED
    BY <1>1, <2>1, <2>3, <2>4, <2>5, ReturnOnce DEF PagingInv, Behind
<1>4. QED
  BY <1>2, <1>3

LEMMA StepFetchAdminPage ==
  ASSUME PagingInv, FetchAdminPage
  PROVE  PagingInv'
<1>1. walk = "admin" /\ Return /\ UNCHANGED <<matching, stayed>>
  BY DEF FetchAdminPage
<1>2. CASE ~ HasMore
  BY <1>1, <1>2, LastFetch DEF FetchAdminPage
<1>3. CASE HasMore
  <2>1. /\ cursor' = LookAhead /\ walk' = walk
        /\ skipped' = skipped \cup {LookAhead}
    BY <1>3 DEF FetchAdminPage
  <2>2. /\ cursor' \in Ids /\ cursor' \in Int /\ cursor \in Int /\ cursor < cursor'
        /\ \A i \in Rest : i \in Page <=> i < cursor'
    BY <1>3, <2>1, LookAheadDivides DEF PagingInv, PagingTypeOK, Ids
  <2>3. PagingTypeOK'
    BY <1>1, <2>1, <2>2, ReturnOnce DEF PagingInv, PagingTypeOK, Ids
  <2>4. ASSUME NEW i \in Ids, i > cursor' PROVE times'[i] = 0
    <3>1. i \notin Page /\ i > cursor
      BY <2>2, <2>4, RestIsFinite DEF PagingInv, Ids
    <3>2. QED
      BY <1>1, <3>1, ReturnOnce DEF PagingInv, Behind
  <2>5. ASSUME NEW i \in stayed \ skipped', i <= cursor' PROVE times'[i] = 1
    <3>1. i \in stayed \ skipped /\ i # cursor' /\ i \in Ids
            /\ (times[i] = 1 \/ i \in Rest)
      BY <1>1, <2>1, <2>5, StayedSeen
    <3>2. i < cursor'
      BY <2>2, <2>5, <3>1 DEF Ids
    <3>3. QED
      BY <1>1, <2>2, <3>1, <3>2, ReturnOnce
  <2>6. QED
    BY <1>1, <2>1, <2>3, <2>4, <2>5, ReturnOnce DEF PagingInv, Behind
<1>4. QED
  BY <1>2, <1>3

LEMMA InitPagingInv == InitPaging => PagingInv
BY DEF InitPaging, PagingInv, PagingTypeOK, Behind, Ids

LEMMA StepPagingInv == PagingInv /\ [PagingStep]_pagingVars => PagingInv'
<1> SUFFICES ASSUME PagingInv, [PagingStep]_pagingVars PROVE PagingInv'
  OBVIOUS
<1>1. CASE FetchPage
  BY <1>1, StepFetchPage
<1>2. CASE FetchAdminPage
  BY <1>2, StepFetchAdminPage
<1>3. ASSUME NEW i \in Ids, Qualify(i) PROVE PagingInv'
  BY <1>3 DEF Qualify, PagingInv, PagingTypeOK, Behind
<1>4. ASSUME NEW i \in Ids, Leave(i) PROVE PagingInv'
  BY <1>4 DEF Leave, PagingInv, PagingTypeOK, Behind
<1>5. CASE UNCHANGED pagingVars
  BY <1>5 DEF pagingVars, PagingInv, PagingTypeOK, Behind
<1>6. QED
  BY <1>1, <1>2, <1>3, <1>4, <1>5 DEF PagingStep

\* No walk returns a row twice or leaves out one that stays, whatever rows come
\* and go between its pages (_page_slice); the administrator's lists leave out
\* rows at page boundaries only.
THEOREM WalkIsComplete == SpecPaging => []PagedOnce
<1>1. PagingInv => PagedOnce
  BY DEF PagingInv, Behind, PagedOnce
<1>2. QED
  BY <1>1, InitPagingInv, StepPagingInv, PTL DEF SpecPaging

-----------------------------------------------------------------------------
(***************************************************************************)
(* Edits of modules.  Versions only grow, and a proposal's document is     *)
(* made of what was written before it came.                                *)
(***************************************************************************)
ModuleRow == [live : BOOLEAN, version : Nat, doc : Docs]
Proposal ==
  [status : {"none", "pending", "denied", "applied", "application_failed"},
   kind : {"update", "delete", Nothing}, module : Modules \cup {Nothing},
   field : Fields \cup {Nothing}, page : Pages \cup {Nothing},
   doc : Docs \cup {Nothing}, base : Nat, ruled : BOOLEAN]

\* What a read once answered is no newer than the row, and the same as it if
\* it has the row's version.
Dated(h) ==
  /\ h.module \in Modules /\ h.version \in Nat /\ h.doc \in Docs
  /\ h.version <= modules[h.module].version
  /\ h.version = modules[h.module].version =>
       h.doc = Doc(h.module) \/ h.module \in torn

\* Nothing was written under a number that was not given out yet.
Numbered(m) ==
  /\ modules[m] \in ModuleRow
  /\ \A f \in Fields : modules[m].doc[f] <= stamp

\* A proposal's document has a new entry for its field, and otherwise what was
\* there when it came.
Based(a, n) ==
  /\ a \in Proposal
  /\ a.kind = "update" =>
       /\ a.module \in Modules /\ a.field \in Fields
       /\ a.base <= n /\ a.doc \in Docs /\ a.doc[a.field] <= n
       /\ \A g \in Fields : g # a.field => a.doc[g] <= a.base
  /\ a.kind = "delete" => a.module \in Modules

EditsInv ==
  /\ modules \in [Modules -> ModuleRow] /\ stamp \in 0..MaxStamp
  /\ \A m \in Modules : Numbered(m)
  /\ \A h \in history : Dated(h)
  /\ \A r \in Proposals : Based(proposals[r], stamp)
  /\ VersionIdentifiesState /\ NoBlindOverwrite

-----------------------------------------------------------------------------
\* A commit of rows with newer versions keeps every read what it was.
LEMMA SaveKeeps ==
  ASSUME EditsInv, NEW news, Save(news), DOMAIN news \subseteq Modules,
         \A m \in DOMAIN news :
           /\ news[m] \in ModuleRow
           /\ news[m].version > modules[m].version
                \/ (m \in torn' /\ news[m].version = modules[m].version),
         torn \subseteq torn'
  PROVE  /\ modules' \in [Modules -> ModuleRow]
         /\ \A h \in history' : Dated(h)'
         /\ VersionIdentifiesState'
<1>1. /\ modules \in [Modules -> ModuleRow]
      /\ modules' = [m \in Modules |-> IF m \in DOMAIN news THEN news[m]
                                       ELSE modules[m]]
      /\ history' = history \cup
           {Snapshot(m, news[m]) : m \in {n \in DOMAIN news : news[n].live}}
  BY DEF EditsInv, Save
<1>2. modules' \in [Modules -> ModuleRow]
  BY <1>1
<1>3. ASSUME NEW h \in history
      PROVE  /\ Dated(h)'
             /\ h.module \in DOMAIN news =>
                  h.version < news[h.module].version \/ h.module \in torn'
  <2>1. Dated(h) /\ modules[h.module] \in ModuleRow
    BY <1>1 DEF EditsInv, Dated
  <2>2. CASE h.module \notin DOMAIN news
    <3>1. modules'[h.module] = modules[h.module]
      BY <1>1, <2>1, <2>2 DEF Dated
    <3>2. QED
      BY <2>1, <2>2, <3>1 DEF Dated, Doc
  <2>3. CASE h.module \in DOMAIN news
    <3>1. modules'[h.module] = news[h.module]
      BY <1>1, <2>1, <2>3 DEF Dated
    <3>2. /\ modules[h.module].version \in Nat
          /\ news[h.module].version \in Nat /\ h.version \in Nat
      BY <2>1, <2>3 DEF ModuleRow, Dated
    <3>3. QED
      BY <2>1, <2>3, <3>1, <3>2 DEF Dated, Doc
  <2>4. QED
    BY <2>2, <2>3
<1>4. ASSUME NEW h \in history' \ history
      PROVE  /\ h.module \in DOMAIN news /\ h.version = news[h.module].version
             /\ h.doc = news[h.module].doc
  BY <1>1 DEF Snapshot
<1>5. ASSUME NEW h \in history' \ history PROVE Dated(h)'
  <2>1. /\ modules'[h.module] = news[h.module] /\ news[h.module] \in ModuleRow
        /\ h.module \in Modules
    BY <1>1, <1>4
  <2>2. QED
    BY <1>4, <2>1 DEF Dated, Doc, ModuleRow
<1>6. ASSUME NEW g \in history', NEW h \in history',
             g.module = h.module, g.version = h.version
      PROVE  g.doc = h.doc \/ g.module \in torn'
  <2>1. CASE g \in history /\ h \in history
    BY <1>6, <2>1 DEF EditsInv, VersionIdentifiesState
  <2>2. CASE g \notin history /\ h \notin history
    BY <1>4, <1>6, <2>2
  <2>3. ASSUME NEW x \in history, NEW y \in history' \ history,
               x.module = y.module, x.version = y.version
        PROVE  x.module \in torn'
    <3>1. /\ y.module \in DOMAIN news /\ y.version = news[y.module].version
          /\ news[y.module].version \in Nat
      BY <1>4 DEF ModuleRow
    <3>2. QED
      BY <1>3, <2>3, <3>1
  <2>4. QED
    BY <1>6, <2>1, <2>2, <2>3
<1>7. QED
  BY <1>2, <1>3, <1>5, <1>6 DEF VersionIdentifiesState

LEMMA StartOfEdits ==
  ASSUME InitEdits PROVE EditsInv
<1>1. MaxStamp \in Nat /\ 0 \in 0..MaxStamp
  BY EditsAssumption
<1>2. NoModule \in ModuleRow
  BY <1>1 DEF NoModule, ModuleRow, Docs
<1>3. modules \in [Modules -> ModuleRow] /\ \A m \in Modules : Numbered(m)
  <2>1. \A f \in Fields : NoModule.doc[f] = 0
    BY DEF NoModule
  <2>2. modules = [m \in Modules |-> NoModule] /\ stamp = 0
    BY DEF InitEdits
  <2>3. \A m \in Modules : modules[m] = NoModule
    BY <2>2
  <2>4. QED
    BY <1>2, <2>1, <2>2, <2>3 DEF Numbered
<1>4. Based(NoProposal, stamp)
  <2>1. NoProposal \in Proposal
    BY DEF NoProposal, Proposal
  <2>2. NoProposal.kind = Nothing
    BY DEF NoProposal
  <2>3. Nothing # "update" /\ Nothing # "delete"
    BY EditsAssumption
  <2>4. QED
    BY <2>1, <2>2, <2>3 DEF Based
<1>5. QED
  BY <1>1, <1>3, <1>4 DEF InitEdits, EditsInv, VersionIdentifiesState,
     NoBlindOverwrite, NoWrite

\* What else a step has to do, besides committing newer rows.
LEMMA RestKeeps ==
  ASSUME EditsInv, stamp' \in 0..MaxStamp, stamp <= stamp',
         modules' \in [Modules -> ModuleRow],
         \A m \in Modules, f \in Fields : modules'[m].doc[f] <= stamp',
         \A h \in history' : Dated(h)', VersionIdentifiesState',
         \A r \in Proposals : Based(proposals'[r], stamp'),
         NoBlindOverwrite'
  PROVE  EditsInv'
BY DEF EditsInv, Numbered, Based, Proposal

LEMMA BasedGrows ==
  ASSUME EditsInv, stamp' \in 0..MaxStamp, stamp <= stamp',
         NEW q \in Proposals
  PROVE  Based(proposals[q], stamp')
<1>1. Based(proposals[q], stamp) /\ stamp \in Nat /\ stamp' \in Nat
  BY EditsAssumption DEF EditsInv
<1>2. proposals[q].kind = "update" =>
        /\ proposals[q].base \in Nat
        /\ proposals[q].doc[proposals[q].field] \in Nat
  BY <1>1, EditsAssumption DEF Based, Proposal, Docs
<1>3. QED
  BY <1>1, <1>2 DEF Based

\* A proposal stays as it was, or is settled, or is new.
LEMMA PutKeeps ==
  ASSUME EditsInv, stamp' \in 0..MaxStamp, stamp <= stamp',
         NEW r \in Proposals, NEW a, Based(a, stamp'),
         NEW status \in {"none", "pending", "denied", "applied",
                         "application_failed"},
         Put(r, Settled(a, status))
  PROVE  \A q \in Proposals : Based(proposals'[q], stamp')
<1>1. Based(Settled(a, status), stamp')
  <2>1. a \in Proposal
    BY DEF Based
  <2>2. /\ Settled(a, status) \in Proposal
        /\ Settled(a, status).kind = a.kind /\ Settled(a, status).doc = a.doc
        /\ Settled(a, status).module = a.module
        /\ Settled(a, status).field = a.field
        /\ Settled(a, status).base = a.base
    BY <2>1 DEF Settled, Proposal
  <2>3. QED
    BY <2>2 DEF Based
<1>2. QED
  BY <1>1, BasedGrows DEF Put

\* Some modules are committed, newer or torn, with entries that were given
\* out.
LEMMA SaveRows ==
  ASSUME EditsInv, NEW news, Save(news), DOMAIN news \subseteq Modules,
         stamp' \in 0..MaxStamp, stamp <= stamp', torn \subseteq torn',
         \A m \in DOMAIN news :
           /\ news[m] \in ModuleRow
           /\ \A f \in Fields : news[m].doc[f] <= stamp'
           /\ news[m].version > modules[m].version
                \/ (m \in torn' /\ news[m].version = modules[m].version),
         \A q \in Proposals : Based(proposals'[q], stamp'),
         NoBlindOverwrite'
  PROVE  EditsInv'
<1>1. /\ modules' \in [Modules -> ModuleRow]
      /\ \A h \in history' : Dated(h)'
  BY SaveKeeps
<1>2. VersionIdentifiesState'
  BY SaveKeeps
<1>3. ASSUME NEW n \in Modules, NEW f \in Fields
      PROVE  modules'[n].doc[f] <= stamp'
  <2>1. modules'[n] = IF n \in DOMAIN news THEN news[n] ELSE modules[n]
    BY DEF Save
  <2>2. /\ modules[n].doc[f] <= stamp /\ modules[n].doc[f] \in Nat
        /\ stamp \in Nat /\ stamp' \in Nat
    BY EditsAssumption DEF EditsInv, Numbered, ModuleRow, Docs
  <2>3. QED
    BY <2>1, <2>2
<1>4. QED
  BY <1>1, <1>2, <1>3, RestKeeps

\* The same for one module, and for modules that are deleted.
LEMMA BumpKeeps ==
  ASSUME EditsInv, NEW m \in Modules, NEW doc \in Docs, Save(Bumped(m, doc)),
         stamp' \in 0..MaxStamp, stamp <= stamp', UNCHANGED torn,
         \A f \in Fields : doc[f] <= stamp',
         \A q \in Proposals : Based(proposals'[q], stamp'),
         NoBlindOverwrite'
  PROVE  EditsInv'
<1> DEFINE news == Bumped(m, doc)
<1>1. modules[m].version \in Nat
  BY DEF EditsInv, ModuleRow
<1>2. /\ DOMAIN news = {m} /\ news[m] \in ModuleRow
      /\ news[m].doc = doc /\ news[m].version > modules[m].version
  BY <1>1 DEF Bumped, Row, ModuleRow
<1> HIDE DEF news
<1>3. QED
  BY <1>2, SaveRows DEF news

LEMMA GoneKeeps ==
  ASSUME EditsInv, NEW ms, ms \subseteq Modules, Save(Gone(ms)),
         UNCHANGED <<stamp, torn>>,
         \A q \in Proposals : Based(proposals'[q], stamp'),
         NoBlindOverwrite'
  PROVE  EditsInv'
<1> DEFINE news == Gone(ms)
<1>1. ASSUME NEW m \in ms
      PROVE  /\ news[m] \in ModuleRow /\ news[m].version > modules[m].version
             /\ \A f \in Fields : news[m].doc[f] <= stamp
  BY DEF EditsInv, ModuleRow, Gone, Row, Doc, Numbered
<1>2. DOMAIN news = ms
  BY DEF Gone
<1>3. stamp \in 0..MaxStamp /\ stamp <= stamp
  BY EditsAssumption DEF EditsInv
<1> HIDE DEF news
<1>4. QED
  BY <1>1, <1>2, <1>3, SaveRows DEF news

\* A merge writes one new entry.
LEMMA MergedDoc ==
  ASSUME EditsInv, NEW m \in Modules, NEW f \in Fields, Stamped
  PROVE  /\ stamp' = stamp + 1 /\ stamp' \in 0..MaxStamp /\ stamp <= stamp'
         /\ Merged(Doc(m), f) \in Docs
         /\ Merged(Doc(m), f)[f] = stamp'
         /\ \A g \in Fields : g # f => Merged(Doc(m), f)[g] = Doc(m)[g]
         /\ \A g \in Fields : Merged(Doc(m), f)[g] <= stamp'
<1>1. /\ stamp' = stamp + 1 /\ stamp \in Nat /\ stamp' \in 0..MaxStamp
      /\ stamp <= stamp'
  BY EditsAssumption DEF EditsInv, Stamped, NewStamp
<1>2. Doc(m) \in Docs /\ \A g \in Fields : Doc(m)[g] <= stamp
  BY DEF EditsInv, ModuleRow, Doc, Numbered
<1>3. /\ Merged(Doc(m), f) \in Docs /\ Merged(Doc(m), f)[f] = stamp'
      /\ \A g \in Fields : g # f => Merged(Doc(m), f)[g] = Doc(m)[g]
  BY <1>1, <1>2 DEF Merged, NewStamp, Docs
<1>4. \A g \in Fields : Merged(Doc(m), f)[g] <= stamp'
  BY <1>1, <1>2, <1>3, EditsAssumption DEF Docs
<1>5. QED
  BY <1>1, <1>3, <1>4

\* An ETag that is the module's stands for the document, or the module is
\* torn.
LEMMA FreshSaw ==
  ASSUME EditsInv, NEW m \in Modules, NEW h \in Reads(m) \cup {Nothing},
         Fresh(m, h), Saw(h) # Nothing
  PROVE  Saw(h) = Doc(m) \/ m \in torn
BY DEF EditsInv, Reads, Fresh, Saw, Dated

LEMMA WroteSeen ==
  ASSUME NEW how, NEW m, NEW fs, NEW base, NEW saw,
         Wrote(how, m, fs, base, saw), torn \subseteq torn',
         saw # Nothing => saw = Doc(m) \/ m \in torn
  PROVE  NoBlindOverwrite'
BY DEF Wrote, NoBlindOverwrite

LEMMA NoWriteSeen ==
  ASSUME wrote' = NoWrite PROVE NoBlindOverwrite'
BY DEF NoWrite, NoBlindOverwrite

-----------------------------------------------------------------------------
(***************************************************************************)
(* The administrator's writes.                                             *)
(***************************************************************************)
LEMMA CreateModuleKeeps ==
  ASSUME EditsInv, NEW m \in Modules, CreateModule(m)
  PROVE  EditsInv'
<1> DEFINE news == [n \in {m} |-> Row(TRUE, 1, [f \in Fields |-> NewStamp])]
<1>1. /\ stamp' = stamp + 1 /\ stamp' \in 0..MaxStamp /\ stamp <= stamp'
      /\ NewStamp = stamp' /\ stamp' <= stamp'
  BY EditsAssumption DEF EditsInv, CreateModule, Stamped, NewStamp
<1>2. /\ DOMAIN news = {m} /\ news[m] \in ModuleRow /\ news[m].version = 1
      /\ \A f \in Fields : news[m].doc[f] = stamp'
  BY <1>1 DEF Row, ModuleRow, Docs
<1>3. modules[m].version = 0
  BY DEF CreateModule, NoModule
<1>4. Save(news) /\ wrote' = NoWrite /\ UNCHANGED <<proposals, torn>>
  BY DEF CreateModule
<1> HIDE DEF news
<1>5. \A q \in Proposals : Based(proposals'[q], stamp')
  BY <1>1, <1>4, BasedGrows
<1>6. QED
  BY <1>1, <1>2, <1>3, <1>4, <1>5, NoWriteSeen, SaveRows

LEMMA PatchModuleKeeps ==
  ASSUME EditsInv, NEW m \in Modules, NEW f \in Fields,
         NEW h \in Reads(m) \cup {Nothing}, PatchModule(m, f, h)
  PROVE  EditsInv'
<1>1. /\ Fresh(m, h) /\ Stamped /\ Save(Bumped(m, Merged(Doc(m), f)))
      /\ Wrote("patch", m, {f}, stamp, Saw(h))
      /\ UNCHANGED <<proposals, torn>>
  BY DEF PatchModule
<1>2. NoBlindOverwrite'
  BY <1>1, FreshSaw, WroteSeen
<1>3. \A q \in Proposals : Based(proposals'[q], stamp')
  BY <1>1, MergedDoc, BasedGrows
<1>4. QED
  BY <1>1, <1>2, <1>3, MergedDoc, BumpKeeps

LEMMA AppendLogKeeps ==
  ASSUME EditsInv, NEW m \in Modules, NEW f \in Fields, AppendLog(m, f)
  PROVE  EditsInv'
<1>1. /\ Stamped /\ Save(Bumped(m, Merged(Doc(m), f)))
      /\ Wrote("append", m, {f}, stamp, Nothing)
      /\ UNCHANGED <<proposals, torn>>
  BY DEF AppendLog
<1>2. NoBlindOverwrite'
  BY <1>1, WroteSeen
<1>3. \A q \in Proposals : Based(proposals'[q], stamp')
  BY <1>1, MergedDoc, BasedGrows
<1>4. QED
  BY <1>1, <1>2, <1>3, MergedDoc, BumpKeeps

LEMMA ReorderModulesKeeps ==
  ASSUME EditsInv, NEW ms \in SUBSET Modules, ReorderModules(ms)
  PROVE  EditsInv'
<1> DEFINE news == [m \in ms |-> Row(TRUE, modules[m].version + 1,
                                     [Doc(m) EXCEPT ![position] = NewStamp])]
<1>1. /\ Stamped /\ Save(news) /\ UNCHANGED <<proposals, torn>>
      /\ wrote'.saw = Nothing
  BY DEF ReorderModules, NoWrite
<1>2. position \in Fields
  BY EditsAssumption DEF Fields
<1>3. ASSUME NEW m \in ms
      PROVE  /\ stamp' \in 0..MaxStamp /\ stamp <= stamp'
             /\ news[m] \in ModuleRow /\ news[m].version > modules[m].version
             /\ \A f \in Fields : news[m].doc[f] <= stamp'
  <2>1. modules[m].version \in Nat
    BY DEF EditsInv, ModuleRow
  <2>2. /\ stamp' \in 0..MaxStamp /\ stamp <= stamp'
        /\ Merged(Doc(m), position) \in Docs
        /\ \A g \in Fields : Merged(Doc(m), position)[g] <= stamp'
    BY <1>1, <1>2, MergedDoc
  <2>3. PICK doc \in Docs : doc = Merged(Doc(m), position)
    BY <2>2
  <2>4. PICK row : row = news[m] /\ row = Row(TRUE, modules[m].version + 1, doc)
    BY <2>3 DEF Merged
  <2> HIDE DEF news
  <2>5. /\ row \in ModuleRow /\ row.doc = doc
        /\ row.version > modules[m].version
    BY <2>1, <2>4 DEF Row, ModuleRow
  <2>6. QED
    BY <2>2, <2>3, <2>4, <2>5
<1>4. DOMAIN news = ms
  OBVIOUS
<1>5. stamp' \in 0..MaxStamp /\ stamp <= stamp'
  BY <1>1, EditsAssumption DEF EditsInv, Stamped, NewStamp
<1> HIDE DEF news
<1>6. \A q \in Proposals : Based(proposals'[q], stamp')
  BY <1>1, <1>5, BasedGrows
<1>7. NoBlindOverwrite'
  BY <1>1 DEF NoBlindOverwrite
<1>8. QED
  BY <1>1, <1>3, <1>4, <1>5, <1>6, <1>7, SaveRows

LEMMA DeletesKeep ==
  ASSUME EditsInv, NEW ms \in SUBSET Modules,
         DeleteModules(ms) \/ \E p \in Pages : DeletePage(p, ms)
  PROVE  EditsInv'
<1>1. /\ Save(Gone(ms)) /\ wrote' = NoWrite
      /\ UNCHANGED <<proposals, stamp, torn>>
  BY DEF DeleteModules, DeletePage
<1>2. \A q \in Proposals : Based(proposals'[q], stamp')
  BY <1>1 DEF EditsInv
<1>3. QED
  BY <1>1, <1>2, NoWriteSeen, GoneKeeps

-----------------------------------------------------------------------------
(***************************************************************************)
(* Proposals.                                                              *)
(***************************************************************************)
LEMMA ApplyUpdateKeeps ==
  ASSUME EditsInv, stamp' \in 0..MaxStamp, stamp <= stamp',
         NEW r \in Proposals, NEW a, Based(a, stamp'), a.kind = "update",
         NEW how, NEW saw, ApplyUpdate(r, a, how, saw),
         saw # Nothing => saw = Doc(a.module) \/ a.module \in torn
  PROVE  EditsInv'
<1> DEFINE m == a.module
           doc == Patched(Doc(m), a)
<1>1. m \in Modules /\ a.doc \in Docs /\ a.field \in Fields
  BY DEF Based
<1>2. doc \in Docs /\ \A g \in Fields : doc[g] <= stamp'
  <2>1. /\ Doc(m) \in Docs /\ \A g \in Fields : Doc(m)[g] <= stamp
        /\ stamp \in Nat /\ stamp' \in Nat
    BY <1>1, EditsAssumption DEF EditsInv, ModuleRow, Doc, Numbered
  <2>2. \A g \in Fields : a.doc[g] <= stamp'
    <3>1. a.base \in Nat /\ a.base <= stamp' /\ \A g \in Fields : a.doc[g] \in Nat
      BY <1>1, EditsAssumption DEF Based, Proposal, Docs
    <3>2. QED
      BY <2>1, <3>1 DEF Based
  <2>3. doc \in Docs
    BY <1>1, <2>1 DEF Patched, Docs
  <2>4. ASSUME NEW g \in Fields PROVE doc[g] <= stamp'
    <3>1. doc[g] = IF g = a.field \/ {g, a.field} \subseteq DataFields
                   THEN a.doc[g] ELSE Doc(m)[g]
      BY DEF Patched
    <3>2. Doc(m)[g] \in Nat
      BY <2>1, EditsAssumption DEF Docs
    <3>3. QED
      BY <2>1, <2>2, <3>1, <3>2
  <2>5. QED
    BY <2>3, <2>4
<1> HIDE DEF doc
<1>3. CASE ~Live(m)
  <2>1. /\ Put(r, Settled(a, "application_failed")) /\ wrote' = NoWrite
        /\ UNCHANGED <<modules, history, torn>>
    BY <1>3 DEF ApplyUpdate
  <2>2. \A q \in Proposals : Based(proposals'[q], stamp')
    BY <2>1, PutKeeps
  <2>3. /\ \A h \in history' : Dated(h)'
        /\ \A n \in Modules, f \in Fields : modules'[n].doc[f] <= stamp'
    <3>1. \A n \in Modules, f \in Fields :
            modules[n].doc[f] <= stamp /\ modules[n].doc[f] \in Nat
      BY EditsAssumption DEF EditsInv, Numbered, ModuleRow, Docs
    <3>2. stamp \in Nat /\ stamp' \in Nat
      BY EditsAssumption DEF EditsInv
    <3>3. QED
      BY <2>1, <3>1, <3>2 DEF EditsInv, Dated, Doc
  <2>4. QED
    BY <2>1, <2>2, <2>3, NoWriteSeen, RestKeeps DEF EditsInv,
       VersionIdentifiesState
<1>4. CASE Live(m) /\ a.page \in livePages \cup {Nothing}
  <2>1. /\ Put(r, Settled(a, "applied")) /\ Save(Bumped(m, doc))
        /\ Wrote(how, m, {a.field}, a.base, saw) /\ UNCHANGED torn
    BY <1>4 DEF ApplyUpdate, doc
  <2>2. \A q \in Proposals : Based(proposals'[q], stamp')
    BY <2>1, PutKeeps
  <2>3. QED
    BY <1>1, <1>2, <2>1, <2>2, WroteSeen, BumpKeeps
<1>5. CASE Live(m) /\ a.page \notin livePages \cup {Nothing}
  <2> DEFINE news == [n \in {m} |-> Row(TRUE, modules[m].version, doc)]
  <2>1. /\ Put(r, Settled(a, "application_failed")) /\ Save(news)
        /\ Wrote(how, m, {a.field}, a.base, saw) /\ torn' = torn \cup {m}
    BY <1>5 DEF ApplyUpdate, doc
  <2>2. \A q \in Proposals : Based(proposals'[q], stamp')
    BY <2>1, PutKeeps
  <2>3. /\ DOMAIN news = {m} /\ news[m] \in ModuleRow /\ news[m].doc = doc
        /\ news[m].version = modules[m].version
    BY <1>1, <1>2 DEF EditsInv, ModuleRow, Row
  <2> HIDE DEF news
  <2>4. QED
    BY <1>1, <1>2, <2>1, <2>2, <2>3, WroteSeen, SaveRows
<1>6. QED
  BY <1>3, <1>4, <1>5

LEMMA ApplyDeleteKeeps ==
  ASSUME EditsInv, UNCHANGED stamp, NEW r \in Proposals, NEW a,
         Based(a, stamp), a.kind = "delete", ApplyDelete(r, a)
  PROVE  EditsInv'
<1>1. /\ a.module \in Modules /\ wrote' = NoWrite /\ UNCHANGED torn
      /\ stamp' \in 0..MaxStamp /\ stamp <= stamp' /\ Based(a, stamp')
  BY EditsAssumption DEF ApplyDelete, Based, EditsInv
<1>2. CASE Live(a.module)
  <2>1. Put(r, Settled(a, "applied")) /\ Save(Gone({a.module}))
    BY <1>2 DEF ApplyDelete
  <2>2. QED
    BY <1>1, <2>1, PutKeeps, NoWriteSeen, GoneKeeps
<1>3. CASE ~Live(a.module)
  <2>1. /\ Put(r, Settled(a, "application_failed"))
        /\ UNCHANGED <<modules, history>>
    BY <1>3 DEF ApplyDelete
  <2>2. \A q \in Proposals : Based(proposals'[q], stamp')
    BY <1>1, <2>1, PutKeeps
  <2>3. QED
    BY <1>1, <2>1, <2>2, NoWriteSeen, RestKeeps
       DEF EditsInv, VersionIdentifiesState, Dated, Doc, Numbered
<1>4. QED
  BY <1>2, <1>3

\* A new proposal is based on the document it was merged into.
LEMMA AskedBased ==
  ASSUME EditsInv, NEW m \in Modules, NEW f \in Fields,
         NEW p \in Pages \cup {Nothing}, NEW ruled \in BOOLEAN, Stamped
  PROVE  /\ Based(Asked("update", m, f, p, ruled), stamp')
         /\ Asked("update", m, f, p, ruled).kind = "update"
         /\ Asked("update", m, f, p, ruled).module = m
<1> DEFINE a == Asked("update", m, f, p, ruled)
<1>1. PICK doc \in Docs :
        /\ doc = Merged(Doc(m), f) /\ doc[f] = stamp'
        /\ \A g \in Fields : g # f => doc[g] = Doc(m)[g]
  BY MergedDoc
<1>2. stamp \in Nat /\ stamp <= stamp' /\ stamp' <= stamp'
  BY EditsAssumption DEF EditsInv, Stamped, NewStamp
<1>3. /\ a \in Proposal /\ a.kind = "update" /\ a.module = m /\ a.field = f
      /\ a.doc = doc /\ a.base = stamp
  BY <1>1, <1>2 DEF Asked, Proposal
<1>4. \A g \in Fields : Doc(m)[g] <= stamp
  BY DEF EditsInv, Numbered, Doc
<1> HIDE DEF a
<1>5. Based(a, stamp')
  BY <1>1, <1>2, <1>3, <1>4 DEF Based
<1>6. QED
  BY <1>3, <1>5 DEF a

LEMMA AskedDelete ==
  ASSUME EditsInv, NEW m \in Modules, NEW ruled \in BOOLEAN
  PROVE  /\ Based(Asked("delete", m, Nothing, Nothing, ruled), stamp)
         /\ Asked("delete", m, Nothing, Nothing, ruled).kind = "delete"
<1> DEFINE a == Asked("delete", m, Nothing, Nothing, ruled)
<1>1. stamp \in Nat
  BY EditsAssumption DEF EditsInv
<1>2. a \in Proposal /\ a.kind = "delete" /\ a.module = m
  BY <1>1 DEF Asked, Proposal
<1> HIDE DEF a
<1>3. Based(a, stamp)
  BY <1>2 DEF Based
<1>4. QED
  BY <1>2, <1>3 DEF a

\* Nothing but the proposals changes, and perhaps the stamp.
LEMMA TablesStay ==
  ASSUME EditsInv, stamp' \in 0..MaxStamp, stamp <= stamp',
         UNCHANGED <<modules, history, torn>>, wrote' = NoWrite,
         \A q \in Proposals : Based(proposals'[q], stamp')
  PROVE  EditsInv'
<1>1. ASSUME NEW n \in Modules, NEW f \in Fields
      PROVE  modules[n].doc[f] <= stamp'
  BY <1>1, EditsAssumption DEF EditsInv, Numbered, ModuleRow, Docs
<1>2. QED
  BY <1>1, NoWriteSeen, RestKeeps
     DEF EditsInv, VersionIdentifiesState, Dated, Doc

LEMMA ProposeUpdateKeeps ==
  ASSUME EditsInv, NEW r \in Proposals, NEW m \in Modules, NEW f \in Fields,
         NEW p \in Pages \cup {Nothing}, NEW h \in Reads(m) \cup {Nothing},
         ProposeUpdate(r, m, f, p, h)
  PROVE  EditsInv'
<1>1. Fresh(m, h) /\ Stamped
  BY DEF ProposeUpdate
<1>2. stamp' \in 0..MaxStamp /\ stamp <= stamp'
  BY <1>1, MergedDoc
<1>3. CASE ApplyUpdate(r, Asked("update", m, f, p, TRUE), "at once", Saw(h))
  <2> DEFINE a == Asked("update", m, f, p, TRUE)
  <2>1. Based(a, stamp') /\ a.kind = "update" /\ a.module = m
    BY <1>1, AskedBased
  <2>2. Saw(h) # Nothing => Saw(h) = Doc(m) \/ m \in torn
    BY <1>1, FreshSaw
  <2>3. ApplyUpdate(r, a, "at once", Saw(h))
    BY <1>3
  <2> HIDE DEF a
  <2>4. Saw(h) # Nothing => Saw(h) = Doc(a.module) \/ a.module \in torn
    BY <2>1, <2>2
  <2>5. QED
    BY <1>2, <2>1, <2>3, <2>4, ApplyUpdateKeeps
<1>4. CASE /\ \E status \in {"pending", "denied"} :
                Put(r, Settled(Asked("update", m, f, p, FALSE), status))
           /\ wrote' = NoWrite /\ UNCHANGED <<modules, history, torn>>
  <2>1. PICK status \in {"pending", "denied"} :
               Put(r, Settled(Asked("update", m, f, p, FALSE), status))
    BY <1>4
  <2>2. \A q \in Proposals : Based(proposals'[q], stamp')
    BY <1>1, <1>2, <2>1, AskedBased, PutKeeps
  <2>3. QED
    BY <1>2, <1>4, <2>2, TablesStay
<1>5. QED
  BY <1>3, <1>4 DEF ProposeUpdate

LEMMA ProposeDeleteKeeps ==
  ASSUME EditsInv, NEW r \in Proposals, NEW m \in Modules,
         NEW h \in Reads(m) \cup {Nothing}, ProposeDelete(r, m, h)
  PROVE  EditsInv'
<1>1. UNCHANGED stamp /\ stamp' \in 0..MaxStamp /\ stamp <= stamp'
  BY EditsAssumption DEF ProposeDelete, EditsInv
<1>2. CASE ApplyDelete(r, Asked("delete", m, Nothing, Nothing, TRUE))
  BY <1>1, <1>2, AskedDelete, ApplyDeleteKeeps
<1>3. CASE /\ \E status \in {"pending", "denied"} :
                Put(r, Settled(Asked("delete", m, Nothing, Nothing, FALSE),
                               status))
           /\ wrote' = NoWrite /\ UNCHANGED <<modules, history, torn>>
  <2>1. PICK status \in {"pending", "denied"} :
          Put(r, Settled(Asked("delete", m, Nothing, Nothing, FALSE), status))
    BY <1>3
  <2>2. Based(Asked("delete", m, Nothing, Nothing, FALSE), stamp')
    BY <1>1, AskedDelete
  <2>3. \A q \in Proposals : Based(proposals'[q], stamp')
    BY <1>1, <2>1, <2>2, PutKeeps
  <2>4. QED
    BY <1>1, <1>3, <2>3, TablesStay
<1>4. QED
  BY <1>2, <1>3 DEF ProposeDelete

LEMMA DecideKeeps ==
  ASSUME EditsInv, NEW r \in Proposals, Decide(r)
  PROVE  EditsInv'
<1> DEFINE a == proposals[r]
<1>1. /\ UNCHANGED stamp /\ stamp' \in 0..MaxStamp /\ stamp <= stamp'
      /\ Based(a, stamp) /\ Based(a, stamp')
  BY EditsAssumption DEF Decide, EditsInv
<1>2. CASE a.kind = "update" /\ ApplyUpdate(r, a, "later", Nothing)
  BY <1>1, <1>2, ApplyUpdateKeeps
<1>3. CASE /\ a.kind = "delete"
           /\ \E ruled \in BOOLEAN : ApplyDelete(r, [a EXCEPT !.ruled = ruled])
  <2>1. PICK ruled \in BOOLEAN : ApplyDelete(r, [a EXCEPT !.ruled = ruled])
    BY <1>3
  <2>2. PICK b : b = [a EXCEPT !.ruled = ruled]
    OBVIOUS
  <2>3. Based(b, stamp) /\ b.kind = "delete"
    BY <1>1, <1>3, <2>2 DEF Based, Proposal
  <2>4. QED
    BY <1>1, <2>1, <2>2, <2>3, ApplyDeleteKeeps
<1>4. CASE /\ Put(r, Settled(a, "denied"))
           /\ wrote' = NoWrite /\ UNCHANGED <<modules, history, torn>>
  <2>1. \A q \in Proposals : Based(proposals'[q], stamp')
    BY <1>1, <1>4, PutKeeps
  <2>2. QED
    BY <1>1, <1>4, <2>1, TablesStay
<1>5. QED
  BY <1>2, <1>3, <1>4 DEF Decide

LEMMA RevokeRuleKeeps ==
  ASSUME EditsInv, NEW gone \in SUBSET Modules, NEW back \in SUBSET Modules,
         NEW pages, RevokeRule(gone, back, pages)
  PROVE  EditsInv'
<1> DEFINE news == [m \in gone \cup back |-> Reversal(m, gone, back)]
<1>1. /\ UNCHANGED <<proposals, torn>> /\ wrote' = NoWrite /\ Save(news)
      /\ stamp' \in 0..MaxStamp /\ stamp <= stamp' /\ stamp \in Nat
  BY EditsAssumption DEF RevokeRule, Stamped, NewStamp, EditsInv
<1>2. ASSUME NEW m \in gone \cup back
      PROVE  /\ news[m] \in ModuleRow /\ news[m].version > modules[m].version
             /\ \A f \in Fields : news[m].doc[f] <= stamp'
  <2>1. /\ modules[m].version \in Nat /\ Doc(m) \in Docs
        /\ \A f \in Fields : Doc(m)[f] <= stamp /\ Doc(m)[f] \in Nat
    BY EditsAssumption DEF EditsInv, ModuleRow, Doc, Numbered, Docs
  <2>2. PICK row : row = Reversal(m, gone, back) /\ row = news[m]
    OBVIOUS
  <2>3. /\ row \in ModuleRow /\ row.version > modules[m].version
        /\ row.doc = Doc(m)
    BY <2>1, <2>2 DEF Reversal, Row, ModuleRow
  <2> HIDE DEF news
  <2>4. QED
    BY <1>1, <2>1, <2>2, <2>3
<1>3. DOMAIN news = gone \cup back
  OBVIOUS
<1> HIDE DEF news
<1>4. \A q \in Proposals : Based(proposals'[q], stamp')
  BY <1>1, BasedGrows
<1>5. QED
  BY <1>1, <1>2, <1>3, <1>4, NoWriteSeen, SaveRows

-----------------------------------------------------------------------------
LEMMA EditsInvStep ==
  ASSUME EditsInv, [EditStep]_editVars
  PROVE  EditsInv'
<1>1. CASE \E ms \in SUBSET Modules : ReorderModules(ms)
  BY <1>1, ReorderModulesKeeps
<1>2. CASE \E ms \in SUBSET Modules :
             DeleteModules(ms) \/ \E p \in Pages : DeletePage(p, ms)
  BY <1>2, DeletesKeep
<1>3. CASE \E m \in Modules : CreateModule(m)
  BY <1>3, CreateModuleKeeps
<1>4. CASE \E m \in Modules, f \in Fields : AppendLog(m, f)
  BY <1>4, AppendLogKeeps
<1>5. CASE \E m \in Modules : \E f \in Fields, h \in Reads(m) \cup {Nothing} :
             PatchModule(m, f, h)
  BY <1>5, PatchModuleKeeps
<1>6. CASE \E r \in Proposals : Decide(r)
  BY <1>6, DecideKeeps
<1>7. CASE \E ms \in SUBSET Modules : \E back \in SUBSET Modules,
             pages \in SUBSET Pages : RevokeRule(ms, back, pages)
  BY <1>7, RevokeRuleKeeps
<1>8. CASE \E r \in Proposals, m \in Modules :
             \E h \in Reads(m) \cup {Nothing} : ProposeDelete(r, m, h)
  BY <1>8, ProposeDeleteKeeps
<1>9. CASE \E r \in Proposals, m \in Modules :
             \E h \in Reads(m) \cup {Nothing} :
               \E f \in Fields, p \in Pages \cup {Nothing} :
                 ProposeUpdate(r, m, f, p, h)
  BY <1>9, ProposeUpdateKeeps
<1>10. CASE UNCHANGED editVars
  BY <1>10 DEF editVars, EditsInv, Numbered, Dated, Doc, Based,
     VersionIdentifiesState, NoBlindOverwrite
<1>11. QED
  BY <1>1, <1>2, <1>3, <1>4, <1>5, <1>6, <1>7, <1>8, <1>9, <1>10 DEF EditStep

\* The invariant holds throughout.
THEOREM EditsInvariant == SpecEdits => []EditsInv
<1>1. InitEdits => EditsInv
  BY StartOfEdits
<1>2. EditsInv /\ [EditStep]_editVars => EditsInv'
  BY EditsInvStep
<1>3. QED
  BY <1>1, <1>2, PTL DEF SpecEdits

\* Two reads with the same ETag show the same fields: every writer makes a new
\* version, but for a failed update that leaves fields behind.
THEOREM ETagStandsForState == SpecEdits => []VersionIdentifiesState
<1>1. EditsInv => VersionIdentifiesState
  BY DEF EditsInv
<1>2. QED
  BY <1>1, EditsInvariant, PTL

\* A write with an ETag that was done at once replaced what its client read.
THEOREM NoBlindOverwrites == SpecEdits => []NoBlindOverwrite
<1>1. EditsInv => NoBlindOverwrite
  BY DEF EditsInv
<1>2. QED
  BY <1>1, EditsInvariant, PTL

-----------------------------------------------------------------------------
(***************************************************************************)
(* Which fields a step may change.                                         *)
(***************************************************************************)
Named(m, f) ==
  \/ f \in wrote'.fields
  \/ /\ wrote'.how = "later" /\ f \in DataFields
     /\ modules'[m].doc[f] <= wrote'.base

NamedOnly ==
  \A m \in Modules, f \in Fields :
    Live(m) /\ modules'[m].live /\ modules'[m].doc[f] # Doc(m)[f] => Named(m, f)

\* Only one module has another document.
LEMMA OneDoc ==
  ASSUME NEW news, Save(news),
         NEW m \in Modules, m \notin DOMAIN news \/ news[m].doc = Doc(m)
  PROVE  modules'[m].doc = Doc(m)
BY DEF Save, Doc

LEMMA BumpedNames ==
  ASSUME EditsInv, NEW m \in Modules, NEW f \in Fields, Stamped,
         Save(Bumped(m, Merged(Doc(m), f))), f \in wrote'.fields
  PROVE  NamedOnly
<1>1. ASSUME NEW n \in Modules, NEW g \in Fields,
             modules'[n].doc[g] # Doc(n)[g]
      PROVE  g = f
  <2>1. n = m
    BY <1>1, OneDoc DEF Bumped
  <2>2. modules'[m].doc = Merged(Doc(m), f)
    BY DEF Save, Bumped, Row
  <2>3. QED
    BY <1>1, <2>1, <2>2, MergedDoc
<1>2. QED
  BY <1>1 DEF NamedOnly, Named

LEMMA UpdateNames ==
  ASSUME EditsInv, NEW r, NEW a, a.module \in Modules, a.field \in Fields,
         NEW how, NEW saw, ApplyUpdate(r, a, how, saw),
         \A g \in DataFields : g # a.field =>
           a.doc[g] = Doc(a.module)[g]
             \/ (how = "later" /\ a.doc[g] <= a.base)
  PROVE  NamedOnly
<1> DEFINE m == a.module
           doc == Patched(Doc(m), a)
<1>1. CASE ~Live(m)
  BY <1>1 DEF ApplyUpdate, NamedOnly, Doc
<1>2. CASE Live(m)
  <2>1. Wrote(how, m, {a.field}, a.base, saw)
    BY <1>2 DEF ApplyUpdate
  <2>2. /\ modules'[m].doc = doc
        /\ \A n \in Modules : n # m => modules'[n].doc = Doc(n)
    BY <1>2 DEF ApplyUpdate, Save, Bumped, Row, Doc
  <2>3. ASSUME NEW g \in Fields, doc[g] # Doc(m)[g], g # a.field
        PROVE  how = "later" /\ g \in DataFields /\ doc[g] <= a.base
    <3>1. doc[g] = IF {g, a.field} \subseteq DataFields
                   THEN a.doc[g] ELSE Doc(m)[g]
      BY <2>3 DEF Patched
    <3>2. QED
      BY <2>3, <3>1
  <2> HIDE DEF doc
  <2>4. wrote'.fields = {a.field} /\ wrote'.how = how /\ wrote'.base = a.base
    BY <2>1 DEF Wrote
  <2>5. QED
    BY <2>2, <2>3, <2>4 DEF NamedOnly, Named
<1>3. QED
  BY <1>1, <1>2

\* Documents stay.
LEMMA DocsStayNames ==
  ASSUME \A m \in Modules : modules'[m].doc = Doc(m) PROVE NamedOnly
BY DEF NamedOnly

LEMMA GoneNames ==
  ASSUME NEW ms \in SUBSET Modules, Save(Gone(ms)) PROVE NamedOnly
<1>1. \A m \in ms : Gone(ms)[m].doc = Doc(m)
  BY DEF Gone, Row
<1>2. DOMAIN Gone(ms) = ms
  BY DEF Gone
<1>3. QED
  BY <1>1, <1>2, OneDoc, DocsStayNames

LEMMA ApplyDeleteNames ==
  ASSUME NEW r, NEW a, a.module \in Modules, ApplyDelete(r, a)
  PROVE  NamedOnly
<1>1. CASE Live(a.module)
  BY <1>1, GoneNames DEF ApplyDelete
<1>2. CASE ~Live(a.module)
  BY <1>2, DocsStayNames DEF ApplyDelete, Doc
<1>3. QED
  BY <1>1, <1>2

LEMMA StepNames ==
  ASSUME EditsInv, EditStep
  PROVE  NamedOnly
<1>1. ASSUME NEW ms \in SUBSET Modules, ReorderModules(ms)
      PROVE  NamedOnly
  <2>1. wrote'.fields = {position}
    BY <1>1 DEF ReorderModules, NoWrite
  <2>2. ASSUME NEW m \in Modules, NEW f \in Fields, f # position
        PROVE  modules'[m].doc[f] = Doc(m)[f]
    <3>1. modules[m].doc \in Docs
      BY DEF EditsInv, ModuleRow
    <3>2. modules'[m].doc = IF m \in ms
                            THEN [Doc(m) EXCEPT ![position] = NewStamp]
                            ELSE Doc(m)
      BY <1>1 DEF ReorderModules, Save, Row, Doc
    <3>3. QED
      BY <2>2, <3>1, <3>2 DEF Doc, Docs
  <2>3. QED
    BY <2>1, <2>2 DEF NamedOnly, Named
<1>2. ASSUME NEW ms \in SUBSET Modules,
             DeleteModules(ms) \/ \E p \in Pages : DeletePage(p, ms)
      PROVE  NamedOnly
  BY <1>2, GoneNames DEF DeleteModules, DeletePage
<1>3. ASSUME NEW m \in Modules, CreateModule(m)
      PROVE  NamedOnly
  <2>1. ~Live(m) /\ \A n \in Modules : n # m => modules'[n].doc = Doc(n)
    BY <1>3 DEF CreateModule, NoModule, Live, Save, Doc
  <2>2. QED
    BY <2>1 DEF NamedOnly
<1>4. ASSUME NEW m \in Modules, NEW f \in Fields,
             AppendLog(m, f) \/ \E h \in Reads(m) \cup {Nothing} :
                                  PatchModule(m, f, h)
      PROVE  NamedOnly
  <2>1. /\ Stamped /\ Save(Bumped(m, Merged(Doc(m), f)))
        /\ f \in wrote'.fields
    BY <1>4 DEF AppendLog, PatchModule, Wrote
  <2>2. QED
    BY <2>1, BumpedNames
<1>5. ASSUME NEW r \in Proposals, Decide(r)
      PROVE  NamedOnly
  <2> DEFINE a == proposals[r]
  <2>1. Based(a, stamp)
    BY DEF EditsInv
  <2>2. CASE a.kind = "update" /\ ApplyUpdate(r, a, "later", Nothing)
    <3>1. \A g \in DataFields : g # a.field => a.doc[g] <= a.base
      BY <2>1, <2>2 DEF Based, Fields
    <3>2. a.module \in Modules /\ a.field \in Fields
      BY <2>1, <2>2 DEF Based
    <3>3. QED
      BY <2>2, <3>1, <3>2, UpdateNames
  <2>3. ASSUME a.kind = "delete", NEW ruled \in BOOLEAN,
               ApplyDelete(r, [a EXCEPT !.ruled = ruled])
        PROVE  NamedOnly
    <3>1. PICK b : b = [a EXCEPT !.ruled = ruled]
      OBVIOUS
    <3>2. b.module \in Modules
      BY <2>1, <2>3, <3>1 DEF Based, Proposal
    <3>3. QED
      BY <2>3, <3>1, <3>2, ApplyDeleteNames
  <2>4. CASE UNCHANGED modules
    BY <2>4, DocsStayNames DEF Doc
  <2>5. QED
    BY <1>5, <2>2, <2>3, <2>4 DEF Decide
<1>6. ASSUME NEW gone \in SUBSET Modules, NEW back \in SUBSET Modules,
             NEW pages, RevokeRule(gone, back, pages)
      PROVE  NamedOnly
  <2> DEFINE news == [m \in gone \cup back |-> Reversal(m, gone, back)]
  <2>1. Save(news) /\ DOMAIN news = gone \cup back
    BY <1>6 DEF RevokeRule
  <2>2. \A m \in gone \cup back : news[m].doc = Doc(m)
    BY DEF Reversal, Row
  <2> HIDE DEF news
  <2>3. QED
    BY <2>1, <2>2, OneDoc, DocsStayNames
<1>7. ASSUME NEW r \in Proposals, NEW m \in Modules,
             NEW h \in Reads(m) \cup {Nothing}, ProposeDelete(r, m, h)
      PROVE  NamedOnly
  <2>1. CASE ApplyDelete(r, Asked("delete", m, Nothing, Nothing, TRUE))
    BY <2>1, ApplyDeleteNames DEF Asked
  <2>2. CASE UNCHANGED modules
    BY <2>2, DocsStayNames DEF Doc
  <2>3. QED
    BY <1>7, <2>1, <2>2 DEF ProposeDelete
<1>8. ASSUME NEW r \in Proposals, NEW m \in Modules,
             NEW h \in Reads(m) \cup {Nothing}, NEW f \in Fields,
             NEW p \in Pages \cup {Nothing}, ProposeUpdate(r, m, f, p, h)
      PROVE  NamedOnly
  <2> DEFINE a == Asked("update", m, f, p, TRUE)
  <2>1. CASE ApplyUpdate(r, a, "at once", Saw(h))
    <3>1. /\ a.module = m /\ a.field = f /\ a.doc = Merged(Doc(m), f)
      BY DEF Asked
    <3> HIDE DEF a
    <3>2. Stamped
      BY <1>8 DEF ProposeUpdate
    <3>3. \A g \in DataFields : g # a.field => a.doc[g] = Doc(a.module)[g]
      BY <3>1, <3>2, MergedDoc DEF Fields
    <3>4. QED
      BY <2>1, <3>1, <3>3, UpdateNames
  <2>2. CASE UNCHANGED modules
    BY <2>2, DocsStayNames DEF Doc
  <2>3. QED
    BY <1>8, <2>1, <2>2 DEF ProposeUpdate
<1>9. QED
  BY <1>1, <1>2, <1>3, <1>4, <1>5, <1>6, <1>7, <1>8 DEF EditStep

\* Only what a write names changes, but for a proposal that waited, which can
\* take a field of data back to what it was when the proposal came.
THEOREM OthersFieldsStay == SpecEdits => OnlyNamedFields
<1>1. EditsInv /\ [EditStep]_editVars => [NamedOnly]_editVars
  BY StepNames
<1>2. SpecEdits => [][NamedOnly]_editVars
  BY <1>1, EditsInvariant, PTL DEF SpecEdits
<1>3. QED
  BY <1>2 DEF OnlyNamedFields, NamedOnly, Named

-----------------------------------------------------------------------------
(***************************************************************************)
(* The three together, as MCWorkspace runs them.                           *)
(***************************************************************************)
\* Pages are only deleted, and what is torn is a module.
LEMMA PagesAndTorn ==
  ASSUME EditsInv, [EditStep]_editVars,
         livePages \subseteq Pages, torn \subseteq Modules
  PROVE  livePages' \subseteq Pages /\ torn' \subseteq Modules
<1>1. ASSUME NEW r \in Proposals, NEW a, NEW how, NEW saw,
             a.module \in Modules, ApplyUpdate(r, a, how, saw)
      PROVE  torn' \subseteq Modules
  BY <1>1 DEF ApplyUpdate
<1>2. ASSUME NEW r \in Proposals, Decide(r)
      PROVE  livePages' \subseteq Pages /\ torn' \subseteq Modules
  <2>1. Based(proposals[r], stamp)
    BY DEF EditsInv
  <2>2. CASE proposals[r].kind = "update"
               /\ ApplyUpdate(r, proposals[r], "later", Nothing)
    BY <1>1, <1>2, <2>1, <2>2 DEF Based, Decide
  <2>3. CASE torn' = torn
    BY <1>2, <2>3 DEF Decide
  <2>4. QED
    BY <1>2, <2>2, <2>3 DEF Decide, ApplyDelete
<1>3. ASSUME NEW r \in Proposals, NEW m \in Modules, NEW h, NEW f, NEW p,
             ProposeUpdate(r, m, f, p, h)
      PROVE  livePages' \subseteq Pages /\ torn' \subseteq Modules
  <2>1. Asked("update", m, f, p, TRUE).module = m
    BY DEF Asked
  <2>2. QED
    BY <1>1, <1>3, <2>1 DEF ProposeUpdate
<1>4. CASE \E r \in Proposals, m \in Modules :
             \E h : ProposeDelete(r, m, h)
  BY <1>4 DEF ProposeDelete, ApplyDelete
<1>5. CASE \E ms \in SUBSET Modules : \E back \in SUBSET Modules,
             pages \in SUBSET Pages : RevokeRule(ms, back, pages)
  BY <1>5 DEF RevokeRule
<1>6. CASE \E m \in Modules :
             \/ CreateModule(m)
             \/ \E f \in Fields : AppendLog(m, f)
             \/ \E f \in Fields : \E h : PatchModule(m, f, h)
  BY <1>6 DEF CreateModule, AppendLog, PatchModule
<1>7. CASE \E ms \in SUBSET Modules :
             \/ ReorderModules(ms) \/ DeleteModules(ms)
             \/ \E p \in Pages : DeletePage(p, ms)
  BY <1>7 DEF ReorderModules, DeleteModules, DeletePage
<1>8. CASE UNCHANGED editVars
  BY <1>8 DEF editVars
<1>9. QED
  BY <1>2, <1>3, <1>4, <1>5, <1>6, <1>7, <1>8 DEF EditStep

WorkspaceInv ==
  /\ FilesInv /\ PagingInv /\ EditsInv
  /\ livePages \subseteq Pages /\ torn \subseteq Modules

\* The rows and files of the store, the walks through a list and the edited
\* modules stay what they are meant to be.
THEOREM WorkspaceTyped == Spec => []TypeOK
<1>1. Init => WorkspaceInv
  BY InitFilesInv, InitPagingInv, StartOfEdits
     DEF Init, WorkspaceInv, InitEdits
<1>2. WorkspaceInv /\ [Next]_vars => WorkspaceInv'
  <2> SUFFICES ASSUME WorkspaceInv, [Next]_vars PROVE WorkspaceInv'
    OBVIOUS
  <2>1. [FileStep]_fileVars /\ [PagingStep]_pagingVars /\ [EditStep]_editVars
    BY DEF Next, vars
  <2>2. QED
    BY <2>1, StepFilesInv, StepPagingInv, EditsInvStep, PagesAndTorn
       DEF WorkspaceInv
<1>3. WorkspaceInv => TypeOK
  <2> SUFFICES ASSUME WorkspaceInv PROVE EditsTypeOK
    BY DEF WorkspaceInv, TypeOK, FilesInv, PagingInv
  <2>1. ASSUME NEW m \in Modules
        PROVE  /\ modules[m].live \in BOOLEAN /\ modules[m].version \in Nat
               /\ modules[m].doc \in Docs
    BY DEF WorkspaceInv, EditsInv, ModuleRow
  <2>2. ASSUME NEW r \in Proposals
        PROVE  /\ proposals[r].status \in {"none", "pending", "denied",
                                           "applied", "application_failed"}
               /\ proposals[r].doc \in Docs \cup {Nothing}
    <3>1. proposals[r] \in Proposal
      BY DEF WorkspaceInv, EditsInv, Based
    <3>2. QED
      BY <3>1 DEF Proposal
  <2>3. \A h \in history : h.module \in Modules /\ h.doc \in Docs
    BY DEF WorkspaceInv, EditsInv, Dated
  <2>4. QED
    BY <2>1, <2>2, <2>3 DEF WorkspaceInv, EditsInv, EditsTypeOK
<1>4. QED
  BY <1>1, <1>2, <1>3, PTL DEF Spec

=============================================================================
