----------------------------- MODULE FileStore -----------------------------
(***************************************************************************)
(* Files that agents drop into the inbox, register, and the backend moves  *)
(* into its store: services/files.py, api/files.py, register_file of       *)
(* api/internal.py and apply_register_file of approval/apply.py.           *)
(*                                                                         *)
(* The rows are in a transaction, the files are not.  A transaction holds  *)
(* the write lock, so there is one at a time; an agent drops files without *)
(* asking anybody.  The inbox and the store are on one file system, so     *)
(* that a move is a rename.                                                *)
(***************************************************************************)
EXTENDS Naturals, FiniteSets

CONSTANTS
  Places,   \* (page, name) in the inbox
  Files,    \* the fil_* ids; an id is given to one registration
  Bytes,    \* the contents of a file, and so their sha256
  Null

ASSUME FilesAssumption == Null \notin Places \cup Files \cup Bytes

VARIABLES
  inbox,    \* the file in each place, or Null
  store,    \* <store>/<id>/blob, or Null
  rows,     \* the files table: status and sha256
  claims,   \* the register_file requests, by provisional_id
  tx,       \* the transaction that holds the write lock
  causes    \* history: what went wrong around a file

fileVars == <<inbox, store, rows, claims, tx, causes>>

NoRow == [status |-> "none", sha |-> Null]
NoClaim == [status |-> "none", place |-> Null, sha |-> Null]
Tables == [rows |-> rows, claims |-> claims]
NoTables == [rows |-> [f \in Files |-> NoRow],
             claims |-> [f \in Files |-> NoClaim]]
Idle == [at |-> "none", file |-> Null, place |-> Null, sha |-> Null,
         sweep |-> FALSE, before |-> NoTables]

\* About to compare, to move, and to commit or go on with a sweep.
Stages == {"none", "decided", "hashed", "done"}

Goto(at) == tx' = [tx EXCEPT !.at = at]
Open(at, f, p, sha, sweep) ==
  tx' = [at |-> at, file |-> f, place |-> p, sha |-> sha,
         sweep |-> sweep, before |-> Tables]
Blame(cause, fs) ==
  causes' = [f \in Files |-> IF f \in fs THEN causes[f] \cup {cause}
                             ELSE causes[f]]

-----------------------------------------------------------------------------
\* Whoever writes to the shared mount; a write between the comparison and the
\* move is recorded.
Drop(p, c) ==
  /\ inbox' = [inbox EXCEPT ![p] = c]
  /\ IF tx.at = "hashed" /\ tx.place = p /\ tx.sha # c
     THEN Blame("swapped", {tx.file}) ELSE UNCHANGED causes
  /\ UNCHANGED <<store, rows, claims, tx>>

\* Mutant of RegisterFile: nobody looks whether the file is there.
RegisterUnseen(f, p) ==
  /\ tx.at = "none"
  /\ claims[f] = NoClaim /\ rows[f] = NoRow
  /\ claims' = [claims EXCEPT ![f] = [status |-> "pending", place |-> p,
                                     sha |-> inbox[p]]]
  /\ UNCHANGED <<inbox, store, rows, tx, causes>>

\* register_file: the sha is taken now; a rule lets it wait, applies it in the
\* same transaction, or denies it.
RegisterFile(f, p) ==
  LET claim(status) == [status |-> status, place |-> p, sha |-> inbox[p]]
  IN  /\ tx.at = "none" /\ inbox[p] # Null
      /\ claims[f] = NoClaim /\ rows[f] = NoRow
      /\ \/ /\ \E status \in {"pending", "denied"} :
                 claims' = [claims EXCEPT ![f] = claim(status)]
            /\ UNCHANGED tx
         \/ /\ claims' = [claims EXCEPT ![f] = claim("pending")]
            /\ Open("decided", f, p, inbox[p], FALSE)
      /\ UNCHANGED <<inbox, store, rows, causes>>

\* approve_request, and the sweeps, which decide several in one transaction.
ApproveClaim(f) ==
  /\ claims[f].status = "pending"
  /\ \/ /\ tx.at = "none"
        /\ Open("decided", f, claims[f].place, claims[f].sha, TRUE)
     \/ /\ tx.at = "done" /\ tx.sweep
        /\ tx' = [tx EXCEPT !.at = "decided", !.file = f,
                            !.place = claims[f].place, !.sha = claims[f].sha]
  /\ UNCHANGED <<inbox, store, rows, claims, causes>>

\* deny_request, the rule sweep's denials and the expiry.
CloseClaim(f) ==
  /\ tx.at = "none" /\ claims[f].status = "pending"
  /\ claims' = [claims EXCEPT ![f].status = "denied"]
  /\ UNCHANGED <<inbox, store, rows, tx, causes>>

\* Mutant of Compare: what is in the inbox is taken for what was registered.
TakeWhatIsThere ==
  /\ tx.at = "decided"
  /\ IF inbox[tx.place] # Null
     THEN tx' = [tx EXCEPT !.at = "hashed", !.sha = inbox[tx.place]]
          /\ UNCHANGED claims
     ELSE Goto("done")
          /\ claims' = [claims EXCEPT ![tx.file].status = "application_failed"]
  /\ UNCHANGED <<inbox, store, rows, causes>>

\* apply_register_file up to the move: the file is still there and unchanged.
Compare ==
  /\ tx.at = "decided"
  /\ IF inbox[tx.place] = tx.sha
     THEN Goto("hashed") /\ UNCHANGED claims
     ELSE Goto("done")
          /\ claims' = [claims EXCEPT ![tx.file].status = "application_failed"]
  /\ UNCHANGED <<inbox, store, rows, causes>>

\* register_inbox_file: the administrator registers what is there.
RegisterInbox(f, p) ==
  /\ tx.at = "none" /\ inbox[p] # Null
  /\ claims[f] = NoClaim /\ rows[f] = NoRow
  /\ Open("hashed", f, p, inbox[p], FALSE)
  /\ UNCHANGED <<inbox, store, rows, claims, causes>>

Registered(f) == [rows EXCEPT ![f] = [status |-> "registered", sha |-> tx.sha]]
Fulfilled(f) ==
  IF claims[f] = NoClaim THEN claims
  ELSE [claims EXCEPT ![f].status = "applied"]

\* Mutant of MoveIn: the bytes that were hashed are written, and the place is
\* cleared.
CopyAndUnlink ==
  /\ tx.at = "hashed" /\ inbox[tx.place] # Null
  /\ store' = [store EXCEPT ![tx.file] = tx.sha]
  /\ inbox' = [inbox EXCEPT ![tx.place] = Null]
  /\ rows' = Registered(tx.file) /\ claims' = Fulfilled(tx.file)
  /\ Goto("done")
  /\ UNCHANGED causes

\* persist_registered_file and the flush.  The blob of an earlier attempt is
\* replaced.  If the file is gone the move raises: Abort.
MoveIn ==
  /\ tx.at = "hashed" /\ inbox[tx.place] # Null
  /\ store' = [store EXCEPT ![tx.file] = inbox[tx.place]]
  /\ inbox' = [inbox EXCEPT ![tx.place] = Null]
  /\ rows' = Registered(tx.file) /\ claims' = Fulfilled(tx.file)
  /\ Goto("done")
  /\ UNCHANGED causes

\* delete_inbox_file: no row is touched, whatever waits for the file.
DeleteInbox(p) ==
  /\ tx.at = "none" /\ inbox[p] # Null
  /\ inbox' = [inbox EXCEPT ![p] = Null]
  /\ UNCHANGED <<store, rows, claims, tx, causes>>

\* Mutant of DeleteFile: the row alone is deleted.
DeleteRow(f) ==
  /\ tx.at = "none" /\ rows[f].status = "registered"
  /\ Open("done", f, Null, Null, FALSE)
  /\ rows' = [rows EXCEPT ![f].status = "deleted"]
  /\ UNCHANGED <<inbox, store, claims, causes>>

\* delete_file: remove_stored_file, which ignores an OSError, then the row.
DeleteFile(f) ==
  /\ tx.at = "none" /\ rows[f].status = "registered"
  /\ Open("done", f, Null, Null, FALSE)
  /\ rows' = [rows EXCEPT ![f].status = "deleted"]
  /\ \/ /\ store' = [store EXCEPT ![f] = Null]
        /\ UNCHANGED causes
     \/ /\ store[f] # Null
        /\ Blame("not unlinked", {f}) /\ UNCHANGED store
  /\ UNCHANGED <<inbox, claims>>

CommitFiles ==
  /\ tx.at = "done"
  /\ tx' = Idle
  /\ UNCHANGED <<inbox, store, rows, claims, causes>>

\* A failed flush or commit, a raise, or a crash: the rows return, the files
\* stay where they were put.
AbortFiles ==
  /\ tx.at # "none"
  /\ rows' = tx.before.rows /\ claims' = tx.before.claims
  /\ Blame("rolled back", {f \in Files : rows[f] # tx.before.rows[f]})
  /\ tx' = Idle
  /\ UNCHANGED <<inbox, store>>

InitFiles ==
  /\ inbox = [p \in Places |-> Null] /\ store = [f \in Files |-> Null]
  /\ rows = [f \in Files |-> NoRow] /\ claims = [f \in Files |-> NoClaim]
  /\ tx = Idle
  /\ causes = [f \in Files |-> {}]

FileStep ==
  \/ Compare \/ MoveIn \/ CommitFiles \/ AbortFiles
  \/ \E f \in Files : ApproveClaim(f) \/ CloseClaim(f) \/ DeleteFile(f)
  \/ \E p \in Places :
       \/ DeleteInbox(p)
       \/ \E c \in Bytes : Drop(p, c)
       \/ \E f \in Files : RegisterFile(f, p) \/ RegisterInbox(f, p)

SpecFiles == InitFiles /\ [][FileStep]_fileVars

-----------------------------------------------------------------------------
\* What list_files and orphan_count show when no transaction is open.
Shown(f) == rows[f].status = "registered"
Missing == {f \in Files : Shown(f) /\ store[f] = Null}
StoreOrphans == {f \in Files : ~Shown(f) /\ store[f] # Null}
Unclaimed ==
  {p \in Places : inbox[p] # Null
     /\ \A f \in Files : claims[f].status = "pending" => claims[f].place # p}

\* _serve answers with the blob of a registered row.
Served(f) == IF Shown(f) THEN store[f] ELSE Null

Kept(c) ==
  \/ \E p \in Places : inbox[p] = c
  \/ \E f \in Files : store[f] = c

RowTable ==
  [Files -> {NoRow} \cup [status : {"registered", "deleted"}, sha : Bytes]]
ClaimTable ==
  [Files -> {NoClaim} \cup
     [status : {"pending", "applied", "denied", "application_failed"},
      place : Places, sha : Bytes]]
Causes == {"swapped", "rolled back", "not unlinked"}
Transactions ==
  [at : Stages, file : Files \cup {Null}, place : Places \cup {Null},
   sha : Bytes \cup {Null}, sweep : BOOLEAN,
   before : [rows : RowTable, claims : ClaimTable]]

FilesTypeOK ==
  /\ inbox \in [Places -> Bytes \cup {Null}]
  /\ store \in [Files -> Bytes \cup {Null}]
  /\ rows \in RowTable /\ claims \in ClaimTable
  /\ tx \in Transactions
  /\ causes \in [Files -> SUBSET Causes]

\* What is served for a registered file is what its row says, and what the
\* request showed whoever approved it, unless somebody wrote to the inbox
\* between the comparison and the move.
ServedIsReviewed ==
  \A f \in Files :
    Served(f) # Null /\ "swapped" \notin causes[f] =>
      /\ Served(f) = rows[f].sha
      /\ claims[f] = NoClaim \/ Served(f) = claims[f].sha

\* The backend loses no dropped bytes: the last copy goes when somebody
\* overwrites or deletes it in the inbox, when the administrator deletes the
\* file, or when the same registration is applied again over what an earlier
\* attempt left.
NothingVanishes ==
  [][\A c \in Bytes : Kept(c) /\ ~Kept(c)' =>
       \/ UNCHANGED <<store, rows, claims, tx>>
       \/ \E f \in Files : store[f] = c /\ rows[f].status = "registered"
                            /\ rows'[f].status = "deleted"
       \/ \E f \in StoreOrphans : store[f] = c /\ store'[f] # Null]_fileVars

\* Between transactions the disk and the table disagree only about a file
\* whose transaction was rolled back, or whose blob could not be removed.
DiskFollowsRows ==
  tx.at = "none" =>
    /\ \A f \in Missing : "rolled back" \in causes[f]
    /\ \A f \in StoreOrphans :
         causes[f] \cap {"rolled back", "not unlinked"} # {}
    /\ \A f \in Files : claims[f] # NoClaim =>
         ((claims[f].status = "applied") <=> (rows[f] # NoRow))
=============================================================================
