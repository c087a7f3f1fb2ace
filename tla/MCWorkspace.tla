---------------------------- MODULE MCWorkspace ----------------------------
(***************************************************************************)
(* Small instances of what agents and the administrator work on, one in    *)
(* each initial state: the files, a walk through a list, and the edits of  *)
(* a module.  They share no variable.                                      *)
(***************************************************************************)
EXTENDS FileStore, Paging, ModuleEdits

VARIABLE scene

vars == <<scene, fileVars, pagingVars, editVars>>

Init ==
  /\ scene \in {"files", "walk", "edits"}
  /\ InitFiles /\ InitEdits
  /\ IF scene = "walk" THEN InitPaging
     ELSE InitPaging /\ matching = {} /\ walk = "agent"

Next ==
  /\ \/ scene = "files" /\ FileStep /\ UNCHANGED <<pagingVars, editVars>>
     \/ scene = "walk" /\ PagingStep /\ UNCHANGED <<fileVars, editVars>>
     \/ scene = "edits" /\ EditStep /\ UNCHANGED <<fileVars, pagingVars>>
  /\ UNCHANGED scene

Spec == Init /\ [][Next]_vars

TypeOK == FilesTypeOK /\ PagingTypeOK /\ EditsTypeOK
=============================================================================
