----------------------------- MODULE MCPipeline -----------------------------
EXTENDS ApprovalPipeline

(***************************************************************************)
(* Small instances of the pipeline.  "Content" is about what requests do   *)
(* to modules and pages: two agents and a seeded log stream that one of    *)
(* them owns.  "Outside" is about actions that leave the process, and the  *)
(* page creations that can fail beside them in one transaction.            *)
(***************************************************************************)

CONSTANTS a1, a2, m0, p0, p1, s0, s1, t0, k1, iframe, log

Blank == [action |-> "create_module", target |-> Null, page |-> Null,
          mtype |-> Null, slug |-> Null, edits |-> FALSE, lines |-> FALSE]
Create(p) == [Blank EXCEPT !.page = p, !.mtype = iframe]
Edit(m) == [Blank EXCEPT !.action = "update_module_data", !.target = m,
                         !.edits = TRUE]
Append(m) == [Edit(m) EXCEPT !.lines = TRUE, !.edits = FALSE]
Move(m, p) == [Edit(m) EXCEPT !.action = "update_module_meta", !.page = p]
Remove(m) == [Blank EXCEPT !.action = "delete_module", !.target = m]
NewPage(s) == [Blank EXCEPT !.action = "create_page", !.slug = s]
Press(t) == [Blank EXCEPT !.action = "fire_action_button", !.target = t]

Anyone(action, outcome, sweep) ==
  [agent |-> Wild, action |-> action, mtype |-> Wild, module |-> Wild,
   page |-> Wild, owner |-> "any", outcome |-> outcome, priority |-> 100,
   enabled |-> TRUE, sweep |-> sweep]

\* A seeded rule: agents may update the data of what they own.
SeedRules == {[FromDraft([Anyone("update_module_data", "auto_approve", FALSE)
                            EXCEPT !.owner = "self"], 1)
                 EXCEPT !.builtin = TRUE]}
NoRules == {}
SeedMods == [m \in Modules |->
  IF m = m0 THEN [live |-> TRUE, page |-> p0, owner |-> a1, mtype |-> log,
                  writer |-> Null]
  ELSE Null]
SeedPages == [p \in Pages |->
  IF p = p0 THEN [live |-> TRUE, slug |-> s0, owner |-> Null, home |-> FALSE]
  ELSE Null]
On == [live |-> TRUE, enabled |-> TRUE, async |-> FALSE, deaf |-> FALSE]
SeedTgts == [t \in Targets |-> On]
TargetForms == {[On EXCEPT !.async = TRUE], [On EXCEPT !.enabled = FALSE],
                [On EXCEPT !.deaf = TRUE]}

ContentProposals ==
  {Append(m0), Move(m0, p0), Remove(m0), Create(p0)}
ContentDrafts == {Anyone("update_module_data", "auto_approve", TRUE),
                  Anyone("delete_module", "auto_approve", FALSE)}

OutsideProposals == {Press(t0), NewPage(s1)}
OutsideDrafts == {Anyone("create_page", "auto_approve", TRUE),
                  Anyone("fire_action_button", "deny", TRUE)}
=============================================================================
