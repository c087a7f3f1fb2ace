---------------------------- MODULE ModuleEdits ----------------------------
(***************************************************************************)
(* The versions of a module and everyone who writes it: the administrator  *)
(* (api/modules.py, api/pages.py, services/home_examples.py), the agents   *)
(* with or without a decision in between (api/internal.py,                 *)
(* approval/apply.py), the log and the button, and the reversal of a rule  *)
(* (api/approval_rules.py).  Each handler is one transaction under the     *)
(* write lock, and so one step; what takes longer is the time between a    *)
(* client's read and its write, and between a proposal and its decision.   *)
(***************************************************************************)
EXTENDS Naturals, FiniteSets

CONSTANTS
  Modules,
  DataFields,   \* the fields in data (or config), which is one document
  RowFields,    \* title, position, grid: columns of their own
  position,
  Pages,
  Proposals,
  MaxStamp,     \* bound: the writes; each has a number of its own
  Nothing

Fields == DataFields \cup RowFields

ASSUME EditsAssumption ==
  /\ position \in RowFields /\ DataFields \cap RowFields = {}
  /\ Nothing \notin Modules \cup Fields \cup Pages \cup Proposals
  /\ Nothing \notin {"update", "delete"} /\ MaxStamp \in Nat

VARIABLES
  modules,     \* the modules table: version and, by field, who wrote last
  livePages,
  proposals,   \* the agents' requests about modules
  stamp,       \* how many writes there were
  history,     \* history: what a read could have answered, with its ETag
  torn,        \* history: modules whose failed update left fields behind
  wrote        \* history: the last write

editVars == <<modules, livePages, proposals, stamp, history, torn, wrote>>

Docs == [Fields -> 0..MaxStamp]
NoModule == [live |-> FALSE, version |-> 0, doc |-> [f \in Fields |-> 0]]
NoProposal == [status |-> "none", kind |-> Nothing, module |-> Nothing,
               field |-> Nothing, page |-> Nothing, doc |-> Nothing,
               base |-> 0, ruled |-> FALSE]
NoWrite == [how |-> Nothing, module |-> Nothing, fields |-> {}, base |-> 0,
            saw |-> Nothing, over |-> Nothing]

Live(m) == modules[m].live
Doc(m) == modules[m].doc
NewStamp == stamp + 1
Reads(m) == {h \in history : h.module = m}
Snapshot(m, row) == [module |-> m, version |-> row.version, doc |-> row.doc]

\* Mutant of Merged: the incoming document replaces the stored one.
Replaced(doc, f) ==
  [g \in Fields |-> IF g = f THEN NewStamp
                    ELSE IF {f, g} \subseteq DataFields THEN 0 ELSE doc[g]]

\* deep_merge of a patch that names one field, and the columns.
Merged(doc, f) == [doc EXCEPT ![f] = NewStamp]

\* The rows in news are committed.
Save(news) ==
  /\ modules' = [m \in Modules |-> IF m \in DOMAIN news THEN news[m]
                                   ELSE modules[m]]
  /\ history' = history \cup
       {Snapshot(m, news[m]) : m \in {n \in DOMAIN news : news[n].live}}

Row(live, version, doc) == [live |-> live, version |-> version, doc |-> doc]
Bumped(m, doc) == [n \in {m} |-> Row(TRUE, modules[m].version + 1, doc)]
Gone(ms) == [m \in ms |-> Row(FALSE, modules[m].version + 1, Doc(m))]

\* h is the read the client's ETag is from, or Nothing if it sends none.
Fresh(m, h) == IF h = Nothing THEN TRUE ELSE h.version = modules[m].version
Saw(h) == IF h = Nothing THEN Nothing ELSE h.doc

Wrote(how, m, fs, base, saw) ==
  wrote' = [how |-> how, module |-> m, fields |-> fs, base |-> base,
            saw |-> saw, over |-> Doc(m)]

Stamped == stamp < MaxStamp /\ stamp' = NewStamp

-----------------------------------------------------------------------------
\* create_module of the administrator; a proposed one is applied alike.
CreateModule(m) ==
  /\ modules[m] = NoModule /\ livePages # {} /\ Stamped
  /\ Save([n \in {m} |-> Row(TRUE, 1, [f \in Fields |-> NewStamp])])
  /\ wrote' = NoWrite
  /\ UNCHANGED <<livePages, proposals, torn>>

\* Mutant of PatchModule: If-Match is not looked at.
PatchAnyVersion(m, f, h) ==
  /\ Live(m) /\ Stamped
  /\ Save(Bumped(m, Merged(Doc(m), f)))
  /\ Wrote("patch", m, {f}, stamp, Saw(h))
  /\ UNCHANGED <<livePages, proposals, torn>>

PatchModule(m, f, h) ==
  /\ Live(m) /\ Fresh(m, h) /\ Stamped
  /\ Save(Bumped(m, Merged(Doc(m), f)))
  /\ Wrote("patch", m, {f}, stamp, Saw(h))
  /\ UNCHANGED <<livePages, proposals, torn>>

\* Mutant of AppendLog: an append is not a new version.
AppendQuietly(m, f) ==
  /\ Live(m) /\ f \in DataFields /\ Stamped
  /\ Save([n \in {m} |-> Row(TRUE, modules[m].version, Merged(Doc(m), f))])
  /\ Wrote("append", m, {f}, stamp, Nothing)
  /\ UNCHANGED <<livePages, proposals, torn>>

\* apply_append_log, and last_result of fire_action_button: data is read,
\* changed in one place, and written back.
AppendLog(m, f) ==
  /\ Live(m) /\ f \in DataFields /\ Stamped
  /\ Save(Bumped(m, Merged(Doc(m), f)))
  /\ Wrote("append", m, {f}, stamp, Nothing)
  /\ UNCHANGED <<livePages, proposals, torn>>

\* reorder_modules: those that move get a new version.
ReorderModules(ms) ==
  /\ ms # {} /\ (\A m \in ms : Live(m)) /\ livePages # {} /\ Stamped
  /\ Save([m \in ms |-> Row(TRUE, modules[m].version + 1,
                            [Doc(m) EXCEPT ![position] = NewStamp])])
  /\ wrote' = [NoWrite EXCEPT !.how = "reorder", !.fields = {position},
                              !.base = stamp]
  /\ UNCHANGED <<livePages, proposals, torn>>

\* delete_module, and clear_default_examples for several.
DeleteModules(ms) ==
  /\ ms # {} /\ \A m \in ms : Live(m)
  /\ Save(Gone(ms))
  /\ wrote' = NoWrite
  /\ UNCHANGED <<livePages, proposals, stamp, torn>>

\* delete_page; with cascade, as agents may ask for it, its modules too.
DeletePage(p, ms) ==
  /\ p \in livePages /\ ms \in {{}, {m \in Modules : Live(m)}}
  /\ livePages' = livePages \ {p}
  /\ Save(Gone(ms))
  /\ wrote' = NoWrite
  /\ UNCHANGED <<proposals, stamp, torn>>

-----------------------------------------------------------------------------
\* What a proposal asks for is fixed when it arrives: the document is merged
\* then, and the ETag compared.
Asked(kind, m, f, p, ruled) ==
  [status |-> "pending", kind |-> kind, module |-> m, field |-> f,
   page |-> p, base |-> stamp, ruled |-> ruled,
   doc |-> IF kind = "update" THEN Merged(Doc(m), f) ELSE Nothing]

Put(r, proposal) ==
  proposals' = [q \in Proposals |-> IF q = r THEN proposal ELSE proposals[q]]
Settled(proposal, status) == [proposal EXCEPT !.status = status]

\* apply_update_module: a data document is replaced as a whole.
Patched(doc, a) ==
  [g \in Fields |-> IF g = a.field \/ {g, a.field} \subseteq DataFields
                    THEN a.doc[g] ELSE doc[g]]

\* The fields are assigned before the page is looked up, and stay if it is
\* gone.
ApplyUpdate(r, a, how, saw) ==
  LET m == a.module
      doc == Patched(Doc(m), a)
  IN  \/ /\ ~Live(m)
         /\ Put(r, Settled(a, "application_failed"))
         /\ wrote' = NoWrite /\ UNCHANGED <<modules, history, torn>>
      \/ /\ Live(m) /\ a.page \in livePages \cup {Nothing}
         /\ Put(r, Settled(a, "applied"))
         /\ Save(Bumped(m, doc))
         /\ Wrote(how, m, {a.field}, a.base, saw) /\ UNCHANGED torn
      \/ /\ Live(m) /\ a.page \notin livePages \cup {Nothing}
         /\ Put(r, Settled(a, "application_failed"))
         /\ Save([n \in {m} |-> Row(TRUE, modules[m].version, doc)])
         /\ Wrote(how, m, {a.field}, a.base, saw)
         /\ torn' = torn \cup {m}

\* apply_delete_module.
ApplyDelete(r, a) ==
  /\ wrote' = NoWrite /\ UNCHANGED torn
  /\ IF Live(a.module)
     THEN Put(r, Settled(a, "applied")) /\ Save(Gone({a.module}))
     ELSE /\ Put(r, Settled(a, "application_failed"))
          /\ UNCHANGED <<modules, history>>

\* update_module and delete_module of an agent: a rule lets it wait, applies
\* it at once, or denies it.
ProposeUpdate(r, m, f, p, h) ==
  /\ proposals[r] = NoProposal /\ Live(m) /\ Fresh(m, h) /\ Stamped
  /\ \/ ApplyUpdate(r, Asked("update", m, f, p, TRUE), "at once", Saw(h))
     \/ /\ \E status \in {"pending", "denied"} :
             Put(r, Settled(Asked("update", m, f, p, FALSE), status))
        /\ wrote' = NoWrite /\ UNCHANGED <<modules, history, torn>>
  /\ UNCHANGED livePages

ProposeDelete(r, m, h) ==
  /\ proposals[r] = NoProposal /\ Live(m) /\ Fresh(m, h)
  /\ \/ ApplyDelete(r, Asked("delete", m, Nothing, Nothing, TRUE))
     \/ /\ \E status \in {"pending", "denied"} :
             Put(r, Settled(Asked("delete", m, Nothing, Nothing, FALSE),
                            status))
        /\ wrote' = NoWrite /\ UNCHANGED <<modules, history, torn>>
  /\ UNCHANGED <<livePages, stamp>>

\* A decision about a proposal that waited, of the administrator or of a rule
\* that came later (apply_to_pending); who decided matters for a deletion.
Decide(r) ==
  LET a == proposals[r]
  IN  /\ a.status = "pending"
      /\ \/ a.kind = "update" /\ ApplyUpdate(r, a, "later", Nothing)
         \/ /\ a.kind = "delete"
            /\ \E ruled \in BOOLEAN : ApplyDelete(r, [a EXCEPT !.ruled = ruled])
         \/ /\ Put(r, Settled(a, "denied"))
            /\ wrote' = NoWrite /\ UNCHANGED <<modules, history, torn>>
      /\ UNCHANGED <<livePages, stamp>>

\* What a revoked rule can bring back: each revocation looks again at all that
\* the rule had applied.
DeletedByRule ==
  {m \in Modules : ~Live(m) /\ \E r \in Proposals :
     LET a == proposals[r]
     IN  /\ a.kind = "delete" /\ a.module = m
         /\ a.status = "applied" /\ a.ruled}

\* A module whose deletion and creation are both reversed is gone again.
Reversal(m, gone, back) ==
  Row(m \notin gone,
      modules[m].version + (IF m \in gone \cap back THEN 2 ELSE 1), Doc(m))

\* revoke_rule with reverse_decisions: what the rule deleted is back, and what
\* it let create is gone.  Who created a module, and whose decision took or
\* made a page, is left open.
RevokeRule(gone, back, pages) ==
  /\ back \subseteq DeletedByRule
  /\ \A m \in gone : Live(m) \/ m \in back
  /\ gone \cup back # {} \/ pages # livePages
  /\ Stamped
  /\ Save([m \in gone \cup back |-> Reversal(m, gone, back)])
  /\ livePages' = pages
  /\ wrote' = NoWrite
  /\ UNCHANGED <<proposals, torn>>

InitEdits ==
  /\ modules = [m \in Modules |-> NoModule] /\ livePages = Pages
  /\ proposals = [r \in Proposals |-> NoProposal]
  /\ stamp = 0 /\ history = {} /\ torn = {} /\ wrote = NoWrite

EditStep ==
  \/ \E ms \in SUBSET Modules :
       \/ ReorderModules(ms) \/ DeleteModules(ms)
       \/ \E p \in Pages : DeletePage(p, ms)
       \/ \E back \in SUBSET Modules, pages \in SUBSET Pages :
            RevokeRule(ms, back, pages)
  \/ \E m \in Modules :
       \/ CreateModule(m)
       \/ \E f \in Fields : AppendLog(m, f)
       \/ \E f \in Fields, h \in Reads(m) \cup {Nothing} : PatchModule(m, f, h)
  \/ \E r \in Proposals :
       \/ Decide(r)
       \/ \E m \in Modules : \E h \in Reads(m) \cup {Nothing} :
            \/ ProposeDelete(r, m, h)
            \/ \E f \in Fields, p \in Pages \cup {Nothing} :
                 ProposeUpdate(r, m, f, p, h)

SpecEdits == InitEdits /\ [][EditStep]_editVars

-----------------------------------------------------------------------------
EditsTypeOK ==
  /\ \A m \in Modules :
       /\ modules[m].live \in BOOLEAN /\ modules[m].version \in Nat
       /\ modules[m].doc \in Docs
  /\ livePages \subseteq Pages /\ stamp \in 0..MaxStamp
  /\ torn \subseteq Modules
  /\ \A r \in Proposals :
       /\ proposals[r].status \in {"none", "pending", "denied", "applied",
                                   "application_failed"}
       /\ proposals[r].doc \in Docs \cup {Nothing}
  /\ \A h \in history : h.module \in Modules /\ h.doc \in Docs

\* Two reads of a module that carry the same ETag show the same fields: every
\* writer makes a new version.  A failed update that left fields behind is the
\* one exception.
VersionIdentifiesState ==
  \A g, h \in history :
    g.module = h.module /\ g.version = h.version =>
      g.doc = h.doc \/ g.module \in torn

\* A write that carried an ETag and was done at once replaced exactly what its
\* client had read, unless a failed update hid a change from it.
NoBlindOverwrite ==
  wrote.saw # Nothing => wrote.saw = wrote.over \/ wrote.module \in torn

\* Only what a write names changes, but for a proposal that waited: with the
\* document it was merged into on arrival, a field of data can go back to what
\* was written before the proposal came.
OnlyNamedFields ==
  [][\A m \in Modules, f \in Fields :
       Live(m) /\ modules'[m].live /\ modules'[m].doc[f] # Doc(m)[f] =>
         \/ f \in wrote'.fields
         \/ /\ wrote'.how = "later" /\ f \in DataFields
            /\ modules'[m].doc[f] <= wrote'.base]_editVars
=============================================================================
