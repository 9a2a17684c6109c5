---------------------------- MODULE TemplateSync ----------------------------
(***************************************************************************)
(* `clash-sub template-sync` (template_sync.py): a private document is       *)
(* sanitized, tried out by rendering it for made-up users, and written over  *)
(* the public template files one by one, with an undo when a write fails;    *)
(* and the rendering of a real user's profile from the files (generator.py), *)
(* whose dropping of unusable groups runs one pass per step.                 *)
(***************************************************************************)
EXTENDS Profiles

CONSTANTS
  Sources,     \* documents to sync from: [groups, rules, nodes]
  Users,       \* whom profiles are rendered for: [nodes, airport, backup]
  FirstFiles,  \* the public template files before
  MaxSyncs,    \* bound: syncs that get as far as writing
  Probe        \* the node the candidates are tried out with

ASSUME SourcesAssumption ==
  \A s \in Sources : AreGroups(s.groups) /\ s.nodes \subseteq Names
(* A user of the panel has nodes (sources.py:305), and only the owner has a   *)
(* profile without them, for the airport alone (generator.py:55).             *)
ASSUME UsersAssumption ==
  \A u \in Users : /\ u.nodes \subseteq Names /\ u.airport \in BOOLEAN /\ u.backup \in BOOLEAN
                   /\ u.nodes # {} \/ u.airport
ASSUME FilesAssumption ==
  /\ FirstFiles = [base |-> FirstFiles.base, dns |-> FirstFiles.dns,
                   profiles |-> FirstFiles.profiles]
  /\ AreGroups(FirstFiles.base.groups)

(* Nothing else is called "template-sync-probe". *)
Unnamed(name, document) ==
  /\ name \notin DOMAIN document.groups \cup document.rules
  /\ \A g \in DOMAIN document.groups : name \notin document.groups[g].members

ASSUME ProbeAssumption ==
  /\ Probe \notin Builtins \cup {Backup}
  /\ \A s \in Sources : Unnamed(Probe, s)
  /\ Unnamed(Probe, FirstFiles.base)

Files == <<"base", "dns", "profiles">>     \* PUBLIC_TEMPLATE_FILES
CompatSelections == {{"base", "profiles"}, {"base", "dns", "profiles"}}

VARIABLES
  files,      \* the three public template files
  source,     \* the compat document of the last sync
  selection,  \* the files the sync replaces
  previous,   \* what they held before
  attempted,  \* those a replacement has been tried of
  syncs,      \* how many have begun to write
  result,     \* how the last sync ended
  pc,         \* "idle" "writing" "undoing"; "dropping" "rendered" "unrendered"
  user,       \* whose profile is rendered
  work        \* its groups, and the names dropped

syncVars == <<source, selection, previous, attempted, syncs, result>>
renderVars == <<user, work>>
vars == <<files, source, selection, previous, attempted, syncs, result, pc, user, work>>

NoSource == [groups |-> <<>>, rules |-> {}, nodes |-> {}]
NoUser == [nodes |-> {}, airport |-> FALSE, backup |-> FALSE]
NoWork == [groups |-> <<>>, dropped |-> {}]

---------------------------------------------------------------------------
(* What a sync is going to write: the candidate of every selected file.      *)
Payload(f, s) == CASE f = "base" -> Sanitized(s)
                   [] f = "profiles" -> Manifest(s)
                   [] f = "dns" -> "new"

(* _validate_rendered_candidates: the profiles of a made-up owner and of a   *)
(* made-up member must come out valid.                                       *)
ProbeUsers ==
  {[nodes |-> {Probe}, airport |-> TRUE, backup |-> FALSE],     \* owner, compat and balance
   [nodes |-> {}, airport |-> TRUE, backup |-> FALSE],          \* owner, airport only
   [nodes |-> {Probe}, airport |-> FALSE, backup |-> FALSE]}    \* member, compat

\* Mutant of Accepted: the made-up member is not tried.
AcceptedForOwners(base, manifest) ==
  \A u \in {p \in ProbeUsers : p.airport} :
    /\ Composes(base, manifest, u)
    /\ Valid(Rendered(Composed(base, manifest, u)), base.rules, u)

Accepted(base, manifest) ==
  \A u \in ProbeUsers :
    /\ Composes(base, manifest, u)
    /\ Valid(Rendered(Composed(base, manifest, u)), base.rules, u)

(* The templates a sync is tried with: the current ones where no compat      *)
(* document was given.                                                       *)
CandidateAccepted(s, sel) ==
  IF "base" \in sel THEN Accepted(Sanitized(s), Manifest(s))
  ELSE Accepted(files.base, files.profiles)

---------------------------------------------------------------------------
Init == /\ files = FirstFiles
        /\ source = NoSource
        /\ selection = {}
        /\ previous = FirstFiles
        /\ attempted = {}
        /\ syncs = 0
        /\ result = "none"
        /\ pc = "idle"
        /\ user = NoUser
        /\ work = NoWork

(* run_template_sync up to the first replacement. MaxSyncs of them are run in *)
(* a behaviour, and all of one compat document.                              *)
MaySync(s, sel) ==
  /\ pc = "idle" /\ syncs < MaxSyncs
  /\ s = source \/ ("base" \in sel /\ syncs = 0)

Refuse(s, sel) ==
  /\ MaySync(s, sel)
  /\ ~ CandidateAccepted(s, sel)
  /\ result' = "template_candidate_invalid"
  /\ selection' = {}
  /\ UNCHANGED <<files, source, previous, attempted, syncs, pc, renderVars>>

Begin(s, sel) ==
  /\ MaySync(s, sel)
  /\ CandidateAccepted(s, sel)
  /\ source' = s
  /\ selection' = sel
  /\ previous' = files
  /\ attempted' = {}
  /\ syncs' = syncs + 1
  /\ pc' = "writing"
  /\ UNCHANGED <<files, result, renderVars>>

(* _atomic_replace_outputs: a file that already holds its payload is skipped. *)
Differs(i) == Files[i] \in selection /\ files[Files[i]] # Payload(Files[i], source)
IsNextFile(i) == Differs(i) /\ \A j \in 1 .. 3 : Differs(j) => i <= j

WriteFile(i) ==
  /\ pc = "writing" /\ IsNextFile(i)
  /\ files' = [files EXCEPT ![Files[i]] = Payload(Files[i], source)]
  /\ attempted' = attempted \cup {i}
  /\ UNCHANGED <<source, selection, previous, syncs, result, pc, renderVars>>

WriteFails(i) ==
  /\ pc = "writing" /\ IsNextFile(i)
  /\ attempted' = attempted \cup {i}
  /\ pc' = "undoing"
  /\ UNCHANGED <<files, source, selection, previous, syncs, result, renderVars>>

EndsAs(code) ==
  /\ result' = code
  /\ pc' = "idle"
  /\ attempted' = {}
  /\ UNCHANGED <<files, source, selection, previous, syncs, renderVars>>

Synced == pc = "writing" /\ (\A i \in 1 .. 3 : ~ Differs(i)) /\ EndsAs("synced")

(* The undo goes backwards over the files tried. *)
IsLastAttempt(i) == i \in attempted /\ \A j \in attempted : j <= i

\* Mutant of UndoFile: the undo ends with the file that failed.
UndoFailedFile(i) ==
  /\ pc = "undoing" /\ IsLastAttempt(i)
  /\ files' = [files EXCEPT ![Files[i]] = previous[Files[i]]]
  /\ attempted' = {}
  /\ UNCHANGED <<source, selection, previous, syncs, result, pc, renderVars>>

UndoFile(i) ==
  /\ pc = "undoing" /\ IsLastAttempt(i)
  /\ files' = [files EXCEPT ![Files[i]] = previous[Files[i]]]
  /\ attempted' = attempted \ {i}
  /\ UNCHANGED <<source, selection, previous, syncs, result, pc, renderVars>>

UndoFails == pc = "undoing" /\ attempted # {} /\ EndsAs("template_rollback_failed")
Undone == pc = "undoing" /\ attempted = {} /\ EndsAs("template_write_failed")
Kill == pc \in {"writing", "undoing"} /\ EndsAs("killed")

---------------------------------------------------------------------------
(* render_user_bundle for one user, from the files as they are. Only the     *)
(* files a sync has succeeded on are rendered from: nothing is claimed of a   *)
(* mixture a kill has left.                                                  *)
Render(u) ==
  /\ pc = "idle" /\ result = "synced"
  /\ user' = u
  /\ IF Composes(files.base, files.profiles, u)
     THEN /\ pc' = "dropping"
          /\ work' = [groups |-> Composed(files.base, files.profiles, u), dropped |-> {}]
     ELSE pc' = "unrendered" /\ work' = NoWork
  /\ UNCHANGED <<files, syncVars>>

DropGroup ==
  /\ pc = "dropping" /\ Unusable(work) # {}
  /\ work' = Pass(work)
  /\ UNCHANGED <<files, syncVars, pc, user>>

FinishDropping ==
  /\ pc = "dropping" /\ Unusable(work) = {}
  /\ work' = LastPass(work)
  /\ pc' = "rendered"
  /\ UNCHANGED <<files, syncVars, user>>

Deliver ==
  /\ pc \in {"rendered", "unrendered"}
  /\ pc' = "idle" /\ user' = NoUser /\ work' = NoWork
  /\ UNCHANGED <<files, syncVars>>

Next ==
  \/ \E s \in Sources, sel \in CompatSelections : Refuse(s, sel) \/ Begin(s, sel)
  \/ Refuse(source, {"dns"}) \/ Begin(source, {"dns"})
  \/ \E i \in 1 .. 3 : WriteFile(i) \/ WriteFails(i) \/ UndoFile(i)
  \/ Synced \/ UndoFails \/ Undone \/ Kill
  \/ \E u \in Users : Render(u)
  \/ DropGroup \/ FinishDropping \/ Deliver

Spec == Init /\ [][Next]_vars

---------------------------------------------------------------------------
(* What was composed for the user before anything was dropped. *)
Whole == Composed(files.base, files.profiles, user)

(* No node of the user is called like a group of the template or the backup  *)
(* group: the panel's administrator chooses the names (see the hazards).     *)
NamesApart == user.nodes \cap (DOMAIN files.base.groups \cup {Backup}) = {}

(* A template that has been synced gives every user a profile the publication *)
(* check accepts, although only made-up users were tried; but for a user with *)
(* backup nodes, where the template must have the primary group.             *)
SyncedTemplatesRender ==
  (result = "synced" /\ NamesApart) =>
    /\ pc = "unrendered" => user.backup /\ Primary \notin DOMAIN files.base.groups
    /\ pc = "rendered" => Valid(work.groups, files.base.rules, user)

(* Dropping takes no group a profile could have kept: no set of groups that   *)
(* hold one another up from a node, a target or a provider loses a member;    *)
(* and the groups left at the end are such a set.                            *)
DropIsExact ==
  /\ pc \in {"dropping", "rendered"} =>
       \A U \in SUBSET DOMAIN Whole : Supported(Whole, U) => U \cap work.dropped = {}
  /\ pc = "rendered" => Supported(Whole, DOMAIN work.groups)

(* The owner gets the private document back: every group of it that can be    *)
(* kept, with the panel's nodes where the document had its own, the airport   *)
(* where the document used it, and the other members unchanged.               *)
OwnerGetsTheSource ==
  ( /\ result = "synced" /\ "base" \in selection
    /\ pc = "rendered" /\ user.airport /\ user.nodes # {} /\ NamesApart ) =>
    \A g \in DOMAIN work.groups \ {Backup} :
      LET own == source.groups[g]
          others == own.members \ (source.nodes \cup {Backup} \cup work.dropped)
      IN /\ g \in DOMAIN source.groups
         /\ Airport \in own.use <=> Airport \in work.groups[g].use
         /\ work.groups[g].members \ {Backup} =
              others \cup (IF own.members \cap source.nodes # {} THEN user.nodes ELSE {})

(* "Any failure replaces none of the templates": a sync that reports a failed *)
(* write has put every file back, and one that reports success has replaced   *)
(* every file selected and no other. (A kill, or an undo that fails too,      *)
(* leaves a mixture: see the hazards.)                                        *)
SyncIsAllOrNothing ==
  pc = "idle" =>
    /\ result = "template_write_failed" => files = previous
    /\ result = "synced" =>
         \A f \in DOMAIN files :
           files[f] = IF f \in selection THEN Payload(f, source) ELSE previous[f]
=============================================================================
