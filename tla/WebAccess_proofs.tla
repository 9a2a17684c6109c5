-------------------------- MODULE WebAccess_proofs --------------------------
(***************************************************************************)
(* What the portal's switches and pages promise, for any number of         *)
(* commands, rotations, failing calls and kills: the switches as long as   *)
(* the one failure that leaves a committed journal over a rollback         *)
(* (CommitUnsynced) meets no other (EarlyFaults), the pages as long as no  *)
(* rotation comes between the two holds of another (Undisturbed).          *)
(***************************************************************************)
EXTENDS WebAccess, TLAPS

EarlyFaults == ~LateFaults

-----------------------------------------------------------------------------
(* The inductive invariant *)

\* The page addresses play no part.
IsSettings(s) ==
    /\ s = [enabled |-> s.enabled, panel |-> s.panel, password |-> s.password, pages |-> s.pages]
    /\ s.enabled \in BOOLEAN /\ s.panel \in BOOLEAN

Before == {"pull", "enable", "write", "recover", "recover_reload", "recover_drop", "prepare"}
Installing == {"replace", "test", "reload", "commit", "drop"}
Undoing == {"undo", "undo_reload", "undo_drop"}
After == {"tail", "putback", "shut"}
Activating == {"recover", "recover_reload", "recover_drop", "prepare", "tail"} \cup Installing \cup Undoing

Types ==
    /\ IsSettings(settings)
    /\ conf \in Config /\ loaded \in Config
    /\ journal \in [phase : {"none", "prepared", "committed"}, saved : Config]
    /\ socket \in BOOLEAN /\ code \in Nat
    /\ op = [kind |-> op.kind, pc |-> op.pc, new |-> op.new, target |-> op.target,
             saved |-> op.saved, prepared |-> op.prepared]
    /\ op.kind \in {"none", "links", "rotate-page"} \cup Rerendering
    /\ op.pc \in {"idle"} \cup Before \cup Installing \cup Undoing \cup After
    /\ Free <=> op.pc = "idle"
    /\ op.kind \notin Rerendering => op.pc \in {"idle", "write"}
    /\ op.pc = "pull" => op.kind = "update"
    /\ IsSettings(op.new) /\ op.saved \in Config /\ op.prepared \in BOOLEAN
    /\ last = [kind |-> last.kind, outcome |-> last.outcome, settings |-> last.settings,
               conf |-> last.conf, sound |-> last.sound]
    /\ IsSettings(last.settings) /\ last.conf \in Config /\ last.sound \in BOOLEAN
    /\ ~Free => last.kind = op.kind
    /\ closed \subseteq Switches
    /\ faults \in Nat /\ kills \in Nat

\* No call fails any more and no process is killed.
Quiet == faults = MaxFaults /\ kills = MaxKills

\* How the file, the running nginx and the journal agree at each step.
Agreement ==
    /\ op.pc \in Before => ~op.prepared
    /\ op.pc \in {"idle", "pull", "enable", "write", "recover", "putback", "shut"} =>
          (journal.phase # "prepared" => loaded = conf)
    /\ op.pc \in {"recover_reload", "recover_drop"} => journal.phase = "prepared"
    /\ op.pc = "prepare" => journal.phase = "none"
    /\ op.pc \in Installing \ {"drop"} => op.prepared /\ journal = Prepared("prepared")
    /\ op.pc = "replace" => conf = op.saved
    /\ op.pc \in {"recover_drop", "prepare", "replace", "commit", "drop", "tail"} => loaded = conf
    /\ op.pc \in {"test", "reload", "commit", "drop", "tail"} => conf = Rendered
    /\ op.pc = "drop" => journal.phase = "committed"
    /\ op.pc = "tail" => journal.phase # "prepared"

\* A rollback has its journal, unless that was never written, or says
\* committed and nothing can interrupt the rollback any more.
UndoAgreement ==
    op.pc \in Undoing =>
       /\ op.prepared =>
             journal = Prepared("prepared") \/ (journal.phase = "committed" /\ Quiet)
       /\ ~op.prepared =>
             /\ conf = op.saved /\ loaded = conf
             /\ journal.phase = "none" \/ journal = Prepared("prepared")
       /\ op.pc # "undo" => conf = op.saved
       /\ op.pc = "undo_drop" => loaded = conf

\* What a command has saved and enabled.
Saved ==
    /\ op.pc \in Activating => settings = op.new
    /\ op.kind \in Opening => op.new.enabled
    /\ op.kind \in Opening /\ op.pc \in {"write"} \cup Activating => socket
    /\ op.kind = "web-off" => ~op.new.enabled
    /\ op.kind = "panel-off" => ~op.new.panel

\* What is closed is open nowhere, not even in what a recovery may restore.
Closed(s) ==
    /\ ~loaded[s] /\ ~conf[s] /\ ~settings[s]
    /\ journal.phase = "prepared" => ~journal.saved[s]
    /\ ~Free => ~op.new[s] /\ ~last.settings[s]
    /\ op.pc \in Installing \cup Undoing => ~op.saved[s]

\* What a command that began on sound ground would restore.
Restorable ==
    ~Free /\ op.kind \in Rerendering \ {"update"} /\ last.sound =>
       /\ op.pc \in {"enable", "write", "recover", "prepare"} =>
             conf = last.conf /\ loaded = last.conf /\ journal.phase = "none"
       /\ op.pc \notin {"recover_reload", "recover_drop"}
       /\ op.pc \in Installing \cup Undoing => op.saved = last.conf
       /\ op.pc \in {"putback", "shut"} =>
             /\ journal.phase = "prepared" => journal.saved = last.conf
             /\ journal.phase # "prepared" => conf = last.conf /\ loaded = last.conf
       /\ op.pc = "shut" => settings = last.settings

AccessInv ==
    /\ Types /\ Agreement /\ UndoAgreement /\ Saved
    /\ \A s \in closed : Closed(s)
    /\ Restorable
    /\ SuccessIsInForce /\ FailureRestores

-----------------------------------------------------------------------------
(* Operators *)

\* New page addresses leave the switches alone.
LEMMA ProvisionKeeps ==
    ASSUME NEW s, IsSettings(s), NEW tokens, NEW rotate
    PROVE  /\ IsSettings(provision_pages(s, tokens, rotate))
           /\ provision_pages(s, tokens, rotate).enabled = s.enabled
           /\ provision_pages(s, tokens, rotate).panel = s.panel
  BY DEF IsSettings, provision_pages

\* The switches can be set one by one.
LEMMA SwitchKeeps ==
    ASSUME NEW s, IsSettings(s), NEW v \in BOOLEAN
    PROVE  /\ IsSettings([s EXCEPT !.enabled = v])
           /\ [s EXCEPT !.enabled = v].enabled = v /\ [s EXCEPT !.enabled = v].panel = s.panel
  BY DEF IsSettings

LEMMA PasswordKeeps ==
    ASSUME NEW s, IsSettings(s), NEW v
    PROVE  /\ IsSettings([s EXCEPT !.password = v])
           /\ [s EXCEPT !.password = v].enabled = s.enabled /\ [s EXCEPT !.password = v].panel = s.panel
  BY DEF IsSettings

LEMMA ReboundKeeps ==
    ASSUME NEW s, IsSettings(s), NEW c, NEW before, NEW after
    PROVE  /\ IsSettings(Rebound(s, c, before, after))
           /\ Rebound(s, c, before, after).enabled = s.enabled
           /\ Rebound(s, c, before, after).panel = s.panel
  BY DEF IsSettings, Rebound

LEMMA RenderedType == ASSUME Types PROVE Rendered \in Config
  BY DEF Types, IsSettings, Rendered, Config

-----------------------------------------------------------------------------
LEMMA AccessInit == Init => AccessInv
<1> SUFFICES ASSUME Init PROVE AccessInv
  OBVIOUS
<1> USE DEF Init
<1>1. Types
  BY WebAssumption DEF Types, IsSettings, Config, Rendered, NoJournal, NoFile, Idle, Free, Rerendering,
     Before, Installing, Undoing, After
<1>2. Agreement /\ UndoAgreement /\ Saved
  BY DEF Agreement, UndoAgreement, Saved, Idle, Before, Installing, Undoing, After, Activating, Opening
<1>3. Restorable /\ SuccessIsInForce /\ FailureRestores
  BY DEF Restorable, SuccessIsInForce, FailureRestores, Settled, Free, Idle, Rerendering
<1> QED
  BY <1>1, <1>2, <1>3 DEF AccessInv

-----------------------------------------------------------------------------
(* The steps of activate_nginx_files                                       *)

Recovering == \/ RecoverNothing \/ RecoverCommitted \/ RecoverFiles \/ RecoverReload
              \/ RecoverDrop \/ RecoverFails
Preparing == Unchanged \/ Prepare \/ PrepareFails
Replacing == Replace \/ ReplaceFails \/ Test \/ TestFails \/ Reload \/ ReloadFails
Committing == Commit \/ CommitFails \/ CommitUnsynced \/ Drop \/ DropFails
RollingBack == Undo \/ UndoReload \/ UndoDrop \/ UndoFails

ActivationStep == Recovering \/ Preparing \/ Replacing \/ Committing \/ RollingBack

\* They leave the settings and the processes alone.
LEMMA ActivationFrame ==
    ASSUME Types, ActivationStep
    PROVE  /\ UNCHANGED <<settings, socket, code, closed, last>>
           /\ op.pc \in Activating \ {"tail"} /\ op'.pc \in Activating \cup {"putback"}
           /\ op' = [op EXCEPT !.pc = op'.pc, !.saved = op'.saved, !.prepared = op'.prepared]
<1> USE DEF Types, Step, Trouble, Goto, At, Rest, processes, Installing, Undoing, Activating
<1>1. CASE Recovering
  BY <1>1 DEF Recovering, RecoverNothing, RecoverCommitted, RecoverFiles, RecoverReload, RecoverDrop,
              RecoverFails
<1>2. CASE Preparing
  <2>1. CASE Unchanged
    BY <2>1 DEF Unchanged
  <2>2. CASE Prepare
    BY <2>2 DEF Prepare
  <2>3. CASE PrepareFails
    BY <2>3 DEF PrepareFails
  <2> QED
    BY <1>2, <2>1, <2>2, <2>3 DEF Preparing
<1>3. CASE Replacing
  BY <1>3 DEF Replacing, Replace, ReplaceFails, Test, TestFails, Reload, ReloadFails
<1>4. CASE Committing
  BY <1>4 DEF Committing, Commit, CommitFails, CommitUnsynced, Drop, DropFails
<1>5. CASE RollingBack
  BY <1>5 DEF RollingBack, Undo, UndoReload, UndoDrop, UndoFails
<1> QED
  BY <1>1, <1>2, <1>3, <1>4, <1>5 DEF ActivationStep

\* The contents of the files are configurations throughout.
LEMMA ActivationContents ==
    ASSUME Types, ActivationStep
    PROVE  /\ conf' \in Config /\ loaded' \in Config /\ op'.saved \in Config /\ op'.prepared \in BOOLEAN
           /\ journal' \in [phase : {"none", "prepared", "committed"}, saved : Config]
           /\ faults' \in Nat /\ kills' \in Nat
<1> USE WebAssumption, RenderedType
    DEF Types, Step, Trouble, Goto, At, Fault, NoFault, Rest, Prepared
<1>0. NoJournal \in [phase : {"none", "prepared", "committed"}, saved : Config]
  BY DEF NoFile, Config, NoJournal
<1>1. CASE Recovering
  BY <1>0, <1>1 DEF Recovering, RecoverNothing, RecoverCommitted, RecoverFiles, RecoverReload, RecoverDrop,
              RecoverFails
<1>2. CASE Preparing
  <2>1. CASE Unchanged
    BY <2>1 DEF Unchanged
  <2>2. CASE Prepare
    BY <2>2 DEF Prepare
  <2>3. CASE PrepareFails
    BY <2>3 DEF PrepareFails
  <2> QED
    BY <1>2, <2>1, <2>2, <2>3 DEF Preparing
<1>3. CASE Replacing
  BY <1>3 DEF Replacing, Replace, ReplaceFails, Test, TestFails, Reload, ReloadFails
<1>4. CASE Committing
  BY <1>0, <1>4 DEF Committing, Commit, CommitFails, CommitUnsynced, Drop, DropFails
<1>5. CASE RollingBack
  BY <1>0, <1>5 DEF RollingBack, Undo, UndoReload, UndoDrop, UndoFails
<1> QED
  BY <1>1, <1>2, <1>3, <1>4, <1>5 DEF ActivationStep

LEMMA ActivationAgrees ==
    ASSUME EarlyFaults, Types, Agreement, UndoAgreement, ActivationStep
    PROVE  Agreement' /\ UndoAgreement'
<1>0. Rendered' = Rendered
  BY ActivationFrame DEF Rendered
<1> USE WebAssumption, ActivationFrame, <1>0
    DEF Types, Agreement, UndoAgreement, Quiet, EarlyFaults, Step, Trouble, Goto, At, Fault, NoFault, Rest,
        Prepared, NoJournal, Before, Installing, Undoing, After, Activating
<1>1. CASE Recovering
  BY <1>1 DEF Recovering, RecoverNothing, RecoverCommitted, RecoverFiles, RecoverReload, RecoverDrop,
              RecoverFails
<1>2. CASE Preparing
  <2>1. CASE Unchanged
    BY <2>1 DEF Unchanged
  <2>2. CASE Prepare
    BY <2>2 DEF Prepare
  <2>3. CASE PrepareFails
    BY <2>3 DEF PrepareFails
  <2> QED
    BY <1>2, <2>1, <2>2, <2>3 DEF Preparing
<1>3. CASE Replacing
  BY <1>3 DEF Replacing, Replace, ReplaceFails, Test, TestFails, Reload, ReloadFails
<1>4. CASE Committing
  BY <1>4 DEF Committing, Commit, CommitFails, CommitUnsynced, Drop, DropFails
<1>5. CASE RollingBack
  BY <1>5 DEF RollingBack, Undo, UndoReload, UndoDrop, UndoFails
<1> QED
  BY <1>1, <1>2, <1>3, <1>4, <1>5 DEF ActivationStep

LEMMA ActivationStaysClosed ==
    ASSUME Types, Agreement, UndoAgreement, ActivationStep, NEW s \in Switches, Closed(s)
    PROVE  Closed(s)'
<1>0. Rendered[s] = settings[s]
  BY DEF Rendered, Switches
<1> USE ActivationFrame, <1>0
    DEF Types, Agreement, UndoAgreement, Closed, Step, Trouble, Goto, At, Prepared, NoJournal, Free,
        Before, Installing, Undoing, After, Activating
<1>1. CASE Recovering
  BY <1>1 DEF Recovering, RecoverNothing, RecoverCommitted, RecoverFiles, RecoverReload, RecoverDrop,
              RecoverFails
<1>2. CASE Preparing
  <2>1. CASE Unchanged
    BY <2>1 DEF Unchanged
  <2>2. CASE Prepare
    BY <2>2 DEF Prepare
  <2>3. CASE PrepareFails
    BY <2>3 DEF PrepareFails
  <2> QED
    BY <1>2, <2>1, <2>2, <2>3 DEF Preparing
<1>3. CASE Replacing
  BY <1>3 DEF Replacing, Replace, ReplaceFails, Test, TestFails, Reload, ReloadFails
<1>4. CASE Committing
  BY <1>4 DEF Committing, Commit, CommitFails, CommitUnsynced, Drop, DropFails
<1>5. CASE RollingBack
  BY <1>5 DEF RollingBack, Undo, UndoReload, UndoDrop, UndoFails
<1> QED
  BY <1>1, <1>2, <1>3, <1>4, <1>5 DEF ActivationStep

LEMMA ActivationRestorable ==
    ASSUME Types, Agreement, UndoAgreement, Restorable, ActivationStep
    PROVE  Restorable'
<1> USE ActivationFrame
    DEF Types, Agreement, UndoAgreement, Restorable, Quiet, Step, Trouble, Goto, At, Fault, Prepared, NoJournal,
        Free, Before, Installing, Undoing, After, Activating
<1>1. CASE Recovering
  BY <1>1 DEF Recovering, RecoverNothing, RecoverCommitted, RecoverFiles, RecoverReload, RecoverDrop,
              RecoverFails
<1>2. CASE Preparing
  <2>1. CASE Unchanged
    BY <2>1 DEF Unchanged
  <2>2. CASE Prepare
    BY <2>2 DEF Prepare
  <2>3. CASE PrepareFails
    BY <2>3 DEF PrepareFails
  <2> QED
    BY <1>2, <2>1, <2>2, <2>3 DEF Preparing
<1>3. CASE Replacing
  BY <1>3 DEF Replacing, Replace, ReplaceFails, Test, TestFails, Reload, ReloadFails
<1>4. CASE Committing
  BY <1>4 DEF Committing, Commit, CommitFails, CommitUnsynced, Drop, DropFails
<1>5. CASE RollingBack
  BY <1>5 DEF RollingBack, Undo, UndoReload, UndoDrop, UndoFails
<1> QED
  BY <1>1, <1>2, <1>3, <1>4, <1>5 DEF ActivationStep

LEMMA ActivationNext ==
    ASSUME EarlyFaults, AccessInv, ActivationStep
    PROVE  AccessInv'
<1> USE DEF AccessInv
<1>1. ~Free' /\ op'.kind = op.kind
  BY ActivationFrame DEF Types, Free, Before, Installing, Undoing, After, Activating
<1>2. Types'
  BY <1>1, ActivationFrame, ActivationContents
     DEF Types, IsSettings, Free, Before, Installing, Undoing, After, Activating, Rerendering
<1>3. Saved'
  BY ActivationFrame DEF Types, Saved, Activating, Opening, Rerendering
<1>4. \A s \in closed' : Closed(s)'
  BY ActivationFrame, ActivationStaysClosed DEF Types
<1> QED
  BY <1>1, <1>2, <1>3, <1>4, ActivationAgrees, ActivationRestorable
     DEF SuccessIsInForce, FailureRestores, Settled

-----------------------------------------------------------------------------
(* The other steps of a command                                            *)

\* A command begins: what it will save opens only what it is there to open.
LEMMA StartNext ==
    ASSUME AccessInv, NEW kind \in {"links", "rotate-page"} \cup Rerendering, NEW pc, NEW new, NEW target,
           pc = IF kind \in Opening THEN "enable" ELSE IF kind = "update" THEN "pull" ELSE "write",
           IsSettings(new),
           kind \in Opening => new.enabled,
           kind = "web-off" => ~new.enabled,
           kind = "panel-off" => ~new.panel,
           kind \notin Opening \cup {"web-off"} => new.enabled = settings.enabled,
           kind \notin {"panel-on", "panel-off"} => new.panel = settings.panel,
           Start(kind, pc, new, target)
    PROVE  AccessInv'
<1> USE DEF AccessInv, Types, Start, Idle, Free, Rerendering, Opening, Before, Installing, Undoing, After,
            Activating
<1> DEFINE onSoundGround == conf = loaded /\ conf = Rendered /\ journal.phase = "none"
<1>a. onSoundGround \in BOOLEAN
  OBVIOUS
<1>b. last' = [kind |-> kind, outcome |-> "none", settings |-> settings, conf |-> conf,
               sound |-> onSoundGround]
  BY DEF Start
<1> HIDE DEF onSoundGround
<1>e. last'.sound = onSoundGround
  BY <1>b
<1>c. last'.sound => conf = loaded /\ journal.phase = "none"
  BY <1>e DEF onSoundGround
<1> HIDE DEF Start
<1>d. /\ op' = [kind |-> kind, pc |-> pc, new |-> new, target |-> target, saved |-> NoFile,
                prepared |-> FALSE]
      /\ closed' = closed \ (IF kind \in {"setup", "web-on"} THEN {"enabled"}
                             ELSE IF kind = "panel-on" THEN {"panel"} ELSE {})
      /\ op.kind = "none"
      /\ UNCHANGED <<settings, conf, loaded, journal, socket, code, faults, kills>>
  BY DEF Start, nginx, processes
<1>1. Types'
  BY <1>a, <1>b, <1>d DEF IsSettings, NoFile, Config
<1>2. Agreement' /\ UndoAgreement' /\ Saved'
  BY <1>d DEF Agreement, UndoAgreement, Saved
<1>3. ASSUME NEW s \in closed' PROVE Closed(s)'
  BY <1>b, <1>d, <1>3 DEF Closed, Switches
<1>4. Restorable'
  BY <1>b, <1>c, <1>d DEF Restorable
<1>5. SuccessIsInForce' /\ FailureRestores'
  BY <1>d DEF SuccessIsInForce, FailureRestores, Settled
<1> QED
  BY <1>1, <1>2, <1>3, <1>4, <1>5

LEMMA CommandNext == AccessInv /\ Command => AccessInv'
<1> SUFFICES ASSUME AccessInv, Command PROVE AccessInv'
  OBVIOUS
<1>0. IsSettings(settings)
  BY DEF AccessInv, Types
<1>1. CASE Setup
  <2> DEFINE provisioned == provision_pages(settings, sub, "none")
             protected == [provisioned EXCEPT !.password = TRUE]
             new == [protected EXCEPT !.enabled = TRUE]
  <2>1. IsSettings(provisioned) /\ provisioned.panel = settings.panel
    BY <1>0, ProvisionKeeps
  <2>2. Start("setup", "enable", new, "none")
    BY <1>1 DEF Setup
  <2> HIDE DEF provisioned
  <2>3. IsSettings(protected) /\ protected.panel = settings.panel
    BY <2>1, PasswordKeeps
  <2> HIDE DEF protected
  <2>4. IsSettings(new) /\ new.enabled = TRUE /\ new.panel = settings.panel
    BY <2>3, SwitchKeeps
  <2> HIDE DEF new
  <2> QED
    BY <2>2, <2>4, StartNext DEF Rerendering, Opening
<1>2. CASE WebOn
  <2> DEFINE new == [settings EXCEPT !.enabled = TRUE]
  <2>1. IsSettings(new) /\ new.enabled = TRUE /\ new.panel = settings.panel
    BY <1>0, SwitchKeeps
  <2>2. Start("web-on", "enable", new, "none")
    BY <1>2 DEF WebOn
  <2> HIDE DEF new
  <2> QED
    BY <2>1, <2>2, StartNext DEF Rerendering, Opening
<1>3. CASE WebOff
  <2> DEFINE new == [settings EXCEPT !.enabled = FALSE]
  <2>1. IsSettings(new) /\ new.enabled = FALSE /\ new.panel = settings.panel
    BY <1>0, SwitchKeeps
  <2>2. Start("web-off", "write", new, "none")
    BY <1>3 DEF WebOff
  <2> HIDE DEF new
  <2> QED
    BY <2>1, <2>2, StartNext DEF Rerendering, Opening
<1>4. CASE Links
  BY <1>0, <1>4, ProvisionKeeps, StartNext DEF Links, Rerendering, Opening
<1>5. CASE Update
  BY <1>0, <1>5, StartNext DEF Update, Rerendering, Opening
<1>6. ASSUME NEW on \in BOOLEAN, Panel(on) PROVE AccessInv'
  BY <1>0, <1>6, StartNext DEF Panel, Rerendering, Opening, IsSettings
<1>7. ASSUME NEW c \in Clients, RotatePage(c) PROVE AccessInv'
  BY <1>0, <1>7, ProvisionKeeps, StartNext DEF RotatePage, Rerendering, Opening
<1> QED
  BY <1>1, <1>2, <1>3, <1>4, <1>5, <1>6, <1>7 DEF Command

\* Up to the saved switches.
LEMMA WritingNext ==
    ASSUME AccessInv, Pull \/ EnableSocket \/ (WriteSettings /\ op.kind \in Rerendering)
    PROVE  AccessInv'
<1> USE DEF AccessInv, Free, Before, Installing, Undoing, After, Activating, Rerendering, Opening
<1>1. PICK new, pc : /\ op' = [op EXCEPT !.pc = pc, !.new = new]
                     /\ IsSettings(new)
                     /\ \/ new.enabled = op.new.enabled /\ new.panel = op.new.panel
                        \/ /\ op.kind = "update"
                           /\ new.enabled = settings.enabled /\ new.panel = settings.panel
                     /\ pc = IF op.pc = "write" THEN "recover" ELSE "write"
                     /\ pc = "recover" => settings' = new /\ new = op.new
                     /\ pc = "write" => settings' = settings
  <2>1. CASE Pull
    BY <2>1, ProvisionKeeps DEF Pull, At, Types
  <2>2. CASE EnableSocket
    BY <2>2 DEF EnableSocket, At, Goto, Types
  <2>3. CASE WriteSettings /\ op.kind \in Rerendering
    <3>1. op' = [op EXCEPT !.pc = "recover", !.new = op.new] /\ op.pc = "write" /\ settings' = op.new
      BY <2>3 DEF WriteSettings, At, Goto, Types
    <3> WITNESS op.new, "recover"
    <3> QED
      BY <3>1 DEF Types
  <2> QED
    BY <2>1, <2>2, <2>3
<1>2. /\ UNCHANGED <<conf, loaded, journal, last, closed, faults, kills>>
      /\ op.pc \in {"pull", "enable", "write"} /\ op.kind \in Rerendering
      /\ code' \in Nat /\ socket' \in BOOLEAN
      /\ op.pc = "enable" => socket' = TRUE
      /\ op.pc # "enable" => socket' = socket
  <2> USE DEF Types, At, Goto, NoFault, Rest, nginx, processes
  <2>1. CASE Pull
    BY <2>1 DEF Pull
  <2>2. CASE EnableSocket
    BY <2>2 DEF EnableSocket
  <2>3. CASE WriteSettings /\ op.kind \in Rerendering
    BY <2>3 DEF WriteSettings
  <2> QED
    BY <2>1, <2>2, <2>3
<1>3. op'.kind = op.kind /\ op'.pc = pc /\ op'.new = new /\ op'.saved = op.saved /\ op'.prepared = op.prepared
  BY <1>1 DEF Types
<1>4. Types'
  BY <1>1, <1>2, <1>3 DEF Types
<1>5. Agreement' /\ UndoAgreement' /\ Saved'
  BY <1>1, <1>2, <1>3 DEF Types, Agreement, UndoAgreement, Saved
<1>6. ASSUME NEW s \in closed' PROVE Closed(s)'
  BY <1>1, <1>2, <1>3, <1>6 DEF Types, Closed, Switches
<1>7. Restorable'
  BY <1>1, <1>2, <1>3 DEF Types, Restorable
<1>8. SuccessIsInForce' /\ FailureRestores'
  BY <1>1, <1>2, <1>3 DEF SuccessIsInForce, FailureRestores, Settled
<1> QED
  BY <1>4, <1>5, <1>6, <1>7, <1>8

\* A command ends, whatever its outcome: what a new one will find.
LEMMA EndNext ==
    ASSUME AccessInv, ~Free, NEW outcome, End(outcome),
           UNCHANGED <<conf, loaded, journal>>,
           IsSettings(settings'), code' \in Nat, socket' \in BOOLEAN, faults' \in Nat, kills' \in Nat,
           journal.phase # "prepared" => loaded = conf,
           closed' \subseteq Switches,
           \A s \in closed' : /\ ~loaded[s] /\ ~conf[s] /\ ~settings'[s]
                              /\ journal.phase = "prepared" => ~journal.saved[s],
           outcome = "ok" => SuccessIsInForce',
           outcome = "failed" => FailureRestores'
    PROVE  AccessInv'
<1> USE DEF AccessInv, Types, Free, Before, Installing, Undoing, After, Activating, Rerendering, Opening
<1>1. /\ op' = [kind |-> "none", pc |-> "idle", new |-> settings, target |-> "none", saved |-> NoFile,
                prepared |-> FALSE]
      /\ last' = [last EXCEPT !.outcome = outcome]
  BY DEF Idle, End
<1>2. /\ last' = [kind |-> last'.kind, outcome |-> last'.outcome, settings |-> last'.settings,
                  conf |-> last'.conf, sound |-> last'.sound]
      /\ last'.kind = last.kind /\ last'.outcome = outcome /\ last'.settings = last.settings
      /\ last'.conf = last.conf /\ last'.sound = last.sound
  BY <1>1
<1>3. Types'
  BY <1>1, <1>2 DEF NoFile, Config
<1>4. Agreement' /\ UndoAgreement' /\ Saved'
  BY <1>1 DEF Agreement, UndoAgreement, Saved
<1>5. ASSUME NEW s \in closed' PROVE Closed(s)'
  BY <1>1, <1>5 DEF Closed
<1>6. Restorable'
  BY <1>1 DEF Restorable
<1>7. SuccessIsInForce' /\ FailureRestores'
  BY <1>2 DEF SuccessIsInForce, FailureRestores, Settled
<1> QED
  BY <1>3, <1>4, <1>5, <1>6, <1>7

\* A command gives up, or saves what nginx need not know.
LEMMA GivingUpNext ==
    ASSUME AccessInv,
           \/ PullFails \/ EnableFails \/ WriteSettingsFails \/ PutBackFails
           \/ WriteSettings /\ op.kind \notin Rerendering
    PROVE  AccessInv'
<1> USE WebAssumption
    DEF AccessInv, Types, Free, Before, Installing, Undoing, After, Activating, Fault, NoFault, Rest, At, nginx, processes
<1>1. PICK outcome : End(outcome) /\ outcome # "failed" /\ (outcome = "ok" => op.kind \notin Rerendering)
  <2>1. CASE PullFails \/ EnableFails \/ WriteSettingsFails \/ PutBackFails
    <3>1. End("refused")
      BY <2>1 DEF PullFails, EnableFails, WriteSettingsFails, PutBackFails
    <3> QED
      BY <3>1
  <2>2. CASE WriteSettings /\ op.kind \notin Rerendering
    <3>1. End("ok")
      BY <2>2 DEF WriteSettings
    <3> QED
      BY <2>2, <3>1
  <2> QED
    BY <2>1, <2>2
<1>2. /\ ~Free /\ op.pc \in {"pull", "enable", "write", "putback"}
      /\ UNCHANGED <<conf, loaded, journal, closed>>
      /\ settings' \in {settings, op.new, last.settings}
      /\ code' \in Nat /\ socket' \in BOOLEAN /\ faults' \in Nat /\ kills' \in Nat
  <2>1. CASE PullFails
    BY <2>1 DEF PullFails
  <2>2. CASE EnableFails
    <3>1. socket' \in BOOLEAN
      BY <2>2 DEF EnableFails
    <3> QED
      BY <2>2, <3>1 DEF EnableFails
  <2>3. CASE WriteSettingsFails \/ PutBackFails
    BY <2>3 DEF WriteSettingsFails, PutBackFails
  <2>4. CASE WriteSettings /\ op.kind \notin Rerendering
    BY <2>4 DEF WriteSettings
  <2> QED
    BY <2>1, <2>2, <2>3, <2>4
<1>3. outcome = "ok" => SuccessIsInForce'
  BY <1>1, <1>2 DEF SuccessIsInForce, Settled, End
<1>4. \A s \in closed' : /\ ~loaded[s] /\ ~conf[s] /\ ~settings'[s]
                         /\ journal.phase = "prepared" => ~journal.saved[s]
  BY <1>2 DEF Closed
<1>5. (journal.phase # "prepared" => loaded = conf) /\ IsSettings(settings')
  BY <1>2 DEF Agreement
<1> QED
  BY <1>1, <1>2, <1>3, <1>4, <1>5, EndNext

\* What the switches were is put back, and the socket of a failed opening shut.
LEMMA PutBackNext ==
    ASSUME AccessInv, PutBack \/ Shut
    PROVE  AccessInv'
<1> USE WebAssumption
    DEF AccessInv, Types, Free, Before, Installing, Undoing, After, Activating, Opening, Rerendering, Fault, NoFault, Rest,
        At, nginx, processes
<1>1. /\ ~Free /\ op.pc \in {"putback", "shut"}
      /\ UNCHANGED <<conf, loaded, journal, closed, code>>
      /\ settings' \in {settings, last.settings}
      /\ op.kind # "update" /\ last.sound => settings' = last.settings
      /\ socket' \in BOOLEAN /\ faults' \in Nat /\ kills' \in Nat
  <2>1. CASE PutBack
    BY <2>1 DEF PutBack
  <2>2. CASE Shut
    <3>1. op.pc = "shut" /\ settings' = settings
      BY <2>2 DEF Shut
    <3>2. op.kind # "update" /\ last.sound => settings = last.settings
      BY <3>1, <2>2 DEF Restorable, Shut
    <3>3. op.kind # "update" /\ last.sound => settings' = last.settings
      BY <3>1, <3>2
    <3>4. socket' \in BOOLEAN
      BY <2>2 DEF Shut
    <3>5. NoFault \/ Fault
      BY <2>2, Zenon DEF Shut
    <3>6. faults' \in Nat /\ kills' \in Nat
      BY <3>5
    <3> QED
      BY <2>2, <3>1, <3>3, <3>4, <3>6 DEF Shut
  <2> QED
    BY <2>1, <2>2
<1>2. \A s \in closed' : /\ ~loaded[s] /\ ~conf[s] /\ ~settings'[s]
                         /\ journal.phase = "prepared" => ~journal.saved[s]
  BY <1>1 DEF Closed
<1>3. (journal.phase # "prepared" => loaded = conf) /\ IsSettings(settings')
  BY <1>1 DEF Agreement
<1>4. ASSUME End("failed") PROVE AccessInv'
  <2>1. /\ last'.kind = last.kind /\ last'.settings = last.settings /\ last'.conf = last.conf
        /\ last'.sound = last.sound
    BY <1>4 DEF End
  <2>2. FailureRestores'
    BY <1>1, <2>1 DEF FailureRestores, Settled, Restorable
  <2> QED
    BY <1>1, <1>2, <1>3, <1>4, <2>2, EndNext
<1>5. CASE PutBack /\ op.kind \in Opening /\ ~last.settings.enabled
  <2>1. /\ op' = [op EXCEPT !.pc = "shut"] /\ last' = last
        /\ settings' = last.settings /\ op.kind \in Opening /\ socket' = socket
        /\ op.pc = "putback"
    BY <1>5 DEF Goto, PutBack
  <2>2. Types'
    BY <1>1, <1>3, <2>1
  <2>3. Agreement' /\ UndoAgreement' /\ Saved'
    BY <1>1, <2>1 DEF Agreement, UndoAgreement, Saved
  <2>4. ASSUME NEW s \in closed' PROVE Closed(s)'
    BY <1>1, <2>1, <2>4 DEF Closed
  <2>5. Restorable'
    BY <1>1, <2>1 DEF Restorable
  <2>6. SuccessIsInForce' /\ FailureRestores'
    BY <2>1 DEF SuccessIsInForce, FailureRestores, Settled
  <2> QED
    BY <2>2, <2>3, <2>4, <2>5, <2>6
<1> QED
  BY <1>4, <1>5 DEF PutBack, Shut

\* What follows a successful activation.
LEMMA TailNext ==
    ASSUME AccessInv, Tail \/ TailFails
    PROVE  AccessInv'
<1> USE WebAssumption
    DEF AccessInv, Types, Free, Before, Installing, Undoing, After, Activating, Opening, Rerendering, Fault, NoFault, Rest,
        At, nginx, processes
<1>1. PICK outcome : End(outcome) /\ outcome # "failed" /\ (outcome = "ok" => Tail)
  BY DEF Tail, TailFails
<1>2. /\ ~Free /\ op.pc = "tail"
      /\ UNCHANGED <<conf, loaded, journal, settings, code>>
      /\ closed' = closed \cup Closing
      /\ socket' \in BOOLEAN /\ faults' \in Nat /\ kills' \in Nat
  BY DEF Tail, TailFails, IsSettings
<1>3. conf = Rendered /\ loaded = conf /\ journal.phase # "prepared" /\ settings = op.new
  BY <1>2 DEF Agreement, Saved
<1>4. closed' \subseteq Switches
  BY <1>2 DEF Closing, Switches
<1>5. ASSUME NEW s \in closed'
      PROVE  ~loaded[s] /\ ~conf[s] /\ ~settings'[s]
  <2>1. CASE s \in closed
    BY <1>2, <2>1 DEF Closed
  <2>2. CASE s \in Closing
    BY <1>2, <1>3, <2>2 DEF Closing, Saved, Rendered
  <2> QED
    BY <1>2, <1>5, <2>1, <2>2
<1>6. ASSUME outcome = "ok" PROVE SuccessIsInForce'
  <2>1. Rendered' = Rendered
    BY <1>2 DEF Rendered
  <2>2. op.kind \notin {"panel-on", "panel-off"} => socket' = settings'.enabled
    BY <1>1, <1>2, <1>3, <1>6 DEF Tail, Saved, IsSettings
  <2> QED
    BY <1>1, <1>2, <1>3, <2>1, <2>2 DEF SuccessIsInForce, Settled, End
<1> QED
  BY <1>1, <1>2, <1>3, <1>4, <1>5, <1>6, EndNext

LEMMA KillNext == AccessInv /\ Kill => AccessInv'
<1> SUFFICES ASSUME AccessInv, Kill PROVE AccessInv'
  OBVIOUS
<1> USE WebAssumption DEF AccessInv, Types, nginx, processes
<1>1. /\ ~Free /\ End("killed") /\ kills' \in Nat /\ kills < MaxKills
      /\ UNCHANGED <<conf, loaded, journal, settings, code, socket, closed, faults>>
  BY DEF Kill
<1>2. journal.phase # "prepared" => loaded = conf
  BY <1>1 DEF Agreement, UndoAgreement, Quiet, Prepared, Free, Before, Installing, Undoing, After
<1>3. \A s \in closed' : /\ ~loaded[s] /\ ~conf[s] /\ ~settings'[s]
                         /\ journal.phase = "prepared" => ~journal.saved[s]
  BY <1>1 DEF Closed
<1> QED
  BY <1>1, <1>2, <1>3, EndNext

-----------------------------------------------------------------------------
(* Beside the commands *)

\* Rotations and rebindings change the page addresses, and hold the lock.
LEMMA RebindingNext ==
    ASSUME AccessInv, Free, UNCHANGED <<conf, loaded, journal, socket, code, op, last, closed, kills>>,
           IsSettings(settings'), settings'.enabled = settings.enabled, settings'.panel = settings.panel,
           faults' \in Nat
    PROVE  AccessInv'
<1> USE DEF AccessInv, Free, Before, Installing, Undoing, After, Activating, Rerendering, Opening
<1>1. Rendered' = Rendered
  BY DEF Rendered
<1>2. Types'
  BY DEF Types
<1>3. Agreement' /\ UndoAgreement' /\ Saved'
  BY <1>1 DEF Types, Agreement, UndoAgreement, Saved
<1>4. ASSUME NEW s \in closed' PROVE Closed(s)'
  BY <1>4 DEF Types, Closed, Switches
<1>5. Restorable'
  BY DEF Restorable
<1>6. SuccessIsInForce' /\ FailureRestores'
  BY <1>1 DEF SuccessIsInForce, FailureRestores, Settled, Switches
<1> QED
  BY <1>2, <1>3, <1>4, <1>5, <1>6

LEMMA RotatedNext ==
    ASSUME AccessInv, Free, NEW c, Rotated(c)
    PROVE  AccessInv'
<1> USE DEF AccessInv, Types, Rotated, nginx, processes
<1>1. settings' = settings \/ settings' = Rebound(settings, c, sub[c], sub[c] + 1)
  OBVIOUS
<1>2. IsSettings(settings') /\ settings'.enabled = settings.enabled /\ settings'.panel = settings.panel
  BY <1>1, ReboundKeeps
<1> QED
  BY <1>2, RebindingNext

LEMMA BesideNext == AccessInv /\ Beside => AccessInv'
<1> SUFFICES ASSUME AccessInv, Beside PROVE AccessInv'
  OBVIOUS
<1>1. CASE Kill
  BY <1>1, KillNext
<1>2. CASE Renew
  <2> USE DEF AccessInv, processes, bounds
  <2>1. loaded' = conf /\ loaded # conf /\ UNCHANGED <<settings, conf, journal, socket, code, op, last, closed, faults, kills>>
    BY <1>2 DEF Renew
  <2>2. Rendered' = Rendered
    BY <2>1 DEF Rendered
  <2>3. Types' /\ Saved'
    BY <2>1 DEF Types, Saved, Free
  <2>4. Agreement' /\ UndoAgreement'
    BY <2>1, <2>2 DEF Agreement, UndoAgreement, Prepared, Quiet
  <2>5. ASSUME NEW s \in closed' PROVE Closed(s)'
    BY <2>1, <2>5 DEF Closed, Free
  <2>6. Restorable'
    BY <2>1 DEF Restorable, Free
  <2>7. SuccessIsInForce' /\ FailureRestores'
    BY <2>1, <2>2 DEF SuccessIsInForce, FailureRestores, Settled, Free
  <2> QED
    BY <2>3, <2>4, <2>5, <2>6, <2>7
<1>3. CASE Visit \/ (\E c \in Clients : TaskBegins(c)) \/ TaskLoads \/ TaskDies
  <2> USE DEF AccessInv, nginx, processes, bounds
  <2>1. /\ UNCHANGED <<settings, conf, loaded, journal, socket, code, op, last, closed, faults>>
        /\ kills' = kills \/ (kills' = kills + 1 /\ kills < MaxKills)
    BY <1>3 DEF Visit, TaskBegins, TaskLoads, TaskDies
  <2>2. Rendered' = Rendered
    BY <2>1 DEF Rendered
  <2>3. Types' /\ Saved'
    BY <2>1 DEF Types, Saved, Free
  <2>4. Agreement' /\ UndoAgreement'
    BY <2>1, <2>2, WebAssumption DEF Agreement, UndoAgreement, Prepared, Quiet
  <2>5. ASSUME NEW s \in closed' PROVE Closed(s)'
    BY <2>1, <2>5 DEF Closed, Free
  <2>6. Restorable'
    BY <2>1 DEF Restorable, Free
  <2>7. SuccessIsInForce' /\ FailureRestores'
    BY <2>1, <2>2 DEF SuccessIsInForce, FailureRestores, Settled, Free
  <2> QED
    BY <2>3, <2>4, <2>5, <2>6, <2>7
<1>4. ASSUME NEW c \in Clients, TerminalRotation(c) PROVE AccessInv'
  BY <1>4, RotatedNext DEF TerminalRotation
<1>5. CASE TaskRotates
  BY <1>5, RotatedNext DEF TaskRotates
<1>6. CASE TaskRebinds
  <2> DEFINE rebound == Rebound(settings, task.client, task.before, task.after[task.client])
  <2>1. settings' = provision_pages(rebound, task.after, "none")
    BY <1>6 DEF TaskRebinds
  <2>2. IsSettings(rebound) /\ rebound.enabled = settings.enabled /\ rebound.panel = settings.panel
    BY ReboundKeeps DEF AccessInv, Types
  <2> HIDE DEF rebound
  <2>3. IsSettings(settings') /\ settings'.enabled = settings.enabled /\ settings'.panel = settings.panel
    BY <2>1, <2>2, ProvisionKeeps
  <2> QED
    BY <1>6, <2>3, RebindingNext DEF TaskRebinds, AccessInv, Types, nginx, processes, bounds
<1> QED
  BY <1>1, <1>2, <1>3, <1>4, <1>5, <1>6 DEF Beside

-----------------------------------------------------------------------------
LEMMA AccessNext == EarlyFaults /\ AccessInv /\ [Next]_vars => AccessInv'
<1> SUFFICES ASSUME EarlyFaults, AccessInv, [Next]_vars PROVE AccessInv'
  OBVIOUS
<1>1. CASE Command
  BY <1>1, CommandNext
<1>2. CASE Beside
  BY <1>2, BesideNext
<1>3. CASE Progress
  BY <1>3, WritingNext, GivingUpNext, PutBackNext, TailNext, ActivationNext
     DEF Progress, ActivationStep, Recovering, Preparing, Replacing, Committing, RollingBack
<1>4. CASE UNCHANGED vars
  BY <1>4 DEF vars, nginx, processes, pages, bounds, AccessInv, Types, Agreement, UndoAgreement, Saved, Closed,
              Restorable, SuccessIsInForce, FailureRestores, Settled, Free, Prepared, Quiet, Rendered
<1> QED
  BY <1>1, <1>2, <1>3, <1>4 DEF Next

\* A switch of the pages or the panel that reports success is in force: nginx
\* runs with what the settings say (web_manage.execute, run_post_update).
THEOREM SwitchesTakeEffect == ASSUME EarlyFaults PROVE Spec => []SuccessIsInForce
<1>1. AccessInv => SuccessIsInForce
  BY DEF AccessInv
<1> QED
  BY <1>1, AccessInit, AccessNext, PTL DEF Spec

\* A switch that fails leaves the settings, the file and nginx as they were, or
\* the journal that will restore them (web_manage.execute).
THEOREM FailedSwitchesAreTakenBack == ASSUME EarlyFaults PROVE Spec => []FailureRestores
<1>1. AccessInv => FailureRestores
  BY DEF AccessInv
<1> QED
  BY <1>1, AccessInit, AccessNext, PTL DEF Spec

\* What was reported closed stays closed until it is opened again
\* (activate_nginx_files, _recover_nginx_file_journal).
THEOREM ClosingIsFinal == ASSUME EarlyFaults PROVE Spec => []ClosedStaysClosed
<1>1. AccessInv => ClosedStaysClosed
  BY DEF AccessInv, ClosedStaysClosed, Closed
<1> QED
  BY <1>1, AccessInit, AccessNext, PTL DEF Spec

-----------------------------------------------------------------------------
(* Page addresses *)

HasPages(s) ==
    /\ s = [enabled |-> s.enabled, panel |-> s.panel, password |-> s.password, pages |-> s.pages]
    /\ s.pages = [c \in Clients |-> [token |-> s.pages[c].token, binding |-> s.pages[c].binding]]

PageOpens(c) == settings.pages[c].token # 0 /\ settings.pages[c].binding = sub[c]

\* What a command is about to save leaves the addresses of the pages that open.
KeepsPages(new) == \A c \in Clients : PageOpens(c) => new.pages[c].token = settings.pages[c].token

PageShapes ==
    /\ HasPages(settings) /\ HasPages(op.new) /\ HasPages(last.settings)
    /\ op = [kind |-> op.kind, pc |-> op.pc, new |-> op.new, target |-> op.target,
             saved |-> op.saved, prepared |-> op.prepared]
    /\ last = [kind |-> last.kind, outcome |-> last.outcome, settings |-> last.settings,
               conf |-> last.conf, sound |-> last.sound]
    /\ task = [step |-> task.step, client |-> task.client, before |-> task.before, after |-> task.after]
    /\ task.client \in Clients
    /\ op.kind \in {"none", "links", "rotate-page"} \cup Rerendering
    /\ Free <=> op.pc = "idle"
    /\ op.kind \notin Rerendering => op.pc \in {"idle", "write"}
    /\ op.pc = "enable" => op.kind \in Opening
    /\ op.pc = "pull" => op.kind = "update"

PageInv ==
    /\ PageShapes
    /\ op.kind \in Rerendering \ {"setup", "update"} =>
          op.new.pages = settings.pages /\ last.settings.pages = settings.pages
    /\ op.kind \in {"links", "update"} /\ op.pc = "write" => KeepsPages(op.new)
    /\ task.step = "loaded" => task.after = sub

\* Nobody rotates a subscription between what a portal's task read and the
\* rebinding it does with that.
Undisturbed == task.step = "loaded" => UNCHANGED sub

\* At most one rotation.
OneRotation == MaxRotations <= 1
RotationInv == rotations \in Nat /\ (task.step \in {"rotated", "loaded"} => rotations > 0)

\* A client's page is given a new address, or left as it is.
LEMMA ProvisionPages ==
    ASSUME NEW s, HasPages(s), NEW tokens, NEW rotate
    PROVE  /\ HasPages(provision_pages(s, tokens, rotate))
           /\ \A c \in Clients \ Unbound(s, tokens, rotate) :
                 provision_pages(s, tokens, rotate).pages[c] = s.pages[c]
<1> DEFINE addresses == [c \in Clients |-> IF c \in Unbound(s, tokens, rotate)
                                       THEN [token |-> issued[c] + 1, binding |-> tokens[c]]
                                       ELSE s.pages[c]]
<1>1. provision_pages(s, tokens, rotate)
        = [enabled |-> s.enabled, panel |-> s.panel, password |-> s.password, pages |-> addresses]
  <2>1. provision_pages(s, tokens, rotate) = [s EXCEPT !.pages = addresses]
    BY DEF provision_pages
  <2>2. s = [enabled |-> s.enabled, panel |-> s.panel, password |-> s.password, pages |-> s.pages]
    BY DEF HasPages
  <2> HIDE DEF addresses
  <2> QED
    BY <2>1, <2>2
<1>2. \A c \in Clients : addresses[c] = [token |-> addresses[c].token, binding |-> addresses[c].binding]
  BY DEF HasPages
<1>3. \A c \in Clients \ Unbound(s, tokens, rotate) : addresses[c] = s.pages[c]
  OBVIOUS
<1>4. addresses = [c \in Clients |-> [token |-> addresses[c].token, binding |-> addresses[c].binding]]
  BY <1>2
<1> HIDE DEF addresses
<1> QED
  BY <1>1, <1>3, <1>4 DEF HasPages

\* Switches and the password leave the pages alone.
LEMMA SwitchPages ==
    ASSUME NEW s, HasPages(s), NEW v
    PROVE  /\ HasPages([s EXCEPT !.enabled = v]) /\ [s EXCEPT !.enabled = v].pages = s.pages
           /\ HasPages([s EXCEPT !.panel = v]) /\ [s EXCEPT !.panel = v].pages = s.pages
           /\ HasPages([s EXCEPT !.password = v]) /\ [s EXCEPT !.password = v].pages = s.pages
<1>1. [s EXCEPT !.enabled = v]
        = [enabled |-> v, panel |-> s.panel, password |-> s.password, pages |-> s.pages]
  BY DEF HasPages
<1>2. [s EXCEPT !.panel = v]
        = [enabled |-> s.enabled, panel |-> v, password |-> s.password, pages |-> s.pages]
  BY DEF HasPages
<1>3. [s EXCEPT !.password = v]
        = [enabled |-> s.enabled, panel |-> s.panel, password |-> v, pages |-> s.pages]
  BY DEF HasPages
<1> QED
  BY <1>1, <1>2, <1>3 DEF HasPages

\* A rebinding changes what one page is bound to, never an address.
LEMMA ReboundPages ==
    ASSUME NEW s, HasPages(s), NEW c \in Clients, NEW before, NEW after,
           NEW r, r = Rebound(s, c, before, after)
    PROVE  /\ HasPages(r)
           /\ \A d \in Clients :
                 /\ r.pages[d].token = s.pages[d].token
                 /\ r.pages[d].binding = s.pages[d].binding \/ (d = c /\ r.pages[d].binding = after)
<1>1. CASE ~(s.pages[c].binding = before /\ s.pages[c].token # 0)
  BY <1>1 DEF Rebound
<1>2. CASE s.pages[c].binding = before /\ s.pages[c].token # 0
  <2> DEFINE addresses == [s.pages EXCEPT ![c] = [token |-> s.pages[c].token, binding |-> after]]
  <2>1. [s.pages[c] EXCEPT !.binding = after] = [token |-> s.pages[c].token, binding |-> after]
    BY DEF HasPages
  <2>2. r = [s EXCEPT !.pages = addresses]
    BY <1>2, <2>1 DEF Rebound
  <2>3. r = [enabled |-> s.enabled, panel |-> s.panel, password |-> s.password, pages |-> addresses]
    BY <2>2 DEF HasPages
  <2>4. \A d \in Clients : addresses[d] = IF d = c THEN [token |-> s.pages[d].token, binding |-> after]
                                      ELSE s.pages[d]
    BY DEF HasPages
  <2>5. addresses = [d \in Clients |-> [token |-> addresses[d].token, binding |-> addresses[d].binding]]
    BY DEF HasPages
  <2> HIDE DEF addresses
  <2>6. HasPages(r)
    BY <2>3, <2>5 DEF HasPages
  <2>7. ASSUME NEW d \in Clients
        PROVE  /\ r.pages[d].token = s.pages[d].token
               /\ r.pages[d].binding = s.pages[d].binding \/ (d = c /\ r.pages[d].binding = after)
    <3>1. r.pages[d] = addresses[d]
      BY <2>3
    <3>2. CASE d = c
      <4>1. addresses[d] = [token |-> s.pages[d].token, binding |-> after]
        BY <2>4, <3>2
      <4>2. addresses[d].token = s.pages[d].token /\ addresses[d].binding = after
        BY <4>1
      <4> QED
        BY <3>1, <3>2, <4>2
    <3>3. CASE d # c
      BY <2>4, <3>1, <3>3
    <3> QED
      BY <3>2, <3>3
  <2> QED
    BY <2>6, <2>7
<1> QED
  BY <1>1, <1>2

LEMMA PageInit == Init => PageInv /\ RotationInv
<1> SUFFICES ASSUME Init PROVE PageInv /\ RotationInv
  OBVIOUS
<1>1. HasPages(settings)
  BY DEF Init, HasPages
<1> QED
  BY <1>1 DEF Init, Idle, NoTask, PageInv, PageShapes, RotationInv, Clients, Free, Rerendering

-----------------------------------------------------------------------------
\* A command begins.
LEMMA PageStart ==
    ASSUME PageInv, NEW kind \in {"links", "rotate-page"} \cup Rerendering, NEW pc, NEW new, NEW target,
           Start(kind, pc, new, target), HasPages(new),
           pc = IF kind \in Opening THEN "enable" ELSE IF kind = "update" THEN "pull" ELSE "write",
           kind \in Rerendering \ {"setup", "update"} => new.pages = settings.pages,
           kind = "links" => KeepsPages(new)
    PROVE  PageInv'
<1> USE DEF PageInv, PageShapes
<1>1. /\ op' = [kind |-> kind, pc |-> pc, new |-> new, target |-> target, saved |-> NoFile,
                prepared |-> FALSE]
      /\ UNCHANGED <<settings, sub, task>>
      /\ last'.settings = settings
      /\ last' = [kind |-> last'.kind, outcome |-> last'.outcome, settings |-> last'.settings,
                  conf |-> last'.conf, sound |-> last'.sound]
  BY DEF Start, Idle
<1>2. KeepsPages(new) => KeepsPages(op.new)'
  BY <1>1 DEF KeepsPages, PageOpens
<1>3. PageShapes'
  BY <1>1 DEF Free, Rerendering, Opening, HasPages
<1>4. op'.kind \in Rerendering \ {"setup", "update"} =>
          op'.new.pages = settings'.pages /\ last'.settings.pages = settings'.pages
  BY <1>1
<1>5. op'.kind \in {"links", "update"} /\ op'.pc = "write" => KeepsPages(op.new)'
  BY <1>1, <1>2 DEF Rerendering, Opening
<1> QED
  BY <1>1, <1>3, <1>4, <1>5

LEMMA ProvisionKeepsPages ==
    ASSUME HasPages(settings)
    PROVE  HasPages(provision_pages(settings, sub, "none")) /\ KeepsPages(provision_pages(settings, sub, "none"))
<1>1. \A c \in Clients : PageOpens(c) => c \notin Unbound(settings, sub, "none")
  BY DEF PageOpens, Unbound, Clients
<1> QED
  BY <1>1, ProvisionPages DEF KeepsPages

LEMMA PageCommand == PageInv /\ Command => PageInv'
<1> SUFFICES ASSUME PageInv, Command PROVE PageInv'
  OBVIOUS
<1>0. HasPages(settings)
  BY DEF PageInv, PageShapes
<1>1. CASE Setup
  <2> DEFINE new == provision_pages(settings, sub, "none")
             first == [new EXCEPT !.password = TRUE]
             second == [first EXCEPT !.enabled = TRUE]
  <2>1. HasPages(new)
    BY <1>0, ProvisionPages
  <2>2. Start("setup", "enable", second, "none")
    BY <1>1 DEF Setup
  <2> HIDE DEF new
  <2>3. HasPages(first)
    BY <2>1, SwitchPages
  <2> HIDE DEF first
  <2>4. HasPages(second)
    BY <2>3, SwitchPages
  <2> HIDE DEF second
  <2> QED
    BY <2>2, <2>4, PageStart DEF Rerendering, Opening
<1>2. CASE WebOn \/ WebOff
  <2>1. PICK v \in BOOLEAN :
          \/ Start("web-on", "enable", [settings EXCEPT !.enabled = v], "none")
          \/ Start("web-off", "write", [settings EXCEPT !.enabled = v], "none")
    BY <1>2 DEF WebOn, WebOff
  <2> DEFINE new == [settings EXCEPT !.enabled = v]
  <2>2. HasPages(new) /\ new.pages = settings.pages
    BY <1>0, SwitchPages
  <2>3. Start("web-on", "enable", new, "none") \/ Start("web-off", "write", new, "none")
    BY <2>1
  <2> HIDE DEF new
  <2> QED
    BY <2>2, <2>3, PageStart DEF Rerendering, Opening
<1>3. ASSUME NEW on \in BOOLEAN, Panel(on) PROVE PageInv'
  <2> DEFINE new == [settings EXCEPT !.panel = on]
             kind == IF on THEN "panel-on" ELSE "panel-off"
  <2>1. HasPages(new) /\ new.pages = settings.pages
    BY <1>0, SwitchPages
  <2>2. Start(kind, "write", new, "none") /\ kind \in {"panel-on", "panel-off"}
    BY <1>3 DEF Panel
  <2> HIDE DEF new, kind
  <2> QED
    BY <2>1, <2>2, PageStart DEF Rerendering, Opening
<1>4. CASE Links
  BY <1>0, <1>4, ProvisionKeepsPages, PageStart DEF Links, Rerendering, Opening
<1>5. ASSUME NEW c \in Clients, RotatePage(c) PROVE PageInv'
  BY <1>0, <1>5, ProvisionPages, PageStart DEF RotatePage, Rerendering, Opening
<1>6. CASE Update
  BY <1>0, <1>6, PageStart DEF Update, Rerendering, Opening
<1> QED
  BY <1>1, <1>2, <1>3, <1>4, <1>5, <1>6 DEF Command

-----------------------------------------------------------------------------
\* Between saving and ending, a command is busy with nginx.
LEMMA PageActivation ==
    ASSUME PageInv, ActivationStep
    PROVE  PageInv'
<1> USE DEF PageInv, PageShapes
<1>1. /\ UNCHANGED <<settings, sub, task, last>>
      /\ op.pc \in Activating \ {"tail"} /\ op'.pc \in Activating \cup {"putback"}
      /\ op' = [op EXCEPT !.pc = op'.pc, !.saved = op'.saved, !.prepared = op'.prepared]
  <2> USE DEF Step, Trouble, Goto, At, Rest, processes, Installing, Undoing, Activating
  <2>1. CASE Recovering
    BY <2>1 DEF Recovering, RecoverNothing, RecoverCommitted, RecoverFiles, RecoverReload, RecoverDrop,
                RecoverFails
  <2>2. CASE Unchanged \/ PrepareFails
    BY <2>2 DEF Unchanged, PrepareFails
  <2>3. CASE Prepare
    BY <2>3 DEF Prepare
  <2>4. CASE Replacing
    BY <2>4 DEF Replacing, Replace, ReplaceFails, Test, TestFails, Reload, ReloadFails
  <2>5. CASE Committing
    BY <2>5 DEF Committing, Commit, CommitFails, CommitUnsynced, Drop, DropFails
  <2>6. CASE RollingBack
    BY <2>6 DEF RollingBack, Undo, UndoReload, UndoDrop, UndoFails
  <2> QED
    BY <2>1, <2>2, <2>3, <2>4, <2>5, <2>6 DEF ActivationStep, Preparing
<1>2. op' = [kind |-> op.kind, pc |-> op'.pc, new |-> op.new, target |-> op.target,
             saved |-> op'.saved, prepared |-> op'.prepared]
  BY <1>1
<1>3. op.pc \notin {"idle", "write", "enable", "pull"} /\ op'.pc \notin {"idle", "write", "enable", "pull"}
  BY <1>1 DEF Activating, Installing, Undoing
<1>4. op'.kind = op.kind /\ op'.new = op.new
  BY <1>2
<1>5. PageShapes'
  <2>1. HasPages(settings') /\ HasPages(op'.new) /\ HasPages(last'.settings)
    BY <1>1, <1>4
  <2>2. op' = [kind |-> op'.kind, pc |-> op'.pc, new |-> op'.new, target |-> op'.target,
               saved |-> op'.saved, prepared |-> op'.prepared]
    BY <1>2
  <2>3. /\ op'.kind \in {"none", "links", "rotate-page"} \cup Rerendering
        /\ op'.kind = "none" <=> op'.pc = "idle"
        /\ op'.kind \notin Rerendering => op'.pc \in {"idle", "write"}
    BY <1>3, <1>4 DEF Free
  <2>4. UNCHANGED <<last, task>>
    BY <1>1
  <2> QED
    BY <1>3, <2>1, <2>2, <2>3, <2>4 DEF Free
<1> QED
  BY <1>1, <1>3, <1>4, <1>5

\* A command ends.
LEMMA PageEnd ==
    ASSUME PageInv, NEW outcome, End(outcome), HasPages(settings'),
           UNCHANGED <<sub, task>>
    PROVE  PageInv'
<1> USE DEF PageInv, PageShapes
<1>1. op' = [kind |-> "none", pc |-> "idle", new |-> settings, target |-> "none", saved |-> NoFile,
             prepared |-> FALSE]
  BY DEF End, Idle
<1>2. last' = [last EXCEPT !.outcome = outcome]
  BY DEF End
<1>3. /\ last'.settings = last.settings
      /\ last' = [kind |-> last'.kind, outcome |-> last'.outcome, settings |-> last'.settings,
                  conf |-> last'.conf, sound |-> last'.sound]
  BY <1>2
<1>4. PageShapes'
  BY <1>1, <1>3 DEF HasPages, Free, Rerendering, Opening
<1> QED
  BY <1>1, <1>4 DEF Rerendering

\* A command moves to its next step, with the settings as they are or as it
\* is about to save them.
LEMMA PageGoto ==
    ASSUME PageInv, NEW pc \in {"write", "recover", "shut"}, ~Free, Goto(pc),
           HasPages(settings'), UNCHANGED <<sub, task>>,
           op.kind \in Rerendering \/ pc = "write",
           op.kind \in Rerendering \ {"setup", "update"} => settings'.pages = settings.pages,
           pc = "write" => op.kind \in Opening
    PROVE  PageInv'
<1> USE DEF PageInv, PageShapes
<1>1. op' = [kind |-> op.kind, pc |-> pc, new |-> op.new, target |-> op.target, saved |-> op.saved,
             prepared |-> op.prepared] /\ last' = last
  BY DEF Goto
<1>2. PageShapes'
  BY <1>1 DEF HasPages, Free, Rerendering, Opening
<1> QED
  BY <1>1, <1>2 DEF Opening

LEMMA PageProgress == PageInv /\ Progress => PageInv'
<1> SUFFICES ASSUME PageInv, Progress PROVE PageInv'
  OBVIOUS
<1> USE DEF PageInv, PageShapes, At, Rest, processes, nginx
<1>1. CASE Pull
  <2>1. /\ op.pc = "pull" /\ op.kind = "update" /\ ~Free
        /\ op'.pc = "write" /\ UNCHANGED <<settings, sub, task, last>>
    BY <1>1 DEF Pull, Free
  <2>2. PICK new \in {provision_pages(settings, sub, "none"), settings} :
           op' = [op EXCEPT !.pc = "write", !.new = new]
    BY <1>1 DEF Pull
  <2>3. HasPages(new) /\ KeepsPages(new)
    BY <2>2, ProvisionKeepsPages DEF KeepsPages
  <2>4. op' = [kind |-> op.kind, pc |-> "write", new |-> new, target |-> op.target, saved |-> op.saved,
               prepared |-> op.prepared]
    BY <2>2
  <2>5. PageShapes'
    BY <2>1, <2>3, <2>4 DEF HasPages, Free, Rerendering, Opening
  <2>6. KeepsPages(op.new)'
    BY <2>1, <2>3, <2>4 DEF KeepsPages, PageOpens
  <2> QED
    BY <2>1, <2>4, <2>5, <2>6
<1>2. CASE EnableSocket
  BY <1>2, PageGoto DEF EnableSocket, Opening, Rerendering, Free
<1>3. CASE WriteSettings
  <2>1. op.pc = "write" /\ ~Free /\ settings' = op.new /\ UNCHANGED <<sub, task>>
    BY <1>3 DEF WriteSettings, Free
  <2>2. CASE op.kind \in Rerendering
    BY <1>3, <2>1, <2>2, PageGoto DEF WriteSettings
  <2>3. CASE op.kind \notin Rerendering
    BY <1>3, <2>1, <2>3, PageEnd DEF WriteSettings
  <2> QED
    BY <2>2, <2>3
<1>4. CASE PutBack
  <2>1. /\ op.pc = "putback" /\ ~Free /\ op.kind \in Rerendering
        /\ settings' \in {settings, last.settings} /\ UNCHANGED <<sub, task>>
        /\ Goto("shut") \/ End("failed")
    BY <1>4 DEF PutBack, Free
  <2>2. CASE Goto("shut")
    BY <2>1, <2>2, PageGoto
  <2>3. CASE End("failed")
    BY <2>1, <2>3, PageEnd
  <2> QED
    BY <2>1, <2>2, <2>3
<1>5. CASE PullFails \/ EnableFails \/ WriteSettingsFails \/ PutBackFails \/ Shut \/ Tail \/ TailFails
  <2>1. PICK outcome : End(outcome)
    BY <1>5 DEF PullFails, EnableFails, WriteSettingsFails, PutBackFails, Shut, Tail, TailFails
  <2>2. settings' \in {settings, op.new, last.settings} /\ UNCHANGED <<sub, task>>
    BY <1>5 DEF PullFails, EnableFails, WriteSettingsFails, PutBackFails, Shut, Tail, TailFails
  <2> QED
    BY <2>1, <2>2, PageEnd
<1>6. CASE ActivationStep
  BY <1>6, PageActivation
<1> QED
  BY <1>1, <1>2, <1>3, <1>4, <1>5, <1>6
     DEF Progress, ActivationStep, Recovering, Preparing, Replacing, Committing, RollingBack

-----------------------------------------------------------------------------
\* The second hold of a portal's task finds every page that opens bound to the
\* token it read, or binds it to that.
LEMMA PageRebinding ==
    ASSUME PageInv, TaskRebinds
    PROVE  HasPages(settings') /\ KeepsPages(settings')
<1> USE DEF PageInv, PageShapes
<1> DEFINE rebound == Rebound(settings, task.client, task.before, task.after[task.client])
<1>1. task.after = sub /\ settings' = provision_pages(rebound, sub, "none")
  BY DEF TaskRebinds
<1>2. /\ HasPages(rebound)
      /\ \A c \in Clients :
            /\ rebound.pages[c].token = settings.pages[c].token
            /\ \/ rebound.pages[c].binding = settings.pages[c].binding
               \/ c = task.client /\ rebound.pages[c].binding = sub[task.client]
  BY <1>1, ReboundPages
<1> HIDE DEF rebound
<1>3. \A c \in Clients : PageOpens(c) => c \notin Unbound(rebound, sub, "none")
  BY <1>2 DEF PageOpens, Unbound, Clients
<1>4. \A c \in Clients : PageOpens(c) => settings'.pages[c] = rebound.pages[c]
  BY <1>1, <1>2, <1>3, ProvisionPages
<1> QED
  BY <1>1, <1>2, <1>4, ProvisionPages DEF KeepsPages

\* A rotation of a subscription.
LEMMA PageRotated ==
    ASSUME PageInv, Free, NEW c \in Clients, Rotated(c)
    PROVE  /\ HasPages(settings') /\ UNCHANGED <<op, last>>
           /\ \A d \in Clients : settings'.pages[d].token = settings.pages[d].token
<1>1. settings' = settings \/ settings' = Rebound(settings, c, sub[c], sub[c] + 1)
  BY DEF Rotated
<1>2. UNCHANGED <<op, last>>
  BY DEF Rotated
<1> QED
  BY <1>1, <1>2, ReboundPages DEF PageInv, PageShapes

\* While no command is under way only the pages and the task change.
LEMMA PageFree ==
    ASSUME PageInv, Free, UNCHANGED <<op, last>>, HasPages(settings'),
           task' = [step |-> task'.step, client |-> task'.client, before |-> task'.before,
                    after |-> task'.after],
           task'.client \in Clients, task'.step = "loaded" => task'.after = sub'
    PROVE  PageInv'
BY DEF PageInv, PageShapes, Free, Rerendering, Opening, HasPages

LEMMA PageBeside == PageInv /\ Beside /\ Undisturbed => PageInv'
<1> SUFFICES ASSUME PageInv, Beside, Undisturbed PROVE PageInv'
  OBVIOUS
<1> USE DEF PageInv, PageShapes, Undisturbed
<1>1. CASE Kill
  BY <1>1, PageEnd DEF Kill, pages
<1>2. CASE Visit \/ Renew
  <2>1. UNCHANGED <<settings, sub, op, last, task>>
    BY <1>2 DEF Visit, Renew, pages, processes
  <2> QED
    BY <2>1 DEF HasPages, Free, KeepsPages, PageOpens
<1>3. CASE (\E c \in Clients : TaskBegins(c)) \/ TaskLoads \/ TaskDies
  <2>1. /\ UNCHANGED <<settings, sub, op, last>>
        /\ task' = [step |-> task'.step, client |-> task'.client, before |-> task'.before,
                    after |-> task'.after]
        /\ task'.client \in Clients /\ (task'.step = "loaded" => task'.after = sub')
    <3>1. CASE \E c \in Clients : TaskBegins(c)
      <4>1. PICK c \in Clients : task' = [task EXCEPT !.step = "begun", !.client = c, !.before = sub[c]]
        BY <3>1 DEF TaskBegins
      <4>2. task' = [step |-> "begun", client |-> c, before |-> sub[c], after |-> task.after]
        BY <4>1
      <4> QED
        BY <3>1, <4>2 DEF TaskBegins, pages
    <3>2. CASE TaskLoads
      <4>1. task' = [step |-> "loaded", client |-> task.client, before |-> task.before, after |-> sub]
        BY <3>2 DEF TaskLoads
      <4> QED
        BY <3>2, <4>1 DEF TaskLoads, pages
    <3>3. CASE TaskDies
      BY <3>3 DEF TaskDies, NoTask, pages, Clients
    <3> QED
      BY <1>3, <3>1, <3>2, <3>3
  <2> QED
    BY <2>1 DEF HasPages, Free, KeepsPages, PageOpens
<1>4. ASSUME NEW c \in Clients, TerminalRotation(c) PROVE PageInv'
  BY <1>4, PageRotated, PageFree DEF TerminalRotation
<1>5. CASE TaskRotates
  <2>1. /\ task' = [step |-> "rotated", client |-> task.client, before |-> task.before,
                    after |-> task.after]
    BY <1>5 DEF TaskRotates
  <2> QED
    BY <1>5, <2>1, PageRotated, PageFree DEF TaskRotates
<1>6. CASE TaskRebinds
  BY <1>6, PageRebinding, PageFree DEF TaskRebinds, NoTask, Clients
<1> QED
  BY <1>1, <1>2, <1>3, <1>4, <1>5, <1>6 DEF Beside

LEMMA PageNext == PageInv /\ [Next]_vars /\ [Undisturbed]_vars => PageInv'
<1> SUFFICES ASSUME PageInv, [Next]_vars, [Undisturbed]_vars PROVE PageInv'
  OBVIOUS
<1>1. CASE UNCHANGED vars
  BY <1>1 DEF vars, pages, PageInv, PageShapes, HasPages, Free, KeepsPages, PageOpens
<1>2. CASE Next /\ Undisturbed
  BY <1>2, PageCommand, PageProgress, PageBeside DEF Next
<1> QED
  BY <1>1, <1>2

\* What a step does to the address of a page that opens.
LEMMA PageStep ==
    PageInv /\ [Next]_vars =>
       \A c \in Clients : PageOpens(c) =>
          settings'.pages[c].token = settings.pages[c].token \/ op.kind \in {"rotate-page", "setup"}
<1> SUFFICES ASSUME PageInv, Next, op.kind \notin {"rotate-page", "setup"},
                    NEW c \in Clients, PageOpens(c)
             PROVE  settings'.pages[c].token = settings.pages[c].token
  BY DEF vars
<1> USE DEF PageInv, PageShapes
<1>1. CASE Command
  BY <1>1 DEF Command, Start, Setup, WebOn, WebOff, Links, Update, Panel, RotatePage
<1>2. CASE Beside
  <2>1. CASE TaskRotates \/ TerminalRotation(c) \/ \E d \in Clients : TerminalRotation(d)
    BY <2>1, PageRotated DEF TaskRotates, TerminalRotation
  <2>2. CASE TaskRebinds
    BY <2>2, PageRebinding DEF KeepsPages
  <2>3. CASE Kill \/ Visit \/ Renew \/ TaskLoads \/ TaskDies \/ \E d \in Clients : TaskBegins(d)
    BY <2>3 DEF Kill, Visit, Renew, TaskLoads, TaskDies, TaskBegins
  <2> QED
    BY <1>2, <2>1, <2>2, <2>3 DEF Beside
<1>3. CASE Progress
  <2>1. CASE WriteSettings \/ WriteSettingsFails
    <3>1. op.pc = "write" /\ settings' \in {settings, op.new} /\ ~Free
      BY <2>1 DEF WriteSettings, WriteSettingsFails, At, Free
    <3>2. op.new.pages[c].token = settings.pages[c].token
      BY <3>1 DEF KeepsPages, Free
    <3> QED
      BY <3>1, <3>2
  <2>2. CASE PutBack \/ PutBackFails
    <3>1. op.pc = "putback" /\ settings' \in {settings, last.settings}
          /\ (op.kind = "update" => settings' = settings)
      BY <2>2 DEF PutBack, PutBackFails, At
    <3> QED
      BY <3>1 DEF Free
  <2>3. CASE ActivationStep
    BY <2>3 DEF ActivationStep, Recovering, Preparing, Replacing, Committing, RollingBack,
       RecoverNothing, RecoverCommitted, RecoverFiles, RecoverReload, RecoverDrop, RecoverFails,
       Unchanged, Prepare, PrepareFails, Replace, ReplaceFails, Test, TestFails, Reload, ReloadFails,
       Commit, CommitFails, CommitUnsynced, Drop, DropFails, Undo, UndoReload, UndoDrop, UndoFails,
       Step, Trouble
  <2>4. CASE Pull \/ PullFails \/ EnableSocket \/ EnableFails \/ Shut \/ Tail \/ TailFails
    BY <2>4 DEF Pull, PullFails, EnableSocket, EnableFails, Shut, Tail, TailFails
  <2> QED
    BY <1>3, <2>1, <2>2, <2>3, <2>4
       DEF Progress, ActivationStep, Recovering, Preparing, Replacing, Committing, RollingBack
<1> QED
  BY <1>1, <1>2, <1>3 DEF Next

\* A page that opens keeps its address, through any number of rotations,
\* commands, failing calls and kills, if no subscription is rotated between what
\* a portal's task read and its rebinding: PageSurvivesRotation.
THEOREM PagesKeepTheirAddresses == Spec /\ [][Undisturbed]_vars => PageSurvivesRotation
<1>1. Init => PageInv
  BY PageInit
<1>2. PageInv /\ [Next]_vars /\ [Undisturbed]_vars => PageInv'
  BY PageNext
<1>3. PageInv /\ [Next]_vars =>
        [\A c \in Clients : settings.pages[c].token # 0 /\ settings.pages[c].binding = sub[c] =>
            \/ settings'.pages[c].token = settings.pages[c].token
            \/ op.kind \in {"rotate-page", "setup"}]_vars
  BY PageStep DEF PageOpens
<1> QED
  BY <1>1, <1>2, <1>3, PTL DEF Spec, PageSurvivesRotation

\* A rotation of which a task has read leaves none to disturb it.
LEMMA RotationNext ==
    OneRotation /\ PageInv /\ RotationInv /\ [Next]_vars => RotationInv' /\ [Undisturbed]_vars
<1> SUFFICES ASSUME OneRotation, PageInv, RotationInv, Next PROVE RotationInv' /\ Undisturbed
  BY DEF vars, bounds, RotationInv
<1> USE WebAssumption DEF OneRotation, RotationInv, Undisturbed
<1>0. task = [step |-> task.step, client |-> task.client, before |-> task.before, after |-> task.after]
  BY DEF PageInv, PageShapes
<1>1. CASE Command
  BY <1>1 DEF Command, Start, Setup, WebOn, WebOff, Links, Update, Panel, RotatePage
<1>2. CASE Progress
  BY <1>2 DEF Progress,
     Pull, PullFails, EnableSocket, EnableFails, WriteSettings, WriteSettingsFails,
     RecoverNothing, RecoverCommitted, RecoverFiles, RecoverReload, RecoverDrop, RecoverFails,
     Unchanged, Prepare, PrepareFails, Replace, ReplaceFails, Test, TestFails, Reload, ReloadFails,
     Commit, CommitFails, CommitUnsynced, Drop, DropFails, Undo, UndoReload, UndoDrop, UndoFails,
     PutBack, PutBackFails, Shut, Tail, TailFails, Step, Trouble, NoFault, Fault, Rest
<1>3. CASE \E c \in Clients : TerminalRotation(c)
  BY <1>3 DEF TerminalRotation, Rotated
<1>4. CASE TaskRotates
  BY <1>0, <1>4 DEF TaskRotates, Rotated
<1>5. CASE TaskLoads
  BY <1>0, <1>5 DEF TaskLoads, pages, bounds
<1>6. CASE \E c \in Clients : TaskBegins(c)
  BY <1>0, <1>6 DEF TaskBegins, pages, bounds
<1>7. CASE Kill \/ Visit \/ Renew
  BY <1>7 DEF Kill, Visit, Renew, pages, bounds
<1>8. CASE TaskRebinds \/ TaskDies
  BY <1>8 DEF TaskRebinds, TaskDies, NoTask, pages, bounds
<1> QED
  BY <1>1, <1>2, <1>3, <1>4, <1>5, <1>6, <1>7, <1>8 DEF Next, Beside

\* With one rotation there is none to come between the two holds of another.
THEOREM OneRotationKeepsPages == ASSUME OneRotation PROVE Spec => PageSurvivesRotation
<1>1. Init => RotationInv /\ PageInv
  BY PageInit
<1>2. PageInv /\ RotationInv /\ [Next]_vars => RotationInv' /\ [Undisturbed]_vars
  BY OneRotation, RotationNext
<1>3. PageInv /\ [Next]_vars /\ [Undisturbed]_vars => PageInv'
  BY PageNext
<1>4. Spec => [][Undisturbed]_vars
  BY <1>1, <1>2, <1>3, PTL DEF Spec
<1> QED
  BY <1>4, PagesKeepTheirAddresses, PTL

=============================================================================
