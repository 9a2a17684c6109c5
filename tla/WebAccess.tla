------------------------------ MODULE WebAccess ------------------------------
(***************************************************************************)
(* The public face of the portal: web_manage.py's switches for the pages   *)
(* and the panel, the private page addresses of web_settings.py, and what  *)
(* carries them: the journalled replacement of the nginx files             *)
(* (nginx.activate_nginx_files), the web socket, and an update that brings *)
(* new code (manage.run_update).                                           *)
(*                                                                         *)
(* One command at a time holds operation.lock; it can fail at every call   *)
(* and be killed between any two.  The portal's rotation of a subscription *)
(* takes the lock twice (web_tasks.run); certificate renewals reload nginx *)
(* without it.  Two nginx files are one, since they change together; a     *)
(* page address is the number of its token, 0 for none.                    *)
(***************************************************************************)
EXTENDS Integers

CONSTANTS
    MaxOps,         \* bound on commands
    MaxRotations,   \* bound on rotations of subscriptions
    MaxFaults,      \* bound on failing calls
    MaxKills,       \* bound on killed commands
    LateFaults      \* may troubles meet a failing fsync of a commit?

Clients == {"owner", "member"}

ASSUME WebAssumption ==
    {MaxOps, MaxRotations, MaxFaults, MaxKills} \subseteq Nat /\ LateFaults \in BOOLEAN

VARIABLES
    settings,       \* web-settings.json
    conf,           \* the generated nginx file
    loaded,         \* what nginx runs with
    journal,        \* .nginx-rerender-journal.json
    socket,         \* is clash-sub-web.socket enabled and active?
    code,           \* the version of the code on disk
    resident,       \* the version the web process runs, 0 without a process
    sub,            \* the subscription token of each client
    issued,         \* how many page tokens each client was given
    op,             \* the command that holds the lock
    task,           \* the portal's rotation
    last,           \* how the last command ended, and what it began with
    closed,         \* switches reported closed and not opened since
    dead,           \* page tokens reported as replaced
    ops, rotations, faults, kills

nginx == <<conf, loaded, journal>>
processes == <<socket, code, resident>>
pages == <<sub, issued>>
bounds == <<ops, rotations, faults, kills>>
vars == <<settings, nginx, processes, pages, op, task, last, closed, dead, bounds>>

Switches == {"enabled", "panel"}
Config == [enabled : BOOLEAN, panel : BOOLEAN, code : Nat]
NoFile == [enabled |-> FALSE, panel |-> FALSE, code |-> 0]
NoJournal == [phase |-> "none", saved |-> NoFile]

Idle == [kind |-> "none", pc |-> "idle", new |-> settings, target |-> "none",
         saved |-> NoFile, prepared |-> FALSE]
NoTask == [step |-> "none", client |-> "owner", before |-> 0, after |-> sub]

\* render_sub_server reads the switches from the file, the templates are code.
Rendered == [enabled |-> settings.enabled, panel |-> settings.panel, code |-> code]

Free == op.kind = "none"
Rerendering == {"setup", "web-on", "web-off", "panel-on", "panel-off", "update"}
Opening == {"setup", "web-on"}

TypeOK ==
    /\ settings \in [enabled : BOOLEAN, panel : BOOLEAN, password : BOOLEAN,
                     pages : [Clients -> [token : Nat, binding : Nat]]]
    /\ conf \in Config /\ loaded \in Config
    /\ journal.phase \in {"none", "prepared", "committed"} /\ journal.saved \in Config
    /\ socket \in BOOLEAN /\ code \in 1..(MaxOps + 1) /\ resident \in 0..code
    /\ sub \in [Clients -> 1..(MaxRotations + 1)] /\ issued \in [Clients -> Nat]
    /\ op.kind \in {"none", "links", "rotate-page"} \cup Rerendering
    /\ Free <=> op.pc = "idle"
    /\ op.prepared => ~Free /\ op.kind \in Rerendering
    /\ task.step \in {"none", "begun", "rotated", "loaded"}
    /\ last.outcome \in {"none", "ok", "partly", "failed", "refused", "killed"}
    /\ closed \subseteq Switches
    /\ ops \in 0..MaxOps /\ rotations \in 0..MaxRotations
    /\ faults \in 0..MaxFaults /\ kills \in 0..MaxKills

\* read_settings' defaults: no pages yet, the panel public.
Init ==
    /\ settings = [enabled |-> FALSE, panel |-> TRUE, password |-> FALSE,
                   pages |-> [c \in Clients |-> [token |-> 0, binding |-> 0]]]
    /\ code = 1
    /\ conf = Rendered /\ loaded = Rendered /\ journal = NoJournal
    /\ socket = FALSE /\ resident = 0
    /\ sub = [c \in Clients |-> 1] /\ issued = [c \in Clients |-> 0]
    /\ op = Idle /\ task = NoTask
    /\ last = [kind |-> "none", outcome |-> "none", settings |-> settings, conf |-> conf,
               sound |-> TRUE]
    /\ closed = {} /\ dead = [c \in Clients |-> {}]
    /\ ops = 0 /\ rotations = 0 /\ faults = 0 /\ kills = 0

-----------------------------------------------------------------------------
(* Page addresses *)

\* Mutant of Unbound: every page is compared with the owner's subscription.
UnboundByOwner(s, tokens, rotate) ==
    {c \in Clients :
        s.pages[c].token = 0 \/ s.pages[c].binding # tokens["owner"] \/ c = rotate}

\* The clients whose page provision_pages gives a new token.
Unbound(s, tokens, rotate) ==
    {c \in Clients : s.pages[c].token = 0 \/ s.pages[c].binding # tokens[c] \/ c = rotate}

provision_pages(s, tokens, rotate) ==
    [s EXCEPT !.pages = [c \in Clients |->
        IF c \in Unbound(s, tokens, rotate)
        THEN [token |-> issued[c] + 1, binding |-> tokens[c]] ELSE @[c]]]

Issued(new) == [c \in Clients |-> IF new.pages[c].token > issued[c] THEN new.pages[c].token
                                  ELSE issued[c]]

\* rebind_subscription and _rebind_rotated: a page bound to the token before is
\* bound to the one after, under the same address.
Rebound(s, c, before, after) ==
    IF s.pages[c].binding = before /\ s.pages[c].token # 0
    THEN [s EXCEPT !.pages[c].binding = after] ELSE s

-----------------------------------------------------------------------------
(* Commands *)

Start(kind, pc, new, target) ==
    /\ Free /\ ops < MaxOps /\ ops' = ops + 1
    /\ op' = [Idle EXCEPT !.kind = kind, !.pc = pc, !.new = new, !.target = target]
    /\ last' = [kind |-> kind, outcome |-> "none", settings |-> settings, conf |-> conf,
                sound |-> conf = loaded /\ conf = Rendered /\ journal.phase = "none"]
    /\ issued' = Issued(new)
    /\ closed' = closed \ (IF kind \in Opening THEN {"enabled"}
                           ELSE IF kind = "panel-on" THEN {"panel"} ELSE {})
    /\ UNCHANGED <<settings, nginx, processes, sub, task, dead, rotations, faults, kills>>

Setup ==
    LET new == provision_pages(settings, sub, "none")
    IN  Start("setup", "enable", [new EXCEPT !.password = TRUE, !.enabled = TRUE], "none")

\* Needs a password and an entry for the administrator bound to the owner.
WebOn ==
    /\ settings.password /\ settings.pages["owner"].binding = sub["owner"]
    /\ Start("web-on", "enable", [settings EXCEPT !.enabled = TRUE], "none")

WebOff == Start("web-off", "write", [settings EXCEPT !.enabled = FALSE], "none")

Panel(on) ==
    Start(IF on THEN "panel-on" ELSE "panel-off", "write", [settings EXCEPT !.panel = on], "none")

Links == Start("links", "write", provision_pages(settings, sub, "none"), "none")

RotatePage(c) == Start("rotate-page", "write", provision_pages(settings, sub, c), c)

Update == Start("update", "pull", settings, "none")

End(outcome) ==
    /\ op' = Idle
    /\ last' = [last EXCEPT !.outcome = outcome]

At(pc) == op.pc = pc
Goto(pc) == op' = [op EXCEPT !.pc = pc] /\ UNCHANGED last
NoFault == UNCHANGED <<ops, rotations, faults, kills>>
Fault == faults < MaxFaults /\ faults' = faults + 1 /\ UNCHANGED <<ops, rotations, kills>>

\* What a command leaves alone unless it says otherwise.
Rest == UNCHANGED <<sub, task>>

\* git pull and pip; a fresh process then does the rest with the new code.
Pull ==
    /\ At("pull")
    /\ code' = code + 1
    /\ LET new == IF settings.enabled THEN provision_pages(settings, sub, "none") ELSE settings
       IN  op' = [op EXCEPT !.pc = "write", !.new = new] /\ issued' = Issued(new)
    /\ NoFault /\ Rest /\ UNCHANGED <<settings, nginx, socket, resident, last, closed, dead>>

PullFails ==
    /\ At("pull")
    /\ code' \in {code, code + 1}
    /\ End("refused") /\ Fault /\ Rest
    /\ UNCHANGED <<settings, nginx, socket, resident, issued, closed, dead>>

EnableSocket ==
    /\ At("enable")
    /\ socket' = TRUE
    /\ Goto("write") /\ NoFault /\ Rest
    /\ UNCHANGED <<settings, nginx, code, resident, issued, closed, dead>>

EnableFails ==
    /\ At("enable")
    /\ socket' \in {socket, TRUE}
    /\ End("refused") /\ Fault /\ Rest
    /\ UNCHANGED <<settings, nginx, code, resident, issued, closed, dead>>

\* write_settings; the commands that leave nginx alone are then through.
WriteSettings ==
    /\ At("write")
    /\ settings' = op.new
    /\ IF op.kind \in Rerendering THEN Goto("recover") ELSE End("ok")
    /\ dead' = IF op.kind = "rotate-page"
               THEN [dead EXCEPT ![op.target] = @ \cup {settings.pages[op.target].token}] ELSE dead
    /\ NoFault /\ Rest /\ UNCHANGED <<nginx, processes, issued, closed>>

\* The file may have been replaced before the failing fsync.
WriteSettingsFails ==
    /\ At("write")
    /\ settings' \in {settings, op.new}
    /\ End("refused") /\ Fault /\ Rest
    /\ UNCHANGED <<nginx, processes, issued, closed, dead>>

-----------------------------------------------------------------------------
(* activate_nginx_files with its journal *)

Step(pc, c, l, j) ==
    /\ Goto(pc) /\ conf' = c /\ loaded' = l /\ journal' = j
    /\ NoFault /\ Rest /\ UNCHANGED <<settings, processes, issued, closed, dead>>

\* A failing call, with the states it can leave behind.
Trouble(pc, cs, ls, js) ==
    /\ Goto(pc) /\ conf' \in cs /\ loaded' \in ls /\ journal' \in js
    /\ Fault /\ Rest /\ UNCHANGED <<settings, processes, issued, closed, dead>>

\* _recover_nginx_file_journal
RecoverNothing == At("recover") /\ journal.phase = "none" /\ Step("prepare", conf, loaded, journal)

\* Mutant of RecoverCommitted: the phase of the journal is not looked at.
RecoverUnphased ==
    /\ At("recover") /\ journal.phase = "committed"
    /\ Step("recover_reload", journal.saved, loaded, journal)

RecoverCommitted ==
    /\ At("recover") /\ journal.phase = "committed"
    /\ Step("prepare", conf, loaded, NoJournal)
RecoverFiles ==
    /\ At("recover") /\ journal.phase = "prepared"
    /\ Step("recover_reload", journal.saved, loaded, journal)
RecoverReload == At("recover_reload") /\ Step("recover_drop", conf, conf, journal)
RecoverDrop == At("recover_drop") /\ Step("prepare", conf, loaded, NoJournal)

RecoverFails ==
    \/ /\ At("recover") /\ journal.phase # "none"
       /\ IF journal.phase = "prepared"
          THEN Trouble("putback", {conf, journal.saved}, {loaded}, {journal})
          ELSE Trouble("putback", {conf}, {loaded}, {journal, NoJournal})
    \/ At("recover_reload") /\ Trouble("putback", {conf}, {loaded, conf}, {journal})
    \/ At("recover_drop") /\ Trouble("putback", {conf}, {loaded}, {journal, NoJournal})

\* With nothing to change nginx is not even asked.
Unchanged == At("prepare") /\ conf = Rendered /\ Step("tail", conf, loaded, journal)

Prepared(phase) == [phase |-> phase, saved |-> op.saved]

\* Mutant of Prepare: the new file is installed without a journal.
PrepareUnjournalled ==
    /\ At("prepare") /\ conf # Rendered
    /\ op' = [op EXCEPT !.pc = "replace", !.saved = conf]
    /\ NoFault /\ Rest
    /\ UNCHANGED <<settings, nginx, processes, issued, last, closed, dead>>

Prepare ==
    /\ At("prepare") /\ conf # Rendered
    /\ op' = [op EXCEPT !.pc = "replace", !.saved = conf, !.prepared = TRUE]
    /\ journal' = [phase |-> "prepared", saved |-> conf]
    /\ NoFault /\ Rest
    /\ UNCHANGED <<settings, conf, loaded, processes, issued, last, closed, dead>>

PrepareFails ==
    /\ At("prepare") /\ conf # Rendered
    /\ op' = [op EXCEPT !.pc = "undo", !.saved = conf]
    /\ journal' \in {journal, [phase |-> "prepared", saved |-> conf]}
    /\ Fault /\ Rest
    /\ UNCHANGED <<settings, conf, loaded, processes, issued, last, closed, dead>>

Replace == At("replace") /\ Step("test", Rendered, loaded, journal)
ReplaceFails == At("replace") /\ Trouble("undo", {conf, Rendered}, {loaded}, {journal})

Test == At("test") /\ Step("reload", conf, loaded, journal)
TestFails == At("test") /\ Trouble("undo", {conf}, {loaded}, {journal})

\* A reload that times out may have taken effect.
Reload == At("reload") /\ Step("commit", conf, conf, journal)
ReloadFails == At("reload") /\ Trouble("undo", {conf}, {loaded, conf}, {journal})

Commit == At("commit") /\ Step("drop", conf, loaded, Prepared("committed"))
\* Its fsync may fail when the journal says committed already; it then uses up
\* the bounds on troubles, unless it may meet others.
CommitFails == At("commit") /\ Trouble("undo", {conf}, {loaded}, {journal})

CommitUnsynced ==
    /\ At("commit")
    /\ Goto("undo") /\ journal' = Prepared("committed")
    /\ IF LateFaults THEN Fault
       ELSE /\ faults + kills = 0 /\ MaxFaults > 0
            /\ faults' = MaxFaults /\ kills' = MaxKills /\ UNCHANGED <<ops, rotations>>
    /\ Rest /\ UNCHANGED <<settings, conf, loaded, processes, issued, closed, dead>>

\* A journal that cannot be removed is left for the next command.
Drop == At("drop") /\ Step("tail", conf, loaded, NoJournal)
DropFails == At("drop") /\ Trouble("tail", {conf}, {loaded}, {journal, NoJournal})

\* _restore_nginx_file_snapshots
Undo == At("undo") /\ Step("undo_reload", op.saved, loaded, journal)
UndoReload == At("undo_reload") /\ Step("undo_drop", conf, conf, journal)
UndoDrop ==
    /\ At("undo_drop")
    /\ Step("putback", conf, loaded, IF op.prepared THEN NoJournal ELSE journal)
UndoFails ==
    \/ At("undo") /\ Trouble("putback", {conf, op.saved}, {loaded}, {journal})
    \/ At("undo_reload") /\ Trouble("putback", {conf}, {loaded, conf}, {journal})
    \/ At("undo_drop") /\ op.prepared /\ Trouble("putback", {conf}, {loaded}, {journal, NoJournal})

-----------------------------------------------------------------------------
(* After the activation *)

\* Mutant of PutBack: the saved switches are not restored.
PutBackForgotten ==
    /\ At("putback")
    /\ End("failed") /\ NoFault /\ Rest
    /\ UNCHANGED <<settings, nginx, processes, issued, closed, dead>>

\* execute's except clause; an update keeps the settings it found.
PutBack ==
    /\ At("putback")
    /\ settings' = IF op.kind = "update" THEN settings ELSE last.settings
    /\ IF op.kind \in Opening /\ ~last.settings.enabled THEN Goto("shut") ELSE End("failed")
    /\ NoFault /\ Rest /\ UNCHANGED <<nginx, processes, issued, closed, dead>>

PutBackFails ==
    /\ At("putback") /\ op.kind # "update"
    /\ settings' \in {settings, last.settings}
    /\ End("refused") /\ Fault /\ Rest
    /\ UNCHANGED <<nginx, processes, issued, closed, dead>>

\* _stop_web_services after a failed opening, whatever comes of it.
Shut ==
    /\ At("shut")
    /\ End("failed")
    /\ \/ socket' = FALSE /\ resident' = 0 /\ NoFault
       \/ socket' \in {socket, FALSE} /\ resident' \in {resident, 0} /\ Fault
    /\ Rest /\ UNCHANGED <<settings, nginx, code, issued, closed, dead>>

Closing == IF op.kind = "web-off" THEN {"enabled"} ELSE IF op.kind = "panel-off" THEN {"panel"} ELSE {}

\* web-off stops the socket and the process; an update restarts the process,
\* and has the socket follow the switch.
Tail ==
    /\ At("tail")
    /\ End("ok")
    /\ closed' = closed \cup Closing
    /\ socket' = IF op.kind \in {"web-off", "update"} THEN settings.enabled ELSE socket
    /\ resident' = IF op.kind \in {"web-off", "update"} /\ ~settings.enabled THEN 0
                   ELSE IF op.kind = "update" /\ resident # 0 THEN code ELSE resident
    /\ NoFault /\ Rest /\ UNCHANGED <<settings, nginx, code, issued, dead>>

TailFails ==
    /\ At("tail") /\ op.kind \in {"web-off", "update"}
    /\ End("partly")
    /\ closed' = closed \cup Closing
    /\ socket' \in {socket, settings.enabled}
    /\ resident' \in {resident, IF resident = 0 \/ ~settings.enabled THEN 0 ELSE code}
    /\ Fault /\ Rest /\ UNCHANGED <<settings, nginx, code, issued, dead>>

Kill ==
    /\ ~Free
    /\ kills < MaxKills /\ kills' = kills + 1
    /\ End("killed")
    /\ UNCHANGED <<settings, nginx, processes, pages, task, closed, dead, ops, rotations, faults>>

-----------------------------------------------------------------------------
(* Beside the commands *)

\* A request wakes the web process through the socket.
Visit ==
    /\ loaded.enabled /\ socket /\ resident = 0
    /\ resident' = code
    /\ UNCHANGED <<settings, nginx, socket, code, pages, op, task, last, closed, dead, bounds>>

\* The renewal of a certificate reloads nginx with what is on disk.
Renew ==
    /\ loaded # conf
    /\ loaded' = conf
    /\ UNCHANGED <<settings, conf, journal, processes, pages, op, task, last, closed, dead, bounds>>

\* rotate_link under the lock; the rebinding may fail, silently.
Rotated(c) ==
    /\ rotations < MaxRotations /\ rotations' = rotations + 1
    /\ sub' = [sub EXCEPT ![c] = @ + 1]
    /\ \/ settings' = Rebound(settings, c, sub[c], sub[c] + 1) /\ faults' = faults
       \/ settings' = settings /\ faults < MaxFaults /\ faults' = faults + 1
    /\ UNCHANGED <<nginx, processes, issued, op, last, closed, dead, ops, kills>>

TerminalRotation(c) == Free /\ Rotated(c) /\ UNCHANGED task

\* The portal's task: the state before, the rotation, the state after, and a
\* second rebinding in a hold of its own.
TaskBegins(c) ==
    /\ task.step = "none" /\ settings.enabled /\ socket
    /\ task' = [task EXCEPT !.step = "begun", !.client = c, !.before = sub[c]]
    /\ UNCHANGED <<settings, nginx, processes, pages, op, last, closed, dead, bounds>>

TaskRotates ==
    /\ task.step = "begun" /\ Free
    /\ Rotated(task.client)
    /\ task' = [task EXCEPT !.step = "rotated"]

TaskLoads ==
    /\ task.step = "rotated"
    /\ task' = [task EXCEPT !.step = "loaded", !.after = sub]
    /\ UNCHANGED <<settings, nginx, processes, pages, op, last, closed, dead, bounds>>

TaskRebinds ==
    /\ task.step = "loaded" /\ Free
    /\ LET c == task.client
           new == provision_pages(Rebound(settings, c, task.before, task.after[c]),
                                  task.after, "none")
       IN  settings' = new /\ issued' = Issued(new)
    /\ task' = NoTask
    /\ UNCHANGED <<nginx, processes, sub, op, last, closed, dead, bounds>>

TaskDies ==
    /\ task.step # "none"
    /\ kills < MaxKills /\ kills' = kills + 1
    /\ task' = NoTask
    /\ UNCHANGED <<settings, nginx, processes, pages, op, last, closed, dead, ops, rotations, faults>>

Command ==
    \/ Setup \/ WebOn \/ WebOff \/ Links \/ Update
    \/ \E on \in BOOLEAN : Panel(on)
    \/ \E c \in Clients : RotatePage(c)

Progress ==
    \/ Pull \/ PullFails \/ EnableSocket \/ EnableFails \/ WriteSettings \/ WriteSettingsFails
    \/ RecoverNothing \/ RecoverCommitted \/ RecoverFiles \/ RecoverReload \/ RecoverDrop
    \/ RecoverFails
    \/ Unchanged \/ Prepare \/ PrepareFails \/ Replace \/ ReplaceFails \/ Test \/ TestFails
    \/ Reload \/ ReloadFails \/ Commit \/ CommitFails \/ CommitUnsynced \/ Drop \/ DropFails
    \/ Undo \/ UndoReload \/ UndoDrop \/ UndoFails \/ PutBack \/ PutBackFails
    \/ Shut \/ Tail \/ TailFails

Beside ==
    \/ Kill \/ Visit \/ Renew
    \/ \E c \in Clients : TerminalRotation(c) \/ TaskBegins(c)
    \/ TaskRotates \/ TaskLoads \/ TaskRebinds \/ TaskDies

Next == Command \/ Progress \/ Beside

Spec == Init /\ [][Next]_vars

-----------------------------------------------------------------------------
(* Correctness *)

Settled(outcome) == Free /\ last.kind \in Rerendering /\ last.outcome = outcome

\* A switch that reports success is in force: nginx runs with what the settings
\* say, the file agrees, and the socket follows the pages' switch, whatever
\* troubles earlier commands left behind (web_manage.execute, run_post_update).
SuccessIsInForce ==
    Settled("ok") =>
        /\ loaded = Rendered /\ conf = Rendered
        /\ last.kind \notin {"panel-on", "panel-off"} => socket = settings.enabled

\* A switch that nginx refuses is taken back: the saved switches, the file and
\* the running nginx are as before, or a journal remains that will restore
\* them (web_manage.execute, docs/operations.md).
FailureRestores ==
    Settled("failed") /\ last.kind # "update" /\ last.sound =>
        /\ \A s \in Switches : settings[s] = last.settings[s]
        /\ journal.phase # "prepared" => conf = last.conf /\ loaded = last.conf
        /\ journal.phase = "prepared" => journal.saved = last.conf

\* What was reported closed is not served again before it is opened again, not
\* even by a recovery of older work or by an update (activate_nginx_files).
ClosedStaysClosed == \A s \in closed : ~loaded[s]

\* After an update no process serves with the old code (run_post_update).
UpdatedCodeServes == Free /\ last.kind = "update" /\ last.outcome = "ok" => resident \in {0, code}

\* A page address that was replaced never opens again (provision_pages).
ReplacedPageIsDead == \A c \in Clients : settings.pages[c].token \notin dead[c]

\* A page that opens keeps its address through every rotation of its
\* subscription: only a command to replace it changes it (rebind_subscription,
\* _rebind_rotated).  A setup may take its own changes back.
PageSurvivesRotation ==
    [][\A c \in Clients :
         settings.pages[c].token # 0 /\ settings.pages[c].binding = sub[c] =>
            \/ settings'.pages[c].token = settings.pages[c].token
            \/ op.kind \in {"rotate-page", "setup"}]_vars

=============================================================================
