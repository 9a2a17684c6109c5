---------------------------- MODULE VersionChecks ----------------------------
(***************************************************************************)
(* software_updates.SoftwareUpdates: a visit of the administration page    *)
(* starts one worker thread when the running versions (once a minute) or   *)
(* the official releases (once a day) are due; the outcome of a check of   *)
(* the releases, failures included, is saved for the next portal process.  *)
(***************************************************************************)
EXTENDS PortalClock

CONSTANTS RunningInterval,  \* 60 seconds
          CheckInterval     \* 86400 seconds

ASSUME IntervalsAssumption == /\ {RunningInterval, CheckInterval} \subseteq Nat \ {0}
                              /\ RunningInterval < CheckInterval

Projects == {"xui", "xray"}

VARIABLES thread,           \* the thread: "off", or the step it is at
          remote_due,       \* what get() found when it started the thread
          current_checked,  \* when the running versions were read
          known,            \* checked, releases (when seen last) and failed, in memory
          checksFile,       \* the same in software-updates.json
          lastCheck         \* true time of the last check, while a record of it exists

versions == <<thread, remote_due, current_checked, known, checksFile, lastCheck>>

Never    == -1
Unknown  == [checked |-> Never, seen |-> [p \in Projects |-> Never], failed |-> {}]
Checks   == [checked : Never .. MaxTime, seen : [Projects -> Never .. MaxTime],
             failed : SUBSET Projects]

VersionsTypeOK == /\ thread \in {"off", "running", "asking", "saving", "ending"}
                  /\ remote_due \in BOOLEAN
                  /\ current_checked \in Never .. MaxTime
                  /\ known \in Checks /\ checksFile \in Checks
                  /\ lastCheck \in Never .. MaxTime

VersionsInit == /\ thread = "off" /\ remote_due = FALSE /\ current_checked = Never
                /\ known = Unknown /\ checksFile = Unknown /\ lastCheck = Never

(* A time in the future is due too: the clock was set back. *)
Overdue(checked, interval) ==
    checked = Never \/ clock < checked \/ clock - checked >= interval

get ==
    LET remote == Overdue(known.checked, CheckInterval)
    IN /\ thread = "off"
       /\ remote \/ Overdue(current_checked, RunningInterval)
       /\ thread' = "running" /\ remote_due' = remote
       /\ UNCHANGED <<time, current_checked, known, checksFile, lastCheck>>

(* _refresh: the running versions (a reader that fails leaves them unknown), *)
(* then the releases of each project, then the file.                        *)
ReadRunning ==
    /\ thread = "running"
    /\ current_checked' = clock
    /\ thread' = IF remote_due THEN "asking" ELSE "ending"
    /\ UNCHANGED <<time, remote_due, known, checksFile, lastCheck>>

CheckedIfAnswered(failed) ==
    [checked |-> IF failed = {} THEN clock ELSE known.checked, failed |-> failed,
     seen |-> [p \in Projects |-> IF p \in failed THEN known.seen[p] ELSE clock]]
Checked(failed) ==
    [checked |-> clock, failed |-> failed,
     seen |-> [p \in Projects |-> IF p \in failed THEN known.seen[p] ELSE clock]]

AskReleases ==
    /\ thread = "asking"
    /\ \E failed \in SUBSET Projects :
          /\ (failed = {} /\ UNCHANGED time) \/ (failed # {} /\ Trouble)
          /\ known' = Checked(failed)
    /\ thread' = "saving" /\ lastCheck' = now
    /\ UNCHANGED <<remote_due, current_checked, checksFile>>

(* A failing write is logged and forgotten. *)
_save ==
    /\ thread = "saving"
    /\ \/ checksFile' = known /\ UNCHANGED time
       \/ Trouble /\ UNCHANGED checksFile
    /\ thread' = "ending"
    /\ UNCHANGED <<remote_due, current_checked, known, lastCheck>>

EndWorker ==
    /\ thread = "ending" /\ thread' = "off"
    /\ UNCHANGED <<time, remote_due, current_checked, known, checksFile, lastCheck>>

(* The portal restarts and the thread dies with it.  _load takes no file in *)
(* which a release was seen later than checked: one whose last success is   *)
(* from before the clock was set back is lost with its failure.             *)
_load == IF \E p \in Projects : checksFile.seen[p] > checksFile.checked
         THEN Unknown ELSE checksFile

VersionsRestart ==
    /\ Trouble
    /\ thread' = "off" /\ remote_due' = FALSE /\ current_checked' = Never
    /\ known' = _load
    /\ lastCheck' = IF known = checksFile THEN lastCheck ELSE Never
    /\ UNCHANGED checksFile

_refresh == ReadRunning \/ AskReleases \/ _save \/ EndWorker

VersionsNext == /\ watched = "versions"
                /\ get \/ _refresh \/ VersionsRestart

(* "Only release checks are persisted, including failed attempts, to avoid  *)
(* repeated daily checks after restarts" (software_updates.py:144): from a  *)
(* check to the next one a day goes by, through failures and restarts,      *)
(* unless its record was lost (the write failed or was not reached before a *)
(* restart) or the clock was set back.                                      *)
ChecksAreDaily ==
    thread = "asking" /\ lastCheck # Never /\ skew = 0 => now - lastCheck >= CheckInterval
=============================================================================
