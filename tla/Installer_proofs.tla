-------------------------- MODULE Installer_proofs --------------------------
(***************************************************************************)
(* What installations, updates and rollbacks promise, for any number of    *)
(* them, of failing calls and of kills, whatever the machine had before:   *)
(* the journal is ahead of the machine, a rollback that reports success    *)
(* restores it, and an installation that reports success is complete.      *)
(***************************************************************************)
EXTENDS Installer, WellFoundedInduction, TLAPS

-----------------------------------------------------------------------------
(* The phases and their steps *)

LEMMA PhaseTable ==
    /\ Len(InstallPhases) = 9
    /\ InstallPhases[1] = Phase("preflight", preflight)
    /\ InstallPhases[2] = Phase("low_memory", optimize_low_memory)
    /\ InstallPhases[3] = Phase("nginx_packages", install_nginx_packages)
    /\ InstallPhases[4] = Phase("mihomo", install_mihomo)
    /\ InstallPhases[5] = Phase("certificate", issue_certificate)
    /\ InstallPhases[6] = Phase("nginx_activation", activate_nginx)
    /\ InstallPhases[7] = Phase("systemd_harden", harden_systemd)
    /\ InstallPhases[8] = Phase("subscription_init", initialize_subscription)
    /\ InstallPhases[9] = Phase("report", finalize)
  BY DEF InstallPhases

\* An installing process is at one of these steps.
AtStep(p, k, do, on) == phase = p /\ pc = k /\ Script[pc] = Step(do, on)

Installing == op \in {"install", "update"}

LEMMA InstallSteps ==
    ASSUME TypeOK, Installing
    PROVE  \/ AtStep(1, 1, "check", {}) \/ AtStep(1, 2, "done", {})
           \/ AtStep(2, 1, "check", {}) \/ AtStep(2, 2, "done", {})
           \/ AtStep(3, 1, "capture", {"nginx"}) \/ AtStep(3, 2, "apt", {})
           \/ AtStep(3, 3, "intend_site", {}) \/ AtStep(3, 4, "unlink_site", {})
           \/ AtStep(3, 5, "intend_stream", {}) \/ AtStep(3, 6, "write_stream", {})
           \/ AtStep(3, 7, "done", {})
           \/ AtStep(4, 1, "record", {"core"}) \/ AtStep(4, 2, "write", {"core"}) \/ AtStep(4, 3, "done", {})
           \/ AtStep(5, 1, "check", {}) \/ AtStep(5, 2, "done", {})
           \/ AtStep(6, 1, "record", {"site", "routes"}) \/ AtStep(6, 2, "snapshot", {})
           \/ AtStep(6, 3, "write", {"site"}) \/ AtStep(6, 4, "write", {"routes"})
           \/ AtStep(6, 5, "reload", {}) \/ AtStep(6, 6, "enable", {"nginx"}) \/ AtStep(6, 7, "done", {})
           \/ AtStep(7, 1, "record", {"link", "socket", "timer", "web"})
           \/ AtStep(7, 2, "write", {"link"}) \/ AtStep(7, 3, "write", {"socket"})
           \/ AtStep(7, 4, "write", {"timer"}) \/ AtStep(7, 5, "write", {"web"})
           \/ AtStep(7, 6, "start", {}) \/ AtStep(7, 7, "check", {})
           \/ AtStep(7, 8, "enable", {"socket"}) \/ AtStep(7, 9, "enable", {"timer"})
           \/ AtStep(7, 10, "done", {})
           \/ AtStep(8, 1, "check", {}) \/ AtStep(8, 2, "done", {})
           \/ AtStep(9, 1, "done", {})
<1>1. phase \in 1..9 /\ Script = InstallPhases[phase].steps /\ pc \in 1..Len(Script)
  BY PhaseTable DEF TypeOK, Script, Installing
<1>2. CASE phase = 1
  BY <1>1, <1>2, PhaseTable DEF AtStep, Phase, preflight
<1>3. CASE phase = 2
  BY <1>1, <1>3, PhaseTable DEF AtStep, Phase, optimize_low_memory
<1>4. CASE phase = 3
  BY <1>1, <1>4, PhaseTable DEF AtStep, Phase, install_nginx_packages
<1>5. CASE phase = 4
  BY <1>1, <1>5, PhaseTable DEF AtStep, Phase, install_mihomo
<1>6. CASE phase = 5
  BY <1>1, <1>6, PhaseTable DEF AtStep, Phase, issue_certificate
<1>7. CASE phase = 6
  BY <1>1, <1>7, PhaseTable DEF AtStep, Phase, activate_nginx
<1>8. CASE phase = 7
  BY <1>1, <1>8, PhaseTable DEF AtStep, Phase, harden_systemd
<1>9. CASE phase = 8
  BY <1>1, <1>9, PhaseTable DEF AtStep, Phase, initialize_subscription
<1>10. CASE phase = 9
  BY <1>1, <1>10, PhaseTable DEF AtStep, Phase, finalize
<1>11. \/ phase = 1 \/ phase = 2 \/ phase = 3 \/ phase = 4 \/ phase = 5
       \/ phase = 6 \/ phase = 7 \/ phase = 8 \/ phase = 9
  BY <1>1
<1> QED
  BY <1>2, <1>3, <1>4, <1>5, <1>6, <1>7, <1>8, <1>9, <1>10, <1>11, Zenon

LEMMA RollbackSteps ==
    ASSUME TypeOK, op = "rollback"
    PROVE  \/ AtStep(0, 1, "stop", {"nginx"}) \/ AtStep(0, 2, "disable", {"nginx"})
           \/ AtStep(0, 3, "retire", {"socket"}) \/ AtStep(0, 4, "retire", {"timer"})
           \/ AtStep(0, 5, "retire", {"web"})
           \/ AtStep(0, 6, "undo", {"core"}) \/ AtStep(0, 7, "undo", {"site"})
           \/ AtStep(0, 8, "undo", {"routes"}) \/ AtStep(0, 9, "undo", {"link"})
           \/ AtStep(0, 10, "undo", {"socket"}) \/ AtStep(0, 11, "undo", {"timer"})
           \/ AtStep(0, 12, "undo", {"web"})
           \/ AtStep(0, 13, "undo_stream", {}) \/ AtStep(0, 14, "undo_site", {})
           \/ AtStep(0, 15, "reenable", {"socket"}) \/ AtStep(0, 16, "restart", {"socket"})
           \/ AtStep(0, 17, "reenable", {"timer"}) \/ AtStep(0, 18, "restart", {"timer"})
           \/ AtStep(0, 19, "forget", {})
<1>1. phase = 0 /\ Script = RollbackScript /\ pc \in 1..Len(RollbackScript)
  BY DEF TypeOK, Script
<1>2. Len(RollbackScript) = 19
  BY DEF RollbackScript
<1> QED
  BY <1>1, <1>2 DEF AtStep, RollbackScript

LEMMA MinFacts ==
    ASSUME NEW S \in SUBSET Nat, S # {}
    PROVE  Min(S) \in S /\ \A k \in S : Min(S) <= k
<1>1. PICK n \in S : \A k \in S : ~ (<<k, n>> \in OpToRel(<, Nat))
  BY NatLessThanWellFounded, WFMin, Zenon
<1>2. \A k \in S : ~ (k < n)
  BY <1>1, Zenon DEF OpToRel
<1>3. \A k \in S : n <= k
  BY <1>2
<1> QED
  BY <1>3, Zenon DEF Min

LEMMA FollowingFacts ==
    ASSUME NEW p \in 0..9, NEW done
    PROVE  LET n == Following(p, done)
           IN  \/ n = 0 /\ \A q \in (p + 1)..9 : InstallPhases[q].name \in done
               \/ /\ n \in (p + 1)..9 /\ InstallPhases[n].name \notin done
                  /\ \A q \in (p + 1)..(n - 1) : InstallPhases[q].name \in done
<1> DEFINE later == {q \in (p + 1)..9 : InstallPhases[q].name \notin done}
<1>1. Len(InstallPhases) = 9
  BY DEF InstallPhases
<1>2. Following(p, done) = IF later = {} THEN 0 ELSE Min(later)
  BY <1>1, Zenon DEF Following
<1>3. CASE later = {}
  BY <1>2, <1>3
<1>4. CASE later # {}
  <2>1. later \subseteq Nat
    OBVIOUS
  <2>2. Min(later) \in later /\ \A k \in later : Min(later) <= k
    BY <1>4, <2>1, MinFacts
  <2>3. Following(p, done) = Min(later)
    BY <1>2, <1>4
  <2> DEFINE n == Following(p, done)
  <2>4. n \in later /\ \A k \in later : n <= k
    BY <2>2, <2>3
  <2> HIDE DEF n
  <2>5. \A q \in (p + 1)..(n - 1) : InstallPhases[q].name \in done
    BY <2>4
  <2> QED
    BY <2>4, <2>5 DEF n
<1> QED
  BY <1>3, <1>4

\* A process is at one step only.
LEMMA OneStep ==
    ASSUME NEW p, NEW k, NEW do, NEW on, AtStep(p, k, do, on), NEW other, At(other)
    PROVE  do = other
  BY DEF AtStep, At, Step

LEMMA AtOperation ==
    ASSUME TypeOK, NEW do, At(do)
    PROVE  Installing \/ op = "rollback"
  BY DEF At, TypeOK, Installing

\* Which steps do what

LEMMA CheckSteps ==
    ASSUME TypeOK, At("check")
    PROVE  /\ Installing
           /\ \/ AtStep(1, 1, "check", {}) \/ AtStep(2, 1, "check", {})
              \/ AtStep(5, 1, "check", {}) \/ AtStep(7, 7, "check", {})
              \/ AtStep(8, 1, "check", {})
  BY AtOperation, OneStep, InstallSteps, RollbackSteps

LEMMA CaptureStep ==
    ASSUME TypeOK, At("capture")
    PROVE  Installing /\ AtStep(3, 1, "capture", {"nginx"})
  BY AtOperation, OneStep, InstallSteps, RollbackSteps

LEMMA AptStep ==
    ASSUME TypeOK, At("apt")
    PROVE  Installing /\ AtStep(3, 2, "apt", {})
  BY AtOperation, OneStep, InstallSteps, RollbackSteps

LEMMA IntendSiteStep ==
    ASSUME TypeOK, At("intend_site")
    PROVE  Installing /\ AtStep(3, 3, "intend_site", {})
  BY AtOperation, OneStep, InstallSteps, RollbackSteps

LEMMA UnlinkSiteStep ==
    ASSUME TypeOK, At("unlink_site")
    PROVE  Installing /\ AtStep(3, 4, "unlink_site", {})
  BY AtOperation, OneStep, InstallSteps, RollbackSteps

LEMMA IntendStreamStep ==
    ASSUME TypeOK, At("intend_stream")
    PROVE  Installing /\ AtStep(3, 5, "intend_stream", {})
  BY AtOperation, OneStep, InstallSteps, RollbackSteps

LEMMA WriteStreamStep ==
    ASSUME TypeOK, At("write_stream")
    PROVE  Installing /\ AtStep(3, 6, "write_stream", {})
  BY AtOperation, OneStep, InstallSteps, RollbackSteps

LEMMA RecordSteps ==
    ASSUME TypeOK, At("record")
    PROVE  /\ Installing
           /\ \/ AtStep(4, 1, "record", {"core"})
              \/ AtStep(6, 1, "record", {"site", "routes"})
              \/ AtStep(7, 1, "record", {"link", "socket", "timer", "web"})
  BY AtOperation, OneStep, InstallSteps, RollbackSteps

LEMMA WriteSteps ==
    ASSUME TypeOK, At("write")
    PROVE  /\ Installing
           /\ \/ AtStep(4, 2, "write", {"core"}) \/ AtStep(6, 3, "write", {"site"})
              \/ AtStep(6, 4, "write", {"routes"}) \/ AtStep(7, 2, "write", {"link"})
              \/ AtStep(7, 3, "write", {"socket"}) \/ AtStep(7, 4, "write", {"timer"})
              \/ AtStep(7, 5, "write", {"web"})
  BY AtOperation, OneStep, InstallSteps, RollbackSteps

LEMMA SnapshotStep ==
    ASSUME TypeOK, At("snapshot")
    PROVE  Installing /\ AtStep(6, 2, "snapshot", {})
  BY AtOperation, OneStep, InstallSteps, RollbackSteps

LEMMA ReloadStep ==
    ASSUME TypeOK, At("reload")
    PROVE  Installing /\ AtStep(6, 5, "reload", {})
  BY AtOperation, OneStep, InstallSteps, RollbackSteps

LEMMA EnableSteps ==
    ASSUME TypeOK, At("enable")
    PROVE  /\ Installing
           /\ \/ AtStep(6, 6, "enable", {"nginx"}) \/ AtStep(7, 8, "enable", {"socket"})
              \/ AtStep(7, 9, "enable", {"timer"})
  BY AtOperation, OneStep, InstallSteps, RollbackSteps

LEMMA StartStep ==
    ASSUME TypeOK, At("start")
    PROVE  Installing /\ AtStep(7, 6, "start", {})
  BY AtOperation, OneStep, InstallSteps, RollbackSteps

LEMMA DoneSteps ==
    ASSUME TypeOK, At("done")
    PROVE  /\ Installing
           /\ \/ AtStep(1, 2, "done", {}) \/ AtStep(2, 2, "done", {})
              \/ AtStep(3, 7, "done", {}) \/ AtStep(4, 3, "done", {})
              \/ AtStep(5, 2, "done", {}) \/ AtStep(6, 7, "done", {})
              \/ AtStep(7, 10, "done", {}) \/ AtStep(8, 2, "done", {})
              \/ AtStep(9, 1, "done", {})
  BY AtOperation, OneStep, InstallSteps, RollbackSteps

LEMMA UndoSteps ==
    ASSUME TypeOK, At("undo")
    PROVE  /\ op = "rollback"
           /\ \/ AtStep(0, 6, "undo", {"core"}) \/ AtStep(0, 7, "undo", {"site"})
              \/ AtStep(0, 8, "undo", {"routes"}) \/ AtStep(0, 9, "undo", {"link"})
              \/ AtStep(0, 10, "undo", {"socket"}) \/ AtStep(0, 11, "undo", {"timer"})
              \/ AtStep(0, 12, "undo", {"web"})
  BY AtOperation, OneStep, InstallSteps, RollbackSteps

LEMMA UndoStreamStep ==
    ASSUME TypeOK, At("undo_stream")
    PROVE  op = "rollback" /\ AtStep(0, 13, "undo_stream", {})
  BY AtOperation, OneStep, InstallSteps, RollbackSteps

LEMMA UndoSiteStep ==
    ASSUME TypeOK, At("undo_site")
    PROVE  op = "rollback" /\ AtStep(0, 14, "undo_site", {})
  BY AtOperation, OneStep, InstallSteps, RollbackSteps

LEMMA ForgetStep ==
    ASSUME TypeOK, At("forget")
    PROVE  op = "rollback" /\ AtStep(0, 19, "forget", {})
  BY AtOperation, OneStep, InstallSteps, RollbackSteps

-----------------------------------------------------------------------------
(* The inductive invariant *)

\* The phases of the operation: the earlier ones are done, and a later one
\* that is done was so when the operation began.
PhaseInv ==
    /\ op = "install" =>
          /\ skipped \subseteq journal.done
          /\ \A k \in 1..(phase - 1) : InstallPhases[k].name \in journal.done
          /\ \A k \in phase..9 :
                InstallPhases[k].name \in journal.done => InstallPhases[k].name \in skipped
    /\ op = "update" => skipped = Phases \ {"systemd_harden"}
    /\ Installing => Current \notin skipped

\* What the journal takes for the state of a file before: an existing one that
\* could not be read counts as absent.
Before(f) == IF f \in original.unread THEN "absent" ELSE original.files[f]

\* Every file that differs is in the journal, with what it replaced.
Journalled(f) ==
    /\ Before(f) \in {"absent", "foreign"}
    /\ journal.replaced[f] \in {Nothing, "foreign"}
    /\ journal.replaced[f] = "foreign" <=> f \in journal.written /\ Before(f) = "foreign"
    /\ files[f] # Before(f) => f \in journal.written

FilesInv == Before("web") = "absent" /\ \A f \in Files : Journalled(f)

\* A unit that differs was captured first, and what is captured is the original.
Kept(u) ==
    /\ journal.captured[u] \in {Unknown, original.services[u]}
    /\ services[u] # original.services[u] => journal.captured[u] # Unknown

ServicesInv ==
    /\ \A u \in Captured : Kept(u)
    /\ original.services["nginx"] \subseteq services["nginx"]
    /\ \A u \in {"socket", "timer"} : services[u] # original.services[u] => Hardened
    /\ services["web"] \notin {Off, original.services["web"]} => Hardened

NginxInv ==
    /\ default = "removed" => journal.site
    /\ stream = "ours" => journal.stream

\* What the phase at hand, or one that is done, has put into the journal.
HardenRecorded ==
    /\ {"link", "socket", "timer", "web"} \subseteq journal.written
    /\ journal.captured["socket"] # Unknown /\ journal.captured["timer"] # Unknown

AheadInv ==
    /\ "nginx_packages" \in journal.done => journal.captured["nginx"] # Unknown
    /\ Hardened => HardenRecorded
    /\ phase = 3 =>
          /\ pc > 1 => journal.captured["nginx"] # Unknown
          /\ pc = 4 /\ default = "stock" => journal.site
          /\ pc = 6 /\ stream = "none" => journal.stream
    /\ phase = 4 /\ pc > 1 => "core" \in journal.written
    /\ phase = 6 /\ pc > 1 => {"site", "routes"} \subseteq journal.written
    /\ phase = 7 /\ pc > 1 => HardenRecorded
    /\ phase = 7 /\ pc > 6 => journal.started

\* What the steps of a phase that are behind have brought about
Ours(fs) == \A f \in fs : files[f] = "ours"

EffectOfStep ==
    /\ phase = 3 =>
          /\ pc > 2 => default # "unpackaged"
          /\ pc > 4 => default # "stock"
          /\ pc > 6 => stream # "none"
    /\ phase = 4 /\ pc > 2 => Ours({"core"})
    /\ phase = 6 =>
          /\ pc > 3 => Ours({"site"})
          /\ pc > 4 => Ours({"routes"})
          /\ pc > 6 => services["nginx"] = On
    /\ phase = 7 =>
          /\ pc > 2 => Ours({"link"})
          /\ pc > 3 => Ours({"socket"})
          /\ pc > 4 => Ours({"timer"})
          /\ pc > 5 => Ours({"web"})
          /\ pc > 8 => services["socket"] = On
          /\ pc > 9 => services["timer"] = On

\* and what the phases that are done have,
EffectOfPhases ==
    /\ "nginx_packages" \in journal.done => default \in {"none", "removed"} /\ stream # "none"
    /\ "mihomo" \in journal.done => Ours({"core"})
    /\ "nginx_activation" \in journal.done => Ours({"site", "routes"}) /\ services["nginx"] = On
    /\ "systemd_harden" \in journal.done =>
          /\ Ours({"link", "socket", "timer", "web"})
          /\ services["socket"] = On /\ services["timer"] = On

\* unless a rollback has begun to take it back
EffectInv == ~torn => EffectOfStep /\ EffectOfPhases

\* What the rollback has put back so far.
Restored(f) == files[f] = Before(f)

UndoneInv ==
    op = "rollback" =>
    /\ torn
    /\ pc > 6 => Restored("core")
    /\ pc > 7 => Restored("site")
    /\ pc > 8 => Restored("routes")
    /\ pc > 9 => Restored("link")
    /\ pc > 10 => Restored("socket")
    /\ pc > 11 => Restored("timer")
    /\ pc > 12 => Restored("web")
    /\ pc > 13 => stream # "ours"
    /\ pc > 14 => default # "removed"

Lacks(u, flag) == flag \in services[u] => flag \in original.services[u]

CommandsInv ==
    op = "rollback" /\ ~failures =>
    /\ pc > 1 => Lacks("nginx", "active")
    /\ pc > 2 => Lacks("nginx", "enabled")
    /\ Hardened =>
          /\ pc > 3 /\ pc <= 15 => services["socket"] = Off
          /\ pc = 16 => services["socket"] = original.services["socket"] \cap {"enabled"}
          /\ pc > 16 => services["socket"] = original.services["socket"]
          /\ pc > 4 /\ pc <= 17 => services["timer"] = Off
          /\ pc = 18 => services["timer"] = original.services["timer"] \cap {"enabled"}
          /\ pc > 18 => services["timer"] = original.services["timer"]
          /\ pc > 5 => services["web"] = Off

OutcomeInv ==
    /\ op # "none" => outcome = "none"
    /\ outcome = "installed" => journal.done = Phases
    /\ outcome = "rolled_back" => journal = NoJournal

IInv ==
    /\ TypeOK
    /\ PhaseInv
    /\ FilesInv
    /\ ServicesInv
    /\ NginxInv
    /\ AheadInv
    /\ EffectInv
    /\ UndoneInv
    /\ CommandsInv
    /\ OutcomeInv
    /\ RollbackRestores

-----------------------------------------------------------------------------
(* Types *)

FlagsOK == failures \in BOOLEAN /\ configured \in BOOLEAN /\ torn \in BOOLEAN

ProcessOK ==
    /\ op \in {"none", "install", "update", "rollback"}
    /\ phase \in 0..9 /\ (op \in {"none", "rollback"} <=> phase = 0)
    /\ IF op = "none" THEN pc = 0 ELSE pc \in 1..Len(Script)
    /\ skipped \in SUBSET Phases
    /\ FlagsOK
    /\ outcome \in {"none", "installed", "updated", "rolled_back", "failed"}

MachineOK ==
    /\ files \in [Files -> Contents] /\ snapshot \in [Files -> Contents]
    /\ services \in [Units -> UnitState]
    /\ default \in {"unpackaged", "none", "stock", "removed"}
    /\ stream \in {"none", "ours", "edited"}
    /\ original \in [files : [Files -> Contents], services : [Units -> UnitState],
                     unread : SUBSET Files]

JournalOK ==
    journal \in [exists : BOOLEAN, done : SUBSET Phases, written : SUBSET Files,
                 replaced : [Files -> Contents \cup {Nothing}],
                 captured : [Captured -> UnitState \cup {Unknown}],
                 started : BOOLEAN, site : BOOLEAN, stream : BOOLEAN]

BoundsOK == runs \in 0..MaxRuns /\ faults \in 0..MaxFaults /\ kills \in 0..MaxKills

LEMMA TypeParts ==
    TypeOK <=> ProcessOK /\ MachineOK /\ JournalOK /\ BoundsOK
  BY PhaseTable DEF TypeOK, FlagsOK, ProcessOK, MachineOK, JournalOK, BoundsOK

\* The last step of a phase records that it is done.
LEMMA LastStep ==
    ASSUME NEW p \in 1..9
    PROVE  LET steps == InstallPhases[p].steps
           IN  Len(steps) \in Nat \ {0} /\ steps[Len(steps)].do = "done"
<1>1. CASE p = 1
  BY <1>1, PhaseTable DEF Phase, Step, preflight
<1>2. CASE p = 2
  BY <1>2, PhaseTable DEF Phase, Step, optimize_low_memory
<1>3. CASE p = 3
  BY <1>3, PhaseTable DEF Phase, Step, install_nginx_packages
<1>4. CASE p = 4
  BY <1>4, PhaseTable DEF Phase, Step, install_mihomo
<1>5. CASE p = 5
  BY <1>5, PhaseTable DEF Phase, Step, issue_certificate
<1>6. CASE p = 6
  BY <1>6, PhaseTable DEF Phase, Step, activate_nginx
<1>7. CASE p = 7
  BY <1>7, PhaseTable DEF Phase, Step, harden_systemd
<1>8. CASE p = 8
  BY <1>8, PhaseTable DEF Phase, Step, initialize_subscription
<1>9. CASE p = 9
  BY <1>9, PhaseTable DEF Phase, Step, finalize
<1> QED
  BY <1>1, <1>2, <1>3, <1>4, <1>5, <1>6, <1>7, <1>8, <1>9

\* A step that is not the last of its script has a next one.
LEMMA NextStep ==
    ASSUME TypeOK, NEW do, At(do), do \notin {"done", "forget"}
    PROVE  pc + 1 \in 1..Len(Script) /\ op # "none"
<1>1. pc \in 1..Len(Script) /\ op # "none" /\ (op # "rollback" => phase \in 1..9)
  BY TypeParts, AtOperation DEF ProcessOK, Installing
<1>2. Len(Script) \in Nat /\ pc # Len(Script)
  <2>1. CASE op = "rollback"
    <3>1. Script = RollbackScript
      BY <2>1 DEF Script
    <3>2. Len(RollbackScript) = 19 /\ RollbackScript[19].do = "forget"
      BY DEF RollbackScript, Step
    <3> QED
      BY <3>1, <3>2 DEF At
  <2>2. CASE op # "rollback"
    <3>1. Script = InstallPhases[phase].steps
      BY <2>2 DEF Script
    <3> QED
      BY <1>1, <2>2, <3>1, LastStep DEF At
  <2> QED
    BY <2>1, <2>2
<1> QED
  BY <1>1, <1>2

LEMMA Advances ==
    ASSUME TypeOK, NEW do, At(do), do \notin {"done", "forget"}, Advance,
           configured' \in BOOLEAN
    PROVE  ProcessOK' /\ BoundsOK'
<1>1. pc + 1 \in 1..Len(Script) /\ op # "none"
  BY NextStep
<1>2. Script' = Script
  BY DEF Advance, Script
<1>3. FlagsOK'
  BY TypeParts, Zenon DEF Advance, ProcessOK, FlagsOK
<1> QED
  BY <1>1, <1>2, <1>3, TypeParts DEF Advance, bounds, ProcessOK, BoundsOK

\* Ending an operation, and beginning a phase
LEMMA Finishes ==
    ASSUME TypeOK, NEW result \in {"none", "installed", "updated", "rolled_back", "failed"},
           Finish(result), torn' \in BOOLEAN
    PROVE  ProcessOK'
<1>1. ProcessOK
  BY TypeParts
<1>2. op' = "none" /\ phase' = 0 /\ pc' = 0 /\ outcome' = result
      /\ skipped' = skipped /\ configured' = configured
  BY DEF Finish
<1>3. skipped \in SUBSET Phases
  BY <1>1 DEF ProcessOK
<1>4. FlagsOK'
  BY <1>1, Zenon DEF Finish, ProcessOK, FlagsOK
<1> QED
  BY <1>2, <1>3, <1>4 DEF ProcessOK

LEMMA Enters ==
    ASSUME NEW p \in 1..9, Enter(p), op' \in {"install", "update"},
           skipped' \in SUBSET Phases, FlagsOK',
           outcome' \in {"none", "installed", "updated", "rolled_back", "failed"}
    PROVE  ProcessOK'
<1>1. Len(InstallPhases[p].steps) \in Nat \ {0}
  BY LastStep, Zenon
<1> QED
  BY <1>1 DEF Enter, ProcessOK, Script

\* The place and the subject of a step on one file or unit
LEMMA SubjectOf ==
    ASSUME NEW p, NEW k, NEW do, NEW x, AtStep(p, k, do, {x})
    PROVE  phase = p /\ pc = k /\ Subject = x
  BY DEF AtStep, Step, Subject

LEMMA WriteSubject ==
    ASSUME TypeOK, At("write")
    PROVE  Subject \in Files
  BY WriteSteps, SubjectOf DEF Files

LEMMA EnableSubject ==
    ASSUME TypeOK, At("enable")
    PROVE  Subject \in Captured
  BY EnableSteps, SubjectOf DEF Captured

LEMMA UndoSubject ==
    ASSUME TypeOK, At("undo")
    PROVE  Subject \in Files
  BY UndoSteps, SubjectOf DEF Files

\* The commands of a rollback
LEMMA CommandSteps ==
    ASSUME TypeOK, IsCommand
    PROVE  \/ AtStep(0, 1, "stop", {"nginx"}) \/ AtStep(0, 2, "disable", {"nginx"})
           \/ AtStep(0, 3, "retire", {"socket"}) \/ AtStep(0, 4, "retire", {"timer"})
           \/ AtStep(0, 5, "retire", {"web"})
           \/ AtStep(0, 15, "reenable", {"socket"}) \/ AtStep(0, 16, "restart", {"socket"})
           \/ AtStep(0, 17, "reenable", {"timer"}) \/ AtStep(0, 18, "restart", {"timer"})
<1>1. op = "rollback" /\ Script[pc].do \in {"stop", "disable", "retire", "reenable", "restart"}
  BY DEF IsCommand
<1> QED
  BY <1>1, RollbackSteps DEF AtStep, Step

LEMMA EffectType ==
    ASSUME TypeOK, IsCommand, NEW was \in UnitState
    PROVE  Subject \in Units /\ Effect(was) \in UnitState
<1>1. Subject \in Units
  BY CommandSteps, SubjectOf DEF Units, Captured
<1>2. pc > 0 /\ Script[pc].do \in {"stop", "disable", "retire", "reenable", "restart"}
  BY TypeParts DEF IsCommand, ProcessOK
<1>3. Effect(was) \in UnitState
  BY <1>2 DEF Effect, At, UnitState, Off
<1> QED
  BY <1>1, <1>3

LEMMA CurrentPhase ==
    ASSUME NEW p \in 1..9
    PROVE  InstallPhases[p].name \in Phases
  BY PhaseTable DEF Phase, Phases

\* A step that proceeds keeps its types when it does so for what it changes.
LEMMA TypeOfProceed ==
    ASSUME TypeOK, NEW do, At(do), do \notin {"done", "forget"}, Proceed,
           MachineOK', JournalOK'
    PROVE  TypeOK'
<1>1. configured' \in BOOLEAN
  BY TypeParts, Zenon DEF ProcessOK, FlagsOK, Proceed
<1>2. Advance
  BY DEF Proceed
<1>3. ProcessOK' /\ BoundsOK'
  BY <1>1, <1>2, Advances
<1> QED
  BY <1>3, TypeParts, PTL

\* A step that goes on to the next one
Onward == pc' = pc + 1 /\ UNCHANGED <<op, phase, skipped, failures, outcome, torn>>

\* The recording of a phase, whether or not the existing files can be read
Recording == Record \/ RecordUnread

RecordedFiles(unread) ==
    /\ original' = [original EXCEPT !.unread = @ \cup unread]
    /\ journal'.replaced =
          [f \in Files |-> IF f \in Unknowns(Script[pc].on) \ unread
                          THEN files[f] ELSE journal.replaced[f]]

RecordedUnits ==
    journal'.captured =
       [u \in Captured |-> IF u \in Script[pc].on /\ journal.captured[u] = Unknown
                          THEN services[u] ELSE journal.captured[u]]

LEMMA RecordingFacts ==
    ASSUME TypeOK, Recording
    PROVE  /\ At("record") /\ Script[pc].on \subseteq Files
           /\ Onward /\ UNCHANGED <<machine, snapshot, configured, runs, kills>>
           /\ faults' = faults \/ (faults < MaxFaults /\ faults' = faults + 1)
           /\ \E unread \in SUBSET Unknowns(Script[pc].on) : RecordedFiles(unread)
           /\ RecordedUnits
           /\ journal'.written = journal.written \cup Script[pc].on
           /\ journal'.done = journal.done /\ journal'.started = journal.started
           /\ journal'.site = journal.site /\ journal'.stream = journal.stream
           /\ JournalOK'
<1> DEFINE fs == Script[pc].on
<1>0. JournalOK /\ MachineOK
  BY TypeParts
<1>1. At("record") /\ fs \subseteq Files
  <2>1. At("record")
    BY DEF Recording, Record, RecordUnread
  <2> QED
    BY <2>1, RecordSteps DEF AtStep, Step, Files
<1>2. Onward /\ UNCHANGED <<machine, snapshot, configured, runs, kills>>
  BY DEF Recording, Record, RecordUnread, Proceed, Advance, Onward, bounds
<1>3. faults' = faults \/ (faults < MaxFaults /\ faults' = faults + 1)
  BY DEF Recording, Record, RecordUnread, Proceed, Advance, bounds
<1>4. PICK unread \in SUBSET Unknowns(fs) :
         Journal(fs, unread) /\ original' = [original EXCEPT !.unread = @ \cup unread]
  <2>1. CASE Record
    <3>1. Journal(fs, {}) /\ original' = original
      BY <2>1 DEF Record, Proceed, Advance
    <3>2. original = [original EXCEPT !.unread = @ \cup {}]
      BY <1>0 DEF MachineOK
    <3> QED
      BY <3>1, <3>2
  <2>2. CASE RecordUnread
    BY <2>2 DEF RecordUnread
  <2> QED
    BY <2>1, <2>2 DEF Recording
<1> DEFINE replaced == [f \in Files |-> IF f \in Unknowns(fs) \ unread
                                       THEN files[f] ELSE journal.replaced[f]]
           captured == [u \in Captured |-> IF u \in fs /\ journal.captured[u] = Unknown
                                          THEN services[u] ELSE journal.captured[u]]
<1>5. /\ replaced \in [Files -> Contents \cup {Nothing}]
      /\ captured \in [Captured -> UnitState \cup {Unknown}]
  BY <1>0 DEF JournalOK, MachineOK, Units
<1>6. journal' = [journal EXCEPT !.written = journal.written \cup fs,
                                 !.replaced = replaced, !.captured = captured]
  <2> DEFINE fresh == {u \in fs \cap Captured : journal.captured[u] = Unknown}
  <2>1. captured = [u \in Captured |-> IF u \in fresh THEN services[u] ELSE journal.captured[u]]
    OBVIOUS
  <2> QED
    BY <1>4, <2>1 DEF Journal, Save
<1> HIDE DEF replaced, captured
<1>7. /\ journal'.written = journal.written \cup fs
      /\ journal'.replaced = replaced /\ journal'.captured = captured
      /\ journal'.done = journal.done /\ journal'.started = journal.started
      /\ journal'.site = journal.site /\ journal'.stream = journal.stream
      /\ JournalOK'
  BY <1>0, <1>1, <1>5, <1>6 DEF JournalOK
<1> QED
  BY <1>1, <1>2, <1>3, <1>4, <1>7 DEF replaced, captured, RecordedFiles, RecordedUnits

LEMMA BeginType ==
    ASSUME TypeOK, NEW kind \in {"install", "update"}, NEW done \in SUBSET Phases, Begin(kind, done)
    PROVE  ProcessOK' /\ MachineOK' /\ BoundsOK'
<1>0. ProcessOK /\ MachineOK /\ BoundsOK
  BY TypeParts
<1>1. op = "none" /\ skipped' = done /\ UNCHANGED <<failures, configured, torn>>
  BY Zenon DEF Begin
<1>2. FlagsOK' /\ done \in SUBSET Phases
  BY <1>0, <1>1, Zenon DEF ProcessOK, FlagsOK
<1>3. ProcessOK'
  <2>1. CASE Following(0, done) = 0
    <3>1. UNCHANGED <<op, phase, pc>> /\ outcome' = "installed"
      BY <2>1, Zenon DEF Begin
    <3> QED
      BY <1>0, <1>1, <1>2, <3>1 DEF ProcessOK
  <2>2. CASE Following(0, done) # 0
    <3>1. op' = kind /\ Enter(Following(0, done)) /\ outcome' = "none"
      BY <2>2, Zenon DEF Begin
    <3>2. Following(0, done) \in 1..9
      BY <2>2, FollowingFacts
    <3>3. /\ op' \in {"install", "update"} /\ skipped' \in SUBSET Phases
          /\ outcome' \in {"none", "installed", "updated", "rolled_back", "failed"}
      BY <1>1, <1>2, <3>1
    <3> QED
      BY <1>2, <3>1, <3>2, <3>3, Enters
  <2> QED
    BY <2>1, <2>2
<1>5. /\ runs < MaxRuns /\ runs' = runs + 1
      /\ UNCHANGED <<machine, snapshot, original, faults, kills>>
  BY Zenon DEF Begin
<1>6. MachineOK' /\ BoundsOK'
  BY <1>0, <1>5, InstallerAssumption DEF machine, MachineOK, BoundsOK, InstallerAssumption
<1> QED
  BY <1>3, <1>6

\* What each step of an installation leaves in the machine and the journal
LEMMA TypeOfSteps ==
    ASSUME TypeOK,
           \/ Reload \/ Capture \/ Apt \/ IntendSite \/ UnlinkSite \/ IntendStream \/ WriteStream
           \/ Record \/ Snapshot \/ Write \/ Start \/ Enable \/ Undo \/ UndoStream \/ UndoSite
    PROVE  TypeOK'
<1> USE DEF machine
<1>0. MachineOK /\ JournalOK
  BY TypeParts
<1>1. CASE Reload
  <2>1. MachineOK' /\ JournalOK'
    BY <1>0, <1>1 DEF Reload, Proceed, Advance, MachineOK, JournalOK
  <2> QED
    BY <1>1, <2>1, TypeOfProceed DEF Reload
<1>2. CASE Capture
  <2>1. MachineOK'
    BY <1>0, <1>2 DEF Capture, Proceed, Advance, MachineOK, Captured, Units
  <2>2. JournalOK'
    BY <1>0, <1>2 DEF Capture, Save, JournalOK, MachineOK, Captured, Units
  <2> QED
    BY <1>2, <2>1, <2>2, TypeOfProceed DEF Capture
<1>3. CASE Apt
  <2>1. MachineOK'
    BY <1>0, <1>3 DEF Apt, Proceed, Advance, MachineOK, UnitState, On, Units, Captured
  <2>2. JournalOK'
    BY <1>0, <1>3 DEF Apt, Save, JournalOK, MachineOK
  <2> QED
    BY <1>3, <2>1, <2>2, TypeOfProceed DEF Apt
<1>4. CASE IntendSite
  <2>1. MachineOK'
    BY <1>0, <1>4 DEF IntendSite, Proceed, Advance, MachineOK
  <2>2. JournalOK'
    BY <1>0, <1>4 DEF IntendSite, Save, JournalOK, MachineOK
  <2> QED
    BY <1>4, <2>1, <2>2, TypeOfProceed DEF IntendSite
<1>5. CASE UnlinkSite
  <2>1. MachineOK'
    BY <1>0, <1>5 DEF UnlinkSite, Proceed, Advance, MachineOK
  <2>2. JournalOK'
    BY <1>0, <1>5 DEF UnlinkSite, Save, JournalOK, MachineOK
  <2> QED
    BY <1>5, <2>1, <2>2, TypeOfProceed DEF UnlinkSite
<1>6. CASE IntendStream
  <2>1. MachineOK'
    BY <1>0, <1>6 DEF IntendStream, Proceed, Advance, MachineOK
  <2>2. JournalOK'
    BY <1>0, <1>6 DEF IntendStream, Save, JournalOK, MachineOK
  <2> QED
    BY <1>6, <2>1, <2>2, TypeOfProceed DEF IntendStream
<1>7. CASE WriteStream
  <2>1. MachineOK'
    BY <1>0, <1>7 DEF WriteStream, Proceed, Advance, MachineOK
  <2>2. JournalOK'
    BY <1>0, <1>7 DEF WriteStream, Save, JournalOK, MachineOK
  <2> QED
    BY <1>7, <2>1, <2>2, TypeOfProceed DEF WriteStream
<1>8. CASE Record
  <2>1. MachineOK' /\ JournalOK'
    BY <1>0, <1>8, RecordingFacts DEF Recording, Record, Proceed, Advance, MachineOK
  <2> QED
    BY <1>8, <2>1, TypeOfProceed DEF Record
<1>9. CASE Snapshot
  <2>1. MachineOK'
    BY <1>0, <1>9 DEF Snapshot, Proceed, Advance, MachineOK
  <2>2. JournalOK'
    BY <1>0, <1>9 DEF Snapshot, Save, JournalOK, MachineOK
  <2> QED
    BY <1>9, <2>1, <2>2, TypeOfProceed DEF Snapshot
<1>10. CASE Write
  <2>0. Subject \in Files
    BY <1>10, WriteSubject DEF Write
  <2>1. MachineOK'
    BY <1>0, <1>10, <2>0 DEF Write, Proceed, Advance, MachineOK, Contents
  <2>2. JournalOK'
    BY <1>0, <1>10 DEF Write, Save, JournalOK, MachineOK
  <2> QED
    BY <1>10, <2>1, <2>2, TypeOfProceed DEF Write
<1>11. CASE Start
  <2>1. MachineOK'
    BY <1>0, <1>11 DEF Start, Proceed, Advance, MachineOK
  <2>2. JournalOK'
    BY <1>0, <1>11 DEF Start, Save, JournalOK, MachineOK
  <2> QED
    BY <1>11, <2>1, <2>2, TypeOfProceed DEF Start
<1>12. CASE Enable
  <2>0. Subject \in Captured
    BY <1>12, EnableSubject DEF Enable
  <2>1. MachineOK'
    BY <1>0, <1>12, <2>0 DEF Enable, Proceed, Advance, MachineOK, UnitState, On, Units
  <2>2. JournalOK'
    BY <1>0, <1>12 DEF Enable, Save, JournalOK, MachineOK
  <2> QED
    BY <1>12, <2>1, <2>2, TypeOfProceed DEF Enable
<1>13. CASE Undo
  <2>0. Subject \in Files
    BY <1>13, UndoSubject DEF Undo
  <2>1. MachineOK'
    <3>1. Replaced(Subject) => journal.replaced[Subject] \in Contents
      BY <1>0, <2>0 DEF Replaced, JournalOK
    <3>2. files' \in [Files -> Contents]
      BY <1>0, <1>13, <2>0, <3>1 DEF Undo, MachineOK, Contents
    <3> QED
      BY <1>0, <1>13, <3>2 DEF Undo, Proceed, Advance, MachineOK
  <2>2. JournalOK'
    BY <1>0, <1>13 DEF Undo, Save, JournalOK, MachineOK
  <2> QED
    BY <1>13, <2>1, <2>2, TypeOfProceed DEF Undo
<1>14. CASE UndoStream
  <2>1. MachineOK'
    BY <1>0, <1>14 DEF UndoStream, Proceed, Advance, MachineOK
  <2>2. JournalOK'
    BY <1>0, <1>14 DEF UndoStream, Save, JournalOK, MachineOK
  <2> QED
    BY <1>14, <2>1, <2>2, TypeOfProceed DEF UndoStream
<1>15. CASE UndoSite
  <2>1. MachineOK'
    BY <1>0, <1>15 DEF UndoSite, Proceed, Advance, MachineOK
  <2>2. JournalOK'
    BY <1>0, <1>15 DEF UndoSite, Save, JournalOK, MachineOK
  <2> QED
    BY <1>15, <2>1, <2>2, TypeOfProceed DEF UndoSite
<1> QED
  BY <1>1, <1>2, <1>3, <1>4, <1>5, <1>6, <1>7, <1>8, <1>9, <1>10, <1>11, <1>12, <1>13, <1>14, <1>15

LEMMA TypeStep ==
    ASSUME InstallerAssumption, TypeOK, [Next]_vars
    PROVE  TypeOK'
<1>0. ProcessOK /\ MachineOK /\ JournalOK /\ BoundsOK
  BY TypeParts
<1>1. CASE Install
  <2>1. journal' = [journal EXCEPT !.exists = TRUE] /\ Begin("install", journal.done)
    BY <1>1 DEF Install, Save
  <2>2. JournalOK'
    BY <1>0, <2>1 DEF JournalOK
  <2>3. ProcessOK' /\ MachineOK' /\ BoundsOK'
    BY <1>0, <2>1, BeginType DEF JournalOK
  <2> QED
    BY <2>2, <2>3, TypeParts, PTL
<1>2. CASE Update
  <2>1. journal' = [journal EXCEPT !.exists = TRUE] /\ Begin("update", Phases \ {"systemd_harden"})
    BY <1>2 DEF Update, Save
  <2>2. JournalOK'
    BY <1>0, <2>1 DEF JournalOK
  <2>3. ProcessOK' /\ MachineOK' /\ BoundsOK'
    BY <2>1, BeginType
  <2> QED
    BY <2>2, <2>3, TypeParts, PTL
<1>3. CASE Rollback
  <2>1. MachineOK' /\ JournalOK' /\ BoundsOK'
    BY <1>0, <1>3, InstallerAssumption DEF Rollback, machine, MachineOK, JournalOK, BoundsOK, InstallerAssumption
  <2>2. 1 \in 1..Len(RollbackScript)
    BY DEF RollbackScript
  <2>3. FlagsOK'
    BY <1>0, <1>3, Zenon DEF Rollback, ProcessOK, FlagsOK
  <2>4. ProcessOK'
    BY <1>0, <1>3, <2>2, <2>3 DEF Rollback, ProcessOK, Script
  <2> QED
    BY <2>1, <2>4, TypeParts, PTL
<1>4. CASE Check
  <2>1. configured' \in BOOLEAN
    BY <1>0, <1>4, Zenon DEF Check, ProcessOK, FlagsOK
  <2>2. ProcessOK' /\ BoundsOK'
    BY <1>4, <2>1, Advances DEF Check
  <2>3. MachineOK' /\ JournalOK'
    BY <1>0, <1>4 DEF Check, Advance, machine, MachineOK, JournalOK
  <2> QED
    BY <2>2, <2>3, TypeParts, PTL
<1>5. CASE \/ Reload \/ Capture \/ Apt \/ IntendSite \/ UnlinkSite \/ IntendStream \/ WriteStream
           \/ Record \/ Snapshot \/ Write \/ Start \/ Enable \/ Undo \/ UndoStream \/ UndoSite
  BY <1>5, TypeOfSteps
<1>6. CASE Refuse \/ InstallFails
  <2>1. files' = Unwound /\ Finish("failed") /\ torn' = torn
    BY <1>6 DEF Refuse, InstallFails, bounds
  <2>2. ProcessOK'
    BY <1>0, <2>1, Finishes, Zenon DEF ProcessOK, FlagsOK
  <2>3. BoundsOK'
    BY <1>0, <1>6, InstallerAssumption DEF Refuse, InstallFails, bounds, BoundsOK, InstallerAssumption
  <2>4. files' \in [Files -> Contents]
    BY <1>0, <2>1 DEF Unwound, MachineOK, Files
  <2>5. MachineOK' /\ JournalOK'
    BY <1>0, <1>6, <2>4 DEF Refuse, InstallFails, Finish, MachineOK, JournalOK
  <2> QED
    BY <2>2, <2>3, <2>5, TypeParts, PTL
<1>7. CASE PhaseDone
  <2>1. /\ At("done") /\ journal' = [journal EXCEPT !.done = @ \cup {Current}]
        /\ UNCHANGED <<machine, original, torn, bounds>>
    BY <1>7 DEF PhaseDone, Save
  <2>2. Installing /\ phase \in 1..9
    BY <1>0, <2>1, DoneSteps DEF ProcessOK, Installing
  <2>3. Current \in Phases
    BY <2>2, CurrentPhase DEF Current
  <2>4. JournalOK' /\ BoundsOK'
    BY <1>0, <2>1, <2>3 DEF JournalOK, BoundsOK, bounds
  <2>5. ProcessOK'
    <3>1. CASE Following(phase, skipped) = 0
      <4>1. Finish(IF op = "install" THEN "installed" ELSE "updated") /\ torn' \in BOOLEAN
        BY <1>0, <1>7, <3>1, Zenon DEF PhaseDone, ProcessOK, FlagsOK
      <4>2. Finish("installed") \/ Finish("updated")
        BY <4>1
      <4> QED
        BY <4>1, <4>2, Finishes
    <3>2. CASE Following(phase, skipped) # 0
      <4>1. /\ Enter(Following(phase, skipped))
            /\ UNCHANGED <<op, skipped, snapshot, failures, outcome, configured, torn>>
        BY <1>7, <3>2, Zenon DEF PhaseDone
      <4>2. Following(phase, skipped) \in 1..9
        BY <2>2, <3>2, FollowingFacts
      <4>3. /\ op' \in {"install", "update"} /\ skipped' \in SUBSET Phases /\ FlagsOK'
            /\ outcome' \in {"none", "installed", "updated", "rolled_back", "failed"}
        BY <1>0, <2>2, <4>1, Zenon DEF ProcessOK, FlagsOK, Installing
      <4> QED
        BY <4>1, <4>2, <4>3, Enters
    <3> QED
      BY <3>1, <3>2
  <2>6. MachineOK'
    <3>1. snapshot' = snapshot
      BY <1>7, Zenon DEF PhaseDone, Finish
    <3> QED
      BY <1>0, <2>1, <3>1 DEF machine, MachineOK
  <2> QED
    BY <2>4, <2>5, <2>6, TypeParts, PTL
<1>8. CASE Command \/ CommandFails
  <2>1. /\ IsCommand /\ pc' = pc + 1
        /\ UNCHANGED <<files, default, stream, journal, op, phase, skipped, snapshot, outcome,
                       configured, original, torn>>
    BY <1>8 DEF Command, CommandFails, machine
  <2>2. Script[pc].do \notin {"done", "forget"} /\ At(Script[pc].do)
    BY <1>0, <2>1 DEF IsCommand, At, ProcessOK
  <2>3. pc + 1 \in 1..Len(Script) /\ Script' = Script
    BY <2>1, <2>2, NextStep DEF Script
  <2>4. FlagsOK'
    <3>1. failures' = TRUE \/ failures' = (failures \/ (Due /\ ~Known(Subject)))
      BY <1>8, Zenon DEF Command, CommandFails
    <3>2. failures' \in BOOLEAN
      BY <3>1, Zenon
    <3> QED
      BY <1>0, <2>1, <3>2, Zenon DEF ProcessOK, FlagsOK
  <2>5. ProcessOK'
    <3>1. op' \in {"none", "install", "update", "rollback"} /\ phase' \in 0..9
          /\ (op' \in {"none", "rollback"} <=> phase' = 0)
      BY <1>0, <2>1 DEF ProcessOK
    <3>2. op' = "rollback" /\ pc' \in 1..Len(Script')
      BY <2>1, <2>3 DEF IsCommand
    <3> QED
      BY <1>0, <2>1, <2>4, <3>1, <3>2 DEF ProcessOK
  <2>6. services' \in [Units -> UnitState]
    BY <1>0, <1>8, EffectType DEF Command, CommandFails, machine, MachineOK
  <2>7. MachineOK' /\ JournalOK' /\ BoundsOK'
    BY <1>0, <1>8, <2>1, <2>6, InstallerAssumption
       DEF Command, CommandFails, MachineOK, JournalOK, BoundsOK, bounds, InstallerAssumption
  <2> QED
    BY <2>5, <2>7, TypeParts, PTL
<1>9. CASE Forget
  <2>1. torn' \in BOOLEAN /\ (Finish("failed") \/ Finish("rolled_back"))
    BY <1>0, <1>9, Zenon DEF Forget, ProcessOK, FlagsOK
  <2>2. ProcessOK'
    BY <2>1, Finishes
  <2>3. JournalOK'
    <3>1. NoJournal \in [exists : BOOLEAN, done : SUBSET Phases, written : SUBSET Files,
                         replaced : [Files -> Contents \cup {Nothing}],
                         captured : [Captured -> UnitState \cup {Unknown}],
                         started : BOOLEAN, site : BOOLEAN, stream : BOOLEAN]
      BY DEF NoJournal
    <3>2. journal' = journal \/ journal' = NoJournal
      BY <1>9, Zenon DEF Forget, Save
    <3> QED
      BY <1>0, <3>1, <3>2 DEF JournalOK
  <2>4. MachineOK' /\ BoundsOK'
    BY <1>0, <1>9 DEF Forget, Finish, MachineOK, machine, BoundsOK, bounds
  <2> QED
    BY <2>2, <2>3, <2>4, TypeParts, PTL
<1>10. CASE RollbackFails \/ Kill
  <2>1. torn' = torn /\ (Finish("failed") \/ Finish("none"))
    BY <1>10 DEF RollbackFails, Kill
  <2>2. ProcessOK'
    BY <1>0, <2>1, Finishes, Zenon DEF ProcessOK, FlagsOK
  <2>3. MachineOK' /\ JournalOK' /\ BoundsOK'
    BY <1>0, <1>10, InstallerAssumption
       DEF RollbackFails, Kill, Finish, machine, MachineOK, JournalOK, BoundsOK, InstallerAssumption
  <2> QED
    BY <2>2, <2>3, TypeParts, PTL
<1>11. CASE RemoveLink \/ EditStream \/ WebOn
  <2>1. UNCHANGED <<process, journal, torn, bounds>>
    BY <1>11 DEF RemoveLink, EditStream, WebOn
  <2>2. ProcessOK' /\ JournalOK' /\ BoundsOK'
    <3>1. FlagsOK'
      BY <1>0, <2>1, Zenon DEF process, ProcessOK, FlagsOK
    <3> QED
      BY <1>0, <2>1, <3>1 DEF process, bounds, ProcessOK, JournalOK, BoundsOK, Script
  <2>3. MachineOK'
    BY <1>0, <1>11 DEF RemoveLink, EditStream, WebOn, process, MachineOK, Files, Contents, UnitState, On, Units
  <2> QED
    BY <2>2, <2>3, TypeParts, PTL
<1>12. CASE UNCHANGED vars
  BY <1>12 DEF vars, machine, process, bounds, TypeOK, Script
<1>13. CASE RecordUnread
  <2>1. /\ At("record") /\ Onward /\ UNCHANGED <<machine, snapshot, configured, runs, kills>>
        /\ JournalOK' /\ Script[pc].on \subseteq Files
        /\ faults' = faults \/ (faults < MaxFaults /\ faults' = faults + 1)
    BY <1>13, RecordingFacts DEF Recording
  <2>2. PICK unread \in SUBSET Files : original' = [original EXCEPT !.unread = @ \cup unread]
    BY <1>13, <2>1 DEF RecordUnread, Unknowns
  <2>3. MachineOK'
    BY <1>0, <2>1, <2>2 DEF MachineOK, machine
  <2>4. BoundsOK'
    BY <1>0, <2>1, InstallerAssumption DEF BoundsOK, InstallerAssumption
  <2>5. ProcessOK'
    <3>1. Script' = Script /\ pc' \in 1..Len(Script)
      BY <2>1, NextStep DEF Onward, Script
    <3>2. FlagsOK'
      BY <1>0, <2>1, Zenon DEF Onward, ProcessOK, FlagsOK
    <3>3. op' = op /\ op # "none"
      BY <1>0, <2>1 DEF Onward, At, ProcessOK
    <3> QED
      BY <1>0, <2>1, <3>1, <3>2, <3>3 DEF ProcessOK, Onward
  <2> QED
    BY <2>3, <2>4, <2>5, <2>1, TypeParts, PTL
<1> QED
  BY <1>1, <1>2, <1>3, <1>4, <1>5, <1>6, <1>7, <1>8, <1>9, <1>10, <1>11, <1>12, <1>13 DEF Next

LEMMA InitialTypes ==
    ASSUME InstallerAssumption, Init
    PROVE  TypeOK
<1>1. ProcessOK
  <2>1. FlagsOK
    BY Zenon DEF Init, FlagsOK
  <2>2. op = "none" /\ phase = 0 /\ pc = 0 /\ skipped = {} /\ outcome = "none"
    BY DEF Init
  <2> QED
    BY <2>1, <2>2 DEF ProcessOK
<1>2. MachineOK
  BY DEF Init, MachineOK, Contents
<1>3. JournalOK /\ BoundsOK
  BY DEF Init, JournalOK, NoJournal, BoundsOK, InstallerAssumption
<1> QED
  BY <1>1, <1>2, <1>3, TypeParts

\* Every variable keeps its type; in particular an operation is always at a
\* step of its script, which a phase never runs past (install, rollback_install).
THEOREM Types == Spec => []TypeOK
<1>1. Init => TypeOK
  BY InitialTypes, InstallerAssumption
<1>2. TypeOK /\ [Next]_vars => TypeOK'
  BY TypeStep, InstallerAssumption
<1> QED
  BY <1>1, <1>2, PTL DEF Spec

-----------------------------------------------------------------------------
(* The phases *)

\* A phase has a name of its own.
LEMMA NamesDiffer ==
    ASSUME NEW j \in 1..9, NEW k \in 1..9, InstallPhases[j].name = InstallPhases[k].name
    PROVE  j = k
<1>1. \A i \in 1..9 :
          InstallPhases[i].name =
             CASE i = 1 -> "preflight" [] i = 2 -> "low_memory" [] i = 3 -> "nginx_packages"
               [] i = 4 -> "mihomo" [] i = 5 -> "certificate" [] i = 6 -> "nginx_activation"
               [] i = 7 -> "systemd_harden" [] i = 8 -> "subscription_init" [] i = 9 -> "report"
  BY PhaseTable DEF Phase
<1> QED
  BY <1>1

\* Only the ends and the beginnings of phases change which are done.
LEMMA SamePhase ==
    ASSUME TypeOK, [Next]_vars, ~(Install \/ Update \/ PhaseDone)
    PROVE  \/ op' \in {"none", "rollback"} /\ (journal'.done = journal.done \/ journal' = NoJournal)
           \/ UNCHANGED <<op, phase, skipped>> /\ journal'.done = journal.done
<1>0. JournalOK
  BY TypeParts
<1>1. CASE Rollback \/ Refuse \/ InstallFails \/ Forget \/ RollbackFails \/ Kill
  BY <1>1 DEF Rollback, Refuse, InstallFails, Forget, Save, RollbackFails, Kill, Finish
<1>2. CASE Capture \/ IntendSite \/ IntendStream \/ Start
  BY <1>0, <1>2 DEF Capture, IntendSite, IntendStream, Start, Save, Proceed, Advance, JournalOK
<1>3. CASE Check \/ Reload \/ Apt \/ UnlinkSite \/ WriteStream \/ Snapshot \/ Write \/ Enable
           \/ Undo \/ UndoStream \/ UndoSite
  BY <1>3 DEF Check, Reload, Apt, UnlinkSite, WriteStream, Snapshot, Write, Enable,
     Undo, UndoStream, UndoSite, Proceed, Advance
<1>4. CASE Command \/ CommandFails \/ RemoveLink \/ EditStream \/ WebOn \/ UNCHANGED vars
  BY <1>4 DEF Command, CommandFails, RemoveLink, EditStream, WebOn, process, vars
<1>5. CASE Recording
  BY <1>5, RecordingFacts DEF Onward
<1> QED
  BY <1>1, <1>2, <1>3, <1>4, <1>5 DEF Next, Recording

LEMMA PhaseStep ==
    ASSUME TypeOK, PhaseInv, [Next]_vars
    PROVE  PhaseInv'
<1>0. ProcessOK /\ JournalOK
  BY TypeParts
<1>1. CASE Install
  <2>1. /\ op = "none" /\ skipped' = journal.done /\ journal'.done = journal.done
        /\ IF Following(0, journal.done) = 0
           THEN UNCHANGED <<op, phase, pc>>
           ELSE op' = "install" /\ phase' = Following(0, journal.done)
    BY <1>0, <1>1 DEF Install, Save, Begin, Enter, JournalOK
  <2>2. CASE Following(0, journal.done) = 0
    BY <2>1, <2>2 DEF PhaseInv, Installing
  <2>3. CASE Following(0, journal.done) # 0
    <3>1. /\ phase' \in 1..9 /\ InstallPhases[phase'].name \notin journal.done
          /\ \A q \in 1..(phase' - 1) : InstallPhases[q].name \in journal.done
      BY <2>1, <2>3, FollowingFacts
    <3> QED
      BY <2>1, <2>3, <3>1 DEF PhaseInv, Installing, Current
  <2> QED
    BY <2>2, <2>3
<1>2. CASE Update
  <2> DEFINE others == Phases \ {"systemd_harden"}
  <2>1. /\ op = "none" /\ skipped' = others
        /\ IF Following(0, others) = 0
           THEN UNCHANGED <<op, phase, pc>>
           ELSE op' = "update" /\ phase' = Following(0, others)
    BY <1>2 DEF Update, Begin, Enter
  <2>2. CASE Following(0, others) = 0
    BY <2>1, <2>2 DEF PhaseInv, Installing
  <2>3. CASE Following(0, others) # 0
    <3>1. phase' \in 1..9 /\ InstallPhases[phase'].name \notin others
      BY <2>1, <2>3, FollowingFacts
    <3> QED
      BY <2>1, <2>3, <3>1 DEF PhaseInv, Installing, Current
  <2> QED
    BY <2>2, <2>3
<1>3. CASE PhaseDone
  <2>1. At("done") /\ journal'.done = journal.done \cup {Current}
    BY <1>0, <1>3 DEF PhaseDone, Save, JournalOK
  <2>2. Installing /\ phase \in 1..9
    BY <1>0, <2>1, DoneSteps DEF ProcessOK, Installing
  <2>3. CASE Following(phase, skipped) = 0
    <3>1. op' = "none"
      BY <1>3, <2>3 DEF PhaseDone, Finish
    <3> QED
      BY <3>1 DEF PhaseInv, Installing
  <2>4. CASE Following(phase, skipped) # 0
    <3>0. phase' = Following(phase, skipped) /\ UNCHANGED <<op, skipped>>
      BY <1>3, <2>4 DEF PhaseDone, Enter
    <3>1. PICK n : n = phase' /\ n = Following(phase, skipped)
      BY <3>0
    <3>2. /\ n \in (phase + 1)..9 /\ InstallPhases[n].name \notin skipped
          /\ \A q \in (phase + 1)..(n - 1) : InstallPhases[q].name \in skipped
      BY <2>2, <2>4, <3>1, FollowingFacts
    <3>3. ASSUME op = "install"
        PROVE  /\ skipped' \subseteq journal'.done
               /\ \A k \in 1..(n - 1) : InstallPhases[k].name \in journal'.done
               /\ \A k \in n..9 : InstallPhases[k].name \in journal'.done
                     => InstallPhases[k].name \in skipped'
      <4>1. /\ skipped \subseteq journal.done
            /\ \A k \in 1..(phase - 1) : InstallPhases[k].name \in journal.done
            /\ \A k \in phase..9 :
                  InstallPhases[k].name \in journal.done => InstallPhases[k].name \in skipped
        BY <3>3 DEF PhaseInv
      <4>2. \A k \in 1..(n - 1) : InstallPhases[k].name \in journal'.done
        <5> SUFFICES ASSUME NEW k \in 1..(n - 1)
                     PROVE  InstallPhases[k].name \in journal'.done
          OBVIOUS
        <5>1. phase \in Nat /\ k \in Nat /\ n \in Nat
          BY <2>2, <3>2
        <5>2. CASE k < phase
          BY <2>1, <4>1, <5>1, <5>2
        <5>3. CASE k = phase
          BY <2>1, <5>3 DEF Current
        <5>4. CASE k > phase
          <6>1. k \in (phase + 1)..(n - 1)
            BY <5>1, <5>4
          <6> QED
            BY <2>1, <3>2, <4>1, <6>1
        <5> QED
          BY <5>1, <5>2, <5>3, <5>4
      <4>3. \A k \in n..9 : InstallPhases[k].name # Current
        BY <2>2, <3>2, NamesDiffer DEF Current
      <4> QED
        BY <2>1, <2>2, <3>0, <3>2, <4>1, <4>2, <4>3
    <3>4. op = "update" => skipped' = Phases \ {"systemd_harden"}
      BY <3>0 DEF PhaseInv
    <3> QED
      BY <3>0, <3>1, <3>2, <3>3, <3>4 DEF PhaseInv, Current
  <2> QED
    BY <2>3, <2>4
<1>4. CASE ~(Install \/ Update \/ PhaseDone)
  BY <1>4, SamePhase DEF PhaseInv, Installing, Current
<1> QED
  BY <1>1, <1>2, <1>3, <1>4

-----------------------------------------------------------------------------
(* The files *)

\* A file is named in the journal before it is written.
LEMMA WrittenAhead ==
    ASSUME TypeOK, AheadInv, At("write")
    PROVE  Subject \in journal.written
  BY WriteSteps, SubjectOf DEF AheadInv, AtStep, HardenRecorded

\* What an unwound activation puts back is named in the journal as well.
LEMMA UnwoundAhead ==
    ASSUME TypeOK, AheadInv, Installing
    PROVE  \/ Unwound = files
           \/ /\ phase = 6 /\ {"site", "routes"} \subseteq journal.written
              /\ Unwound = [files EXCEPT !["site"] = snapshot["site"], !["routes"] = snapshot["routes"]]
<1>1. CASE At("write") /\ Current = "nginx_activation"
  <2>1. phase \in {4, 6, 7} /\ pc > 1
    BY <1>1, WriteSteps DEF AtStep
  <2>2. phase = 6
    BY <1>1, <2>1, PhaseTable DEF Current, Phase
  <2> QED
    BY <1>1, <2>1, <2>2 DEF AheadInv, Unwound
<1>2. CASE At("reload")
  BY <1>2, ReloadStep DEF AtStep, AheadInv, Unwound
<1>3. CASE ~(At("write") /\ Current = "nginx_activation") /\ ~At("reload")
  <2>1. pc > 0
    BY TypeParts DEF ProcessOK, Installing
  <2> QED
    BY <1>3, <2>1 DEF At, Unwound
<1> QED
  BY <1>1, <1>2, <1>3

\* Most steps touch neither the files nor what the journal says of them.
LEMMA SameFiles ==
    ASSUME TypeOK, [Next]_vars,
           ~(Recording \/ Write \/ Refuse \/ InstallFails \/ Undo \/ Forget \/ RemoveLink)
    PROVE  /\ files' = files /\ original'.files = original.files /\ original'.unread = original.unread
           /\ journal'.written = journal.written /\ journal'.replaced = journal.replaced
<1>0. JournalOK /\ MachineOK
  BY TypeParts
<1>1. CASE Install \/ Update \/ Rollback
  BY <1>0, <1>1 DEF Install, Update, Rollback, Begin, Save, machine, JournalOK
<1>2. CASE Capture \/ IntendSite \/ IntendStream \/ Start \/ PhaseDone
  BY <1>0, <1>2 DEF Capture, IntendSite, IntendStream, Start, PhaseDone, Save, Proceed, Advance,
     machine, JournalOK
<1>3. CASE Check \/ Reload \/ Apt \/ UnlinkSite \/ WriteStream \/ Snapshot \/ Enable
           \/ UndoStream \/ UndoSite
  BY <1>3 DEF Check, Reload, Apt, UnlinkSite, WriteStream, Snapshot, Enable,
     UndoStream, UndoSite, Proceed, Advance, machine
<1>4. CASE Command \/ CommandFails \/ EditStream \/ RollbackFails \/ Kill \/ UNCHANGED vars
  BY <1>4 DEF Command, CommandFails, EditStream, RollbackFails, Kill, machine, vars
<1>5. CASE WebOn
  BY <1>0, <1>5 DEF WebOn, MachineOK
<1> QED
  BY <1>1, <1>2, <1>3, <1>4, <1>5 DEF Next, Recording

LEMMA FilesStep ==
    ASSUME TypeOK, FilesInv, AheadInv, UndoneInv, [Next]_vars
    PROVE  FilesInv'
<1>0. /\ JournalOK /\ MachineOK
      /\ Before("web") = "absent" /\ \A f \in Files : Journalled(f)
  BY TypeParts DEF FilesInv
<1>1. CASE Recording
  <2>1. PICK unread \in SUBSET Unknowns(Script[pc].on) : RecordedFiles(unread)
    BY <1>1, RecordingFacts
  <2>2. files' = files /\ journal'.written = journal.written \cup Script[pc].on
    BY <1>1, RecordingFacts DEF machine
  <2>3. original'.files = original.files /\ original'.unread = original.unread \cup unread
    BY <1>0, <2>1 DEF MachineOK, RecordedFiles
  <2>4. ASSUME NEW f \in Files PROVE Journalled(f)'
    <3>1. journal'.replaced[f] = IF f \in Unknowns(Script[pc].on) \ unread
                                 THEN files[f] ELSE journal.replaced[f]
      BY <2>1 DEF RecordedFiles
    <3>2. Before(f)' = IF f \in unread THEN "absent" ELSE Before(f)
      BY <2>3 DEF Before
    <3> QED
      BY <1>0, <2>1, <2>2, <2>4, <3>1, <3>2 DEF Journalled, Unknowns, Nothing, MachineOK
  <2>5. Before("web")' = "absent"
    BY <1>0, <2>3 DEF Before
  <2> QED
    BY <2>4, <2>5, Zenon DEF FilesInv
<1>2. CASE Write
  <2>1. /\ original' = original /\ journal' = journal
        /\ files' = [files EXCEPT ![Subject] = "ours"] /\ Subject \in journal.written
    BY <1>2, WrittenAhead DEF Write, Proceed, Advance
  <2>2. ASSUME NEW f \in Files PROVE Journalled(f)'
    BY <1>0, <2>1, <2>2 DEF Before, Journalled, MachineOK
  <2> QED
    BY <1>0, <2>1, <2>2, Zenon DEF Before, FilesInv
<1>3. CASE Refuse \/ InstallFails
  <2>1. /\ original' = original /\ journal' = journal /\ files' = Unwound
        /\ Installing
    BY <1>3, WriteSteps, ReloadStep DEF Refuse, InstallFails, Installing
  <2>2. ASSUME NEW f \in Files PROVE Journalled(f)'
    BY <1>0, <2>1, <2>2, UnwoundAhead DEF Before, Journalled, MachineOK
  <2> QED
    BY <1>0, <2>1, <2>2, Zenon DEF Before, FilesInv
<1>4. CASE Undo
  <2>1. /\ original' = original /\ journal' = journal /\ Subject \in Files
        /\ files' = IF Replaced(Subject) THEN [files EXCEPT ![Subject] = journal.replaced[Subject]]
                    ELSE IF Subject \in journal.written THEN [files EXCEPT ![Subject] = "absent"]
                    ELSE files
    BY <1>4, UndoSubject DEF Undo, Proceed, Advance
  <2>2. ASSUME NEW f \in Files PROVE Journalled(f)'
    BY <1>0, <2>1, <2>2 DEF Before, Journalled, Replaced, Nothing, MachineOK
  <2> QED
    BY <1>0, <2>1, <2>2, Zenon DEF Before, FilesInv
<1>5. CASE Forget
  <2>1. /\ original' = original /\ files' = files
        /\ journal' = journal \/ journal' = NoJournal
        /\ At("forget")
    BY <1>5 DEF Forget, Save, machine
  <2>2. \A f \in Files : files[f] = Before(f)
    BY <2>1, ForgetStep DEF UndoneInv, Restored, AtStep, Files
  <2>3. ASSUME NEW f \in Files PROVE Journalled(f)'
    BY <1>0, <2>1, <2>2, <2>3 DEF Before, Journalled, NoJournal, Nothing
  <2> QED
    BY <1>0, <2>1, <2>3, Zenon DEF Before, FilesInv
<1>6. CASE RemoveLink
  <2>1. /\ files["link"] = "foreign" /\ files' = [files EXCEPT !["link"] = "absent"]
        /\ journal' = journal
        /\ original'.files = [original.files EXCEPT !["link"] = IF Replaced("link") THEN @ ELSE "absent"]
        /\ original'.unread = original.unread
    BY <1>0, <1>6 DEF RemoveLink, MachineOK
  <2>2. ASSUME NEW f \in Files PROVE Journalled(f)'
    BY <1>0, <2>1, <2>2 DEF Before, Journalled, Replaced, Nothing, MachineOK, Files
  <2>3. Before("web")' = "absent"
    BY <1>0, <2>1 DEF Before, MachineOK, Files
  <2> QED
    BY <2>2, <2>3, Zenon DEF FilesInv
<1>7. CASE ~(Recording \/ Write \/ Refuse \/ InstallFails \/ Undo \/ Forget \/ RemoveLink)
  BY <1>0, <1>7, SameFiles DEF FilesInv, Journalled, Before
<1> QED
  BY <1>1, <1>2, <1>3, <1>4, <1>5, <1>6, <1>7

-----------------------------------------------------------------------------
(* The units *)

\* What the commands of a rollback depend on and do
LEMMA CommandMeaning ==
    ASSUME NEW k, NEW do, NEW u, AtStep(0, k, do, {u}), pc > 0
    PROVE  /\ Subject = u
           /\ do = "stop" /\ u \in Captured =>
                 /\ Due <=> journal.captured[u] # Unknown /\ "active" \notin journal.captured[u]
                 /\ \A was : Effect(was) = was \ {"active"}
           /\ do = "disable" /\ u \in Captured =>
                 /\ Due <=> journal.captured[u] # Unknown /\ "enabled" \notin journal.captured[u]
                 /\ \A was : Effect(was) = was \ {"enabled"}
           /\ do = "retire" =>
                 /\ Due <=> Hardened /\ (u = "web" => "web" \in journal.written /\ ~Replaced("web"))
                 /\ \A was : Effect(was) = Off
           /\ do = "reenable" /\ u \in Captured =>
                 /\ Due <=> Hardened /\ "enabled" \in journal.captured[u]
                 /\ \A was : Effect(was) = was \cup {"enabled"}
           /\ do = "restart" /\ u \in Captured =>
                 /\ Due <=> Hardened /\ "active" \in journal.captured[u]
                 /\ \A was : Effect(was) = was \cup {"active"}
<1>1. Subject = u
  BY SubjectOf
<1>2. \A other : At(other) <=> other = do
  BY DEF AtStep, At, Step
<1> QED
  BY <1>1, <1>2 DEF Due, Effect

\* The phases of an installation come after that of the packages; an update
\* has one phase.
LEMMA PackagesBefore ==
    ASSUME TypeOK, PhaseInv, Installing
    PROVE  /\ op = "update" => phase = 7
           /\ op = "install" /\ phase > 3 => "nginx_packages" \in journal.done
<1>1. phase \in 1..9
  BY TypeParts DEF ProcessOK, Installing
<1>2. op = "update" => phase = 7
  <2>1. op = "update" => Current = "systemd_harden"
    BY <1>1, CurrentPhase DEF PhaseInv, Current
  <2> QED
    BY <1>1, <2>1, PhaseTable, NamesDiffer DEF Current, Phase
<1>3. op = "install" /\ phase > 3 => "nginx_packages" \in journal.done
  BY <1>1, PhaseTable DEF PhaseInv, Phase
<1> QED
  BY <1>2, <1>3

\* Most steps touch neither the units nor what the journal says of them.
LEMMA SameServices ==
    ASSUME TypeOK, [Next]_vars,
           ~(Capture \/ Apt \/ Recording \/ Start \/ Enable \/ PhaseDone \/ Command \/ Forget \/ WebOn)
    PROVE  /\ services' = services /\ original'.services = original.services
           /\ journal'.captured = journal.captured
           /\ journal'.done = journal.done /\ journal'.started = journal.started
<1>0. JournalOK /\ MachineOK
  BY TypeParts
<1>1. CASE Install \/ Update \/ Rollback
  BY <1>0, <1>1 DEF Install, Update, Rollback, Begin, Save, machine, JournalOK
<1>2. CASE IntendSite \/ IntendStream
  BY <1>0, <1>2 DEF IntendSite, IntendStream, Save, Proceed, Advance, machine, JournalOK
<1>3. CASE Check \/ Reload \/ UnlinkSite \/ WriteStream \/ Snapshot \/ Write \/ Undo
           \/ UndoStream \/ UndoSite \/ Refuse \/ InstallFails
  BY <1>3 DEF Check, Reload, UnlinkSite, WriteStream, Snapshot, Write, Undo,
     UndoStream, UndoSite, Refuse, InstallFails, Proceed, Advance, machine
<1>4. CASE CommandFails \/ EditStream \/ RollbackFails \/ Kill \/ UNCHANGED vars
  BY <1>4 DEF CommandFails, EditStream, RollbackFails, Kill, machine, vars
<1>5. CASE RemoveLink
  BY <1>0, <1>5 DEF RemoveLink, MachineOK
<1> QED
  BY <1>1, <1>2, <1>3, <1>4, <1>5 DEF Next, Recording

\* What is captured is known.
LEMMA KnownState ==
    ASSUME MachineOK, NEW u \in Units
    PROVE  services[u] # Unknown /\ original.services[u] # Unknown
  BY DEF MachineOK, UnitState, Unknown

\* At its end, a rollback without failures has restored the units.
LEMMA ServicesRestored ==
    ASSUME TypeOK, ServicesInv, CommandsInv, At("forget"), ~failures
    PROVE  /\ \A u \in Captured : services[u] = original.services[u]
           /\ services["web"] \in {Off, original.services["web"]}
<1>1. op = "rollback" /\ pc = 19
  BY ForgetStep DEF AtStep
<1>2. services["nginx"] = original.services["nginx"]
  <2>1. services["nginx"] \in UnitState
    BY TypeParts DEF MachineOK, Units, Captured
  <2>2. Lacks("nginx", "active") /\ Lacks("nginx", "enabled")
    BY <1>1 DEF CommandsInv
  <2> QED
    BY <2>1, <2>2 DEF Lacks, UnitState, ServicesInv
<1>3. services["socket"] = original.services["socket"] /\ services["timer"] = original.services["timer"]
  BY <1>1 DEF CommandsInv, ServicesInv
<1>4. services["web"] \in {Off, original.services["web"]}
  BY <1>1 DEF CommandsInv, ServicesInv
<1> QED
  BY <1>2, <1>3, <1>4 DEF Captured

LEMMA ServicesStep ==
    ASSUME TypeOK, PhaseInv, ServicesInv, AheadInv, CommandsInv, [Next]_vars
    PROVE  ServicesInv'
<1>0. /\ JournalOK /\ MachineOK
      /\ \A u \in Captured : Kept(u)
  BY TypeParts DEF ServicesInv
<1>u. Captured \subseteq Units /\ "web" \in Units /\ "web" \notin Captured /\ {"nginx", "socket", "timer"} \subseteq Captured
  BY DEF Units, Captured
<1>1. CASE Capture \/ Recording
  <2>1. /\ original'.services = original.services /\ services' = services
        /\ journal'.done = journal.done /\ journal'.started = journal.started
    <3>1. CASE Capture
      BY <1>0, <3>1 DEF Capture, Save, Proceed, Advance, machine, JournalOK
    <3>2. CASE Recording
      <4>1. PICK unread : original' = [original EXCEPT !.unread = @ \cup unread]
        BY <3>2, RecordingFacts DEF RecordedFiles
      <4> QED
        BY <1>0, <3>2, <4>1, RecordingFacts DEF machine, MachineOK
    <3> QED
      BY <1>1, <3>1, <3>2
  <2>2. \A u \in Captured : journal'.captured[u] \in {journal.captured[u], services[u]}
                            /\ (journal'.captured[u] # journal.captured[u] => journal.captured[u] = Unknown)
    <3>1. CASE Capture
      <4>1. journal' = journal \/ journal' = [journal EXCEPT !.captured["nginx"] = services["nginx"]]
        BY <3>1 DEF Capture, Save
      <4>2. journal' # journal => journal.captured["nginx"] = Unknown
        BY <3>1 DEF Capture, Save
      <4> QED
        BY <1>0, <1>u, <4>1, <4>2 DEF JournalOK
    <3>2. CASE Recording
      BY <3>2, RecordingFacts DEF RecordedUnits
    <3> QED
      BY <1>1, <3>1, <3>2
  <2>3. ASSUME NEW u \in Captured PROVE Kept(u)'
    BY <1>0, <1>u, <2>1, <2>2, <2>3, KnownState DEF Kept
  <2> QED
    BY <2>1, <2>3 DEF ServicesInv, Hardened
<1>2. CASE Apt
  <2>1. /\ original' = original /\ journal' = journal
        /\ services' = services \/ services' = [services EXCEPT !["nginx"] = On]
    BY <1>2 DEF Apt, Proceed, Advance
  <2>2. journal.captured["nginx"] # Unknown
    BY <1>2, AptStep DEF Apt, AtStep, AheadInv
  <2>3. ASSUME NEW u \in Captured PROVE Kept(u)'
    BY <1>0, <1>u, <2>1, <2>2, <2>3 DEF Kept, MachineOK
  <2>4. original.services["nginx"] \subseteq On
    BY <1>0, <1>u DEF MachineOK, UnitState, On
  <2> QED
    BY <1>0, <1>u, <2>1, <2>3, <2>4 DEF ServicesInv, Hardened, MachineOK
<1>3. CASE Start \/ PhaseDone
  <2>1. /\ original' = original /\ services' = services /\ journal'.captured = journal.captured
        /\ Hardened => Hardened'
    BY <1>0, <1>3 DEF Start, PhaseDone, Save, Proceed, Advance, machine, JournalOK, Hardened
  <2>2. ASSUME NEW u \in Captured PROVE Kept(u)'
    BY <1>0, <2>1, <2>2 DEF Kept
  <2> QED
    BY <2>1, <2>2 DEF ServicesInv
<1>4. CASE Enable
  <2>1. /\ original' = original /\ journal' = journal
        /\ services' = [services EXCEPT ![Subject] = On] /\ At("enable")
    BY <1>4 DEF Enable, Proceed, Advance
  <2>2. /\ Subject \in Captured /\ journal.captured[Subject] # Unknown
        /\ Subject # "nginx" => Hardened
    <3>1. CASE AtStep(6, 6, "enable", {"nginx"})
      <4>1. "nginx_packages" \in journal.done
        BY <2>1, <3>1, EnableSteps, PackagesBefore DEF AtStep, Installing
      <4> QED
        BY <1>u, <3>1, <4>1, SubjectOf DEF AheadInv
    <3>2. CASE AtStep(7, 8, "enable", {"socket"})
      BY <1>u, <3>2, SubjectOf DEF AheadInv, AtStep, HardenRecorded, Hardened
    <3>3. CASE AtStep(7, 9, "enable", {"timer"})
      BY <1>u, <3>3, SubjectOf DEF AheadInv, AtStep, HardenRecorded, Hardened
    <3> QED
      BY <2>1, <3>1, <3>2, <3>3, EnableSteps
  <2>3. ASSUME NEW u \in Captured PROVE Kept(u)'
    BY <1>0, <1>u, <2>1, <2>2, <2>3 DEF Kept, MachineOK
  <2>4. original.services["nginx"] \subseteq On
    BY <1>0, <1>u DEF MachineOK, UnitState, On
  <2> QED
    BY <1>0, <1>u, <2>1, <2>2, <2>3, <2>4 DEF ServicesInv, Hardened, MachineOK
<1>5. CASE Command
  <2>1. /\ original' = original /\ journal' = journal /\ IsCommand
        /\ services' = services \/ (Due /\ services' = [services EXCEPT ![Subject] = Effect(@)])
    BY <1>5 DEF Command
  <2>p. pc > 0
    BY <2>1, TypeParts DEF ProcessOK, IsCommand
  <2>2. CASE services' = services
    <3>1. ASSUME NEW u \in Captured PROVE Kept(u)'
      BY <1>0, <2>1, <2>2, <3>1 DEF Kept
    <3> QED
      BY <2>1, <2>2, <3>1 DEF ServicesInv, Hardened
  <2>3. CASE Due /\ services' = [services EXCEPT ![Subject] = Effect(@)]
    <3>1. \/ /\ Subject = "nginx" /\ journal.captured["nginx"] # Unknown
             /\ \/ "active" \notin journal.captured["nginx"]
                   /\ Effect(services["nginx"]) = services["nginx"] \ {"active"}
                \/ "enabled" \notin journal.captured["nginx"]
                   /\ Effect(services["nginx"]) = services["nginx"] \ {"enabled"}
          \/ /\ Subject \in {"socket", "timer"} /\ Hardened
             /\ journal.captured[Subject] # Unknown
          \/ Subject = "web" /\ Effect(services["web"]) = Off
      <4>1. CASE AtStep(0, 1, "stop", {"nginx"})
        BY <1>u, <2>p, <2>3, <4>1, CommandMeaning
      <4>2. CASE AtStep(0, 2, "disable", {"nginx"})
        BY <1>u, <2>p, <2>3, <4>2, CommandMeaning
      <4>3. CASE AtStep(0, 5, "retire", {"web"})
        BY <2>p, <2>3, <4>3, CommandMeaning
      <4>4. CASE \/ AtStep(0, 3, "retire", {"socket"}) \/ AtStep(0, 4, "retire", {"timer"})
                 \/ AtStep(0, 15, "reenable", {"socket"}) \/ AtStep(0, 16, "restart", {"socket"})
                 \/ AtStep(0, 17, "reenable", {"timer"}) \/ AtStep(0, 18, "restart", {"timer"})
        <5>1. Subject \in {"socket", "timer"} /\ Hardened
          BY <1>u, <2>p, <2>3, <4>4, CommandMeaning
        <5> QED
          BY <5>1 DEF AheadInv, HardenRecorded
      <4> QED
        BY <2>1, <4>1, <4>2, <4>3, <4>4, CommandSteps
    <3>2. ASSUME NEW u \in Captured PROVE Kept(u)'
      BY <1>0, <1>u, <2>1, <2>3, <3>1, <3>2 DEF Kept, MachineOK
    <3>3. original.services["nginx"] \subseteq services'["nginx"]
      <4>1. journal.captured["nginx"] \in {Unknown, original.services["nginx"]}
        BY <1>0, <1>u DEF Kept
      <4> QED
        BY <1>0, <1>u, <2>3, <3>1, <4>1 DEF ServicesInv, MachineOK
    <3> QED
      BY <1>0, <1>u, <2>1, <2>3, <3>1, <3>2, <3>3 DEF ServicesInv, Hardened, MachineOK
  <2> QED
    BY <2>1, <2>2, <2>3
<1>6. CASE Forget
  <2>1. /\ original' = original /\ services' = services /\ At("forget")
        /\ journal' = journal \/ (journal' = NoJournal /\ ~failures)
    BY <1>6 DEF Forget, Save, machine
  <2>2. CASE journal' = journal
    <3>1. ASSUME NEW u \in Captured PROVE Kept(u)'
      BY <1>0, <2>1, <2>2, <3>1 DEF Kept
    <3> QED
      BY <2>1, <2>2, <3>1 DEF ServicesInv, Hardened
  <2>3. CASE journal' = NoJournal /\ ~failures
    <3>1. ASSUME NEW u \in Captured PROVE Kept(u)'
      BY <2>1, <2>3, <3>1, ServicesRestored DEF Kept, NoJournal
    <3> QED
      BY <1>u, <2>1, <2>3, <3>1, ServicesRestored DEF ServicesInv
  <2> QED
    BY <2>1, <2>2, <2>3
<1>7. CASE WebOn
  <2>1. /\ journal' = journal /\ services' = [services EXCEPT !["web"] = On]
        /\ original'.services = [original.services EXCEPT !["web"] = IF Hardened THEN @ ELSE On]
    BY <1>0, <1>7 DEF WebOn, MachineOK
  <2>2. ASSUME NEW u \in Captured PROVE Kept(u)'
    BY <1>0, <1>u, <2>1, <2>2 DEF Kept, MachineOK
  <2> QED
    BY <1>0, <1>u, <2>1, <2>2 DEF ServicesInv, Hardened, MachineOK
<1>8. CASE ~(Capture \/ Apt \/ Recording \/ Start \/ Enable \/ PhaseDone \/ Command \/ Forget \/ WebOn)
  <2>1. ASSUME NEW u \in Captured PROVE Kept(u)'
    BY <1>0, <1>8, <2>1, SameServices DEF Kept
  <2> QED
    BY <1>8, <2>1, SameServices DEF ServicesInv, Hardened
<1> QED
  BY <1>1, <1>2, <1>3, <1>4, <1>5, <1>6, <1>7, <1>8

-----------------------------------------------------------------------------
(* The journal is ahead *)

\* Most steps touch neither nginx's stock site and include block nor what the
\* journal says of them.
LEMMA SameNginx ==
    ASSUME TypeOK, [Next]_vars,
           ~(Apt \/ IntendSite \/ UnlinkSite \/ IntendStream \/ WriteStream \/ UndoStream \/ UndoSite
             \/ Forget \/ EditStream)
    PROVE  /\ default' = default /\ stream' = stream
           /\ journal'.site = journal.site /\ journal'.stream = journal.stream
<1>0. JournalOK
  BY TypeParts
<1>1. CASE Install \/ Update \/ Rollback
  BY <1>0, <1>1 DEF Install, Update, Rollback, Begin, Save, machine, JournalOK
<1>2. CASE Capture \/ Start \/ PhaseDone
  BY <1>0, <1>2 DEF Capture, Start, PhaseDone, Save, machine, JournalOK
<1>3. CASE Check \/ Reload \/ Snapshot \/ Write \/ Enable \/ Undo \/ Refuse \/ InstallFails
  BY <1>3 DEF Check, Reload, Snapshot, Write, Enable, Undo, Refuse, InstallFails, machine
<1>4. CASE Command \/ CommandFails \/ RollbackFails \/ Kill \/ RemoveLink \/ WebOn \/ UNCHANGED vars
  BY <1>4 DEF Command, CommandFails, RollbackFails, Kill, RemoveLink, WebOn, machine, vars
<1>5. CASE Recording
  BY <1>5, RecordingFacts DEF machine
<1> QED
  BY <1>1, <1>2, <1>3, <1>4, <1>5 DEF Next, Recording

LEMMA NginxStep ==
    ASSUME TypeOK, NginxInv, AheadInv, UndoneInv, [Next]_vars
    PROVE  NginxInv'
<1>0. JournalOK /\ MachineOK
  BY TypeParts
<1>1. CASE Apt \/ EditStream
  BY <1>1 DEF Apt, EditStream, NginxInv
<1>2. CASE IntendSite \/ IntendStream
  BY <1>0, <1>2 DEF IntendSite, IntendStream, Save, machine, JournalOK, NginxInv
<1>3. CASE UnlinkSite
  BY <1>3, UnlinkSiteStep DEF UnlinkSite, AtStep, AheadInv, NginxInv
<1>4. CASE WriteStream
  BY <1>4, WriteStreamStep DEF WriteStream, AtStep, AheadInv, NginxInv
<1>5. CASE UndoStream \/ UndoSite
  BY <1>5 DEF UndoStream, UndoSite, NginxInv
<1>6. CASE Forget
  <2>1. default # "removed" /\ stream # "ours"
    BY <1>6, ForgetStep DEF Forget, AtStep, UndoneInv
  <2> QED
    BY <1>6, <2>1 DEF Forget, machine, NginxInv
<1>7. CASE ~(Apt \/ IntendSite \/ UnlinkSite \/ IntendStream \/ WriteStream \/ UndoStream
             \/ UndoSite \/ Forget \/ EditStream)
  BY <1>7, SameNginx DEF NginxInv
<1> QED
  BY <1>1, <1>2, <1>3, <1>4, <1>5, <1>6, <1>7

\* What is in the journal stays there, until a rollback forgets it.
Grown ==
    /\ journal.written \subseteq journal'.written
    /\ \A u \in Captured : journal.captured[u] # Unknown => journal'.captured[u] # Unknown
    /\ journal.started => journal'.started

LEMMA JournalGrows ==
    ASSUME TypeOK, [Next]_vars
    PROVE  \/ /\ Grown
              /\ PhaseDone \/ journal'.done = journal.done
              /\ Start \/ journal'.started = journal.started
           \/ journal' = NoJournal /\ Forget
<1>0. JournalOK /\ MachineOK
  BY TypeParts
<1>1. CASE Forget
  BY <1>1 DEF Forget, Save, Grown
<1>2. CASE Capture \/ Recording \/ Start
  <2>1. \A u \in Units : services[u] # Unknown
    BY <1>0, KnownState
  <2>2. CASE Capture
    BY <1>0, <2>1, <2>2 DEF Capture, Save, JournalOK, Grown, Units, Captured
  <2>3. CASE Recording
    BY <2>1, <2>3, RecordingFacts DEF RecordedUnits, Grown, Units
  <2>4. CASE Start
    BY <1>0, <2>4 DEF Start, Save, JournalOK, Grown
  <2> QED
    BY <1>2, <2>2, <2>3, <2>4
<1>3. CASE Install \/ Update \/ IntendSite \/ IntendStream \/ PhaseDone
  BY <1>0, <1>3 DEF Install, Update, IntendSite, IntendStream, PhaseDone, Save, JournalOK, Grown
<1>4. CASE ~(Forget \/ Capture \/ Recording \/ Start \/ Install \/ Update \/ IntendSite \/ IntendStream
             \/ PhaseDone)
  <2>1. journal' = journal
    BY <1>4 DEF Next, Rollback, Check, Reload, Apt, UnlinkSite, WriteStream, Snapshot, Write, Refuse,
       Enable, InstallFails, Command, CommandFails, Undo, UndoStream, UndoSite, RollbackFails, Kill,
       RemoveLink, EditStream, WebOn, vars, Recording
  <2> QED
    BY <2>1 DEF Grown
<1> QED
  BY <1>1, <1>2, <1>3, <1>4

\* What the journal has of a phase stays there as well.
LEMMA HardenGrows ==
    ASSUME Grown, HardenRecorded
    PROVE  HardenRecorded'
  BY DEF Grown, HardenRecorded, Captured

\* The steps of an installation, but for the ends of its phases
InstallStep ==
    \/ Check \/ Reload \/ Capture \/ Apt \/ IntendSite \/ UnlinkSite \/ IntendStream \/ WriteStream
    \/ Recording \/ Snapshot \/ Write \/ Start \/ Enable

LEMMA Moves ==
    ASSUME TypeOK, [Next]_vars
    PROVE  \/ phase' = 0
           \/ (Install \/ Update \/ PhaseDone) /\ pc' = 1
           \/ UNCHANGED vars
           \/ InstallStep /\ Onward
<1>0. ProcessOK
  BY TypeParts
<1>1. CASE Install \/ Update
  <2>1. op = "none" /\ ((phase' = phase) \/ (pc' = 1))
    BY <1>1 DEF Install, Update, Begin, Enter
  <2> QED
    BY <1>0, <1>1, <2>1 DEF ProcessOK
<1>2. CASE PhaseDone
  BY <1>2 DEF PhaseDone, Finish, Enter
<1>3. CASE Rollback \/ Refuse \/ InstallFails \/ Forget \/ RollbackFails \/ Kill
  BY <1>3 DEF Rollback, Refuse, InstallFails, Forget, RollbackFails, Kill, Finish
<1>4. CASE InstallStep
  BY <1>4, RecordingFacts DEF InstallStep, Check, Reload, Capture, Apt, IntendSite, UnlinkSite,
     IntendStream, WriteStream, Snapshot, Write, Start, Enable, Proceed, Advance, Onward
<1>5. CASE Command \/ CommandFails \/ Undo \/ UndoStream \/ UndoSite
  <2>1. op = "rollback" /\ phase' = phase
    BY <1>5, UndoSteps, UndoStreamStep, UndoSiteStep
       DEF Command, CommandFails, IsCommand, Undo, UndoStream, UndoSite, Proceed, Advance
  <2> QED
    BY <1>0, <2>1 DEF ProcessOK
<1>6. CASE RemoveLink \/ EditStream \/ WebOn
  <2>1. op = "none" /\ phase' = phase
    BY <1>6 DEF RemoveLink, EditStream, WebOn, process
  <2> QED
    BY <1>0, <2>1 DEF ProcessOK
<1> QED
  BY <1>1, <1>2, <1>3, <1>4, <1>5, <1>6 DEF Next, InstallStep, Recording

LEMMA AheadStep ==
    ASSUME TypeOK, AheadInv, [Next]_vars
    PROVE  AheadInv'
<1>0. JournalOK /\ MachineOK
  BY TypeParts
<1>1. /\ "nginx_packages" \in journal'.done => journal'.captured["nginx"] # Unknown
      /\ Hardened' => HardenRecorded'
  <2>1. CASE journal' = NoJournal
    BY <2>1 DEF NoJournal, Hardened
  <2>2. CASE Grown /\ PhaseDone
    <3>1. /\ journal'.done = journal.done \cup {Current} /\ journal'.started = journal.started
          /\ At("done")
      BY <1>0, <2>2 DEF PhaseDone, Save, JournalOK
    <3>2. Current = "nginx_packages" => journal.captured["nginx"] # Unknown
      BY <3>1, DoneSteps, PhaseTable DEF AtStep, Current, Phase, AheadInv
    <3>3. Current = "systemd_harden" => HardenRecorded
      BY <3>1, DoneSteps, PhaseTable DEF AtStep, Current, Phase, AheadInv
    <3>4. Hardened' => HardenRecorded
      BY <3>1, <3>3 DEF Hardened, AheadInv
    <3> QED
      BY <2>2, <3>1, <3>2, <3>4, HardenGrows DEF Grown, AheadInv, Captured
  <2>3. CASE Grown /\ journal'.done = journal.done /\ Start
    BY <2>3, StartStep, HardenGrows DEF AtStep, AheadInv, Start, Grown, Captured
  <2>4. CASE Grown /\ journal'.done = journal.done /\ journal'.started = journal.started
    BY <2>4, HardenGrows DEF AheadInv, Hardened, Grown, Captured
  <2> QED
    BY <2>1, <2>2, <2>3, <2>4, JournalGrows
<1>2. CASE phase' = 0 \/ pc' = 1
  BY <1>1, <1>2 DEF AheadInv
<1>3. CASE UNCHANGED vars
  BY <1>3 DEF vars, machine, process, AheadInv, Hardened, HardenRecorded
<1>4. CASE InstallStep /\ Onward
  <2>1. phase' = phase /\ pc' = pc + 1
    BY <1>4 DEF Onward
  <2>2. Grown
    <3>1. ~Forget
      BY <1>4, ForgetStep, OneStep DEF AtStep, Forget, Finish, Onward
    <3> QED
      BY <3>1, JournalGrows
  <2>3. CASE Check
    BY <1>1, <2>1, <2>2, <2>3, CheckSteps, HardenGrows DEF Check, AtStep, AheadInv, Grown
  <2>4. CASE Capture
    <3>1. journal'.captured["nginx"] # Unknown
      BY <1>0, <2>4, KnownState DEF Capture, Save, JournalOK, Units, Captured
    <3> QED
      BY <1>1, <2>1, <2>4, <3>1, CaptureStep DEF Capture, AtStep, AheadInv
  <2>5. CASE IntendSite
    <3>1. default' = "stock" => journal'.site
      BY <1>0, <2>5 DEF IntendSite, Save, machine, JournalOK
    <3> QED
      BY <1>1, <2>1, <2>2, <2>5, <3>1, IntendSiteStep DEF IntendSite, AtStep, AheadInv, Grown, Captured
  <2>6. CASE IntendStream
    <3>1. stream' = "none" => journal'.stream
      BY <1>0, <2>6 DEF IntendStream, Save, machine, JournalOK
    <3> QED
      BY <1>1, <2>1, <2>2, <2>6, <3>1, IntendStreamStep DEF IntendStream, AtStep, AheadInv, Grown, Captured
  <2>7. CASE Apt \/ UnlinkSite \/ WriteStream
    BY <1>1, <2>1, <2>2, <2>7, AptStep, UnlinkSiteStep, WriteStreamStep
       DEF Apt, UnlinkSite, WriteStream, AtStep, AheadInv, Grown, Captured
  <2>8. CASE Recording
    <3>1. /\ At("record") /\ Script[pc].on \subseteq journal'.written
          /\ \A u \in Script[pc].on \cap Captured : journal'.captured[u] # Unknown
      BY <1>0, <2>8, KnownState, RecordingFacts DEF RecordedUnits, Units
    <3> QED
      BY <1>1, <2>1, <3>1, RecordSteps DEF AtStep, Step, AheadInv, HardenRecorded, Captured
  <2>9. CASE Start
    <3>1. journal'.started
      BY <1>0, <2>9 DEF Start, Save, JournalOK
    <3> QED
      BY <1>1, <2>1, <2>2, <2>9, <3>1, StartStep, HardenGrows DEF Start, AtStep, AheadInv
  <2>10. CASE Reload \/ Snapshot
    BY <1>1, <2>1, <2>2, <2>10, ReloadStep, SnapshotStep DEF Reload, Snapshot, AtStep, AheadInv, Grown
  <2>11. CASE Write
    BY <1>1, <2>1, <2>2, <2>11, WriteSteps, HardenGrows DEF Write, AtStep, AheadInv, Grown
  <2>12. CASE Enable
    BY <1>1, <2>1, <2>2, <2>12, EnableSteps, HardenGrows DEF Enable, AtStep, AheadInv, Grown
  <2> QED
    BY <1>4, <2>3, <2>4, <2>5, <2>6, <2>7, <2>8, <2>9, <2>10, <2>11, <2>12 DEF InstallStep
<1> QED
  BY <1>2, <1>3, <1>4, Moves

-----------------------------------------------------------------------------
(* What the phases bring about *)

\* What has been brought about stays, but for an activation that is unwound.
Intact ==
    /\ \A f \in Files : files[f] = "ours" =>
          \/ files'[f] = "ours"
          \/ f \in {"site", "routes"} /\ phase' = 0 /\ "nginx_activation" \notin journal'.done
    /\ \A u \in Captured : services[u] = On => services'[u] = On
    /\ default # "unpackaged" => default' # "unpackaged"
    /\ default \in {"none", "removed"} => default' \in {"none", "removed"}
    /\ stream # "none" => stream' # "none"

\* Only an activation that is not done can be unwound.
LEMMA UnwoundUndone ==
    ASSUME TypeOK, PhaseInv, AheadInv, Installing, Unwound # files
    PROVE  "nginx_activation" \notin journal.done
<1>1. phase = 6
  BY UnwoundAhead
<1>2. Current = "nginx_activation"
  BY <1>1, PhaseTable DEF Current, Phase
<1>3. op = "install"
  BY <1>1, PackagesBefore DEF Installing
<1>4. "nginx_activation" \in journal.done => "nginx_activation" \in skipped
  BY <1>1, <1>2, <1>3 DEF PhaseInv, Current
<1> QED
  BY <1>2, <1>4 DEF PhaseInv

LEMMA EffectsStay ==
    ASSUME TypeOK, PhaseInv, AheadInv, UndoneInv, [Next]_vars, ~torn
    PROVE  Intact
<1>0. MachineOK /\ op # "rollback"
  BY TypeParts DEF UndoneInv
<1>u. Captured \subseteq Units /\ "web" \in Units /\ "web" \notin Captured /\ "link" \in Files
  BY DEF Units, Captured, Files
<1>1. CASE Write
  BY <1>0, <1>1, WriteSubject DEF Write, MachineOK, Intact
<1>2. CASE Refuse \/ InstallFails
  <2>1. /\ files' = Unwound /\ phase' = 0 /\ journal' = journal /\ Installing
        /\ UNCHANGED <<services, default, stream>>
    BY <1>2, WriteSteps, ReloadStep DEF Refuse, InstallFails, Finish, Installing
  <2>2. Unwound # files =>
           /\ "nginx_activation" \notin journal.done
           /\ Unwound = [files EXCEPT !["site"] = snapshot["site"], !["routes"] = snapshot["routes"]]
    BY <2>1, UnwoundAhead, UnwoundUndone
  <2>3. \A f \in Files \ {"site", "routes"} : Unwound[f] = files[f]
    BY <1>0, <2>2 DEF MachineOK
  <2> QED
    BY <2>1, <2>2, <2>3 DEF Intact
<1>3. CASE Enable
  BY <1>0, <1>u, <1>3, EnableSubject DEF Enable, MachineOK, Intact
<1>4. CASE Apt
  BY <1>0, <1>u, <1>4 DEF Apt, MachineOK, Intact
<1>5. CASE UnlinkSite \/ WriteStream \/ EditStream
  BY <1>5 DEF UnlinkSite, WriteStream, EditStream, Intact
<1>6. CASE RemoveLink
  BY <1>0, <1>u, <1>6 DEF RemoveLink, MachineOK, Intact
<1>7. CASE WebOn
  BY <1>0, <1>u, <1>7 DEF WebOn, MachineOK, Intact
<1>8. CASE Command \/ CommandFails \/ Undo \/ UndoStream \/ UndoSite \/ Forget \/ RollbackFails
  BY <1>0, <1>8, UndoSteps, UndoStreamStep, UndoSiteStep, ForgetStep
     DEF Command, CommandFails, IsCommand, Undo, UndoStream, UndoSite, Forget, RollbackFails
<1>9. CASE \/ Install \/ Update \/ Rollback \/ Check \/ Reload \/ Capture \/ IntendSite \/ IntendStream
           \/ Recording \/ Snapshot \/ Start \/ PhaseDone \/ Kill \/ UNCHANGED vars
  <2>1. UNCHANGED machine
    BY <1>9 DEF Install, Update, Rollback, Begin, Check, Reload, Capture, IntendSite, IntendStream,
       Recording, Record, RecordUnread, Snapshot, Start, PhaseDone, Kill, vars
  <2> QED
    BY <2>1 DEF machine, Intact
<1> QED
  BY <1>1, <1>2, <1>3, <1>4, <1>5, <1>6, <1>7, <1>8, <1>9 DEF Next, Recording

LEMMA EffectOfPhasesStep ==
    ASSUME TypeOK, PhaseInv, AheadInv, UndoneInv, EffectOfStep, EffectOfPhases, [Next]_vars, ~torn
    PROVE  EffectOfPhases'
<1>0. JournalOK /\ Intact
  BY TypeParts, EffectsStay
<1>u. /\ {"core", "site", "routes", "link", "socket", "timer", "web"} \subseteq Files
      /\ {"nginx", "socket", "timer"} \subseteq Captured
  BY DEF Files, Captured
<1>1. CASE journal' = NoJournal
  BY <1>1 DEF NoJournal, EffectOfPhases
<1>2. CASE journal'.done = journal.done
  BY <1>0, <1>u, <1>2 DEF EffectOfPhases, Ours, Intact
<1>3. CASE PhaseDone
  <2>1. /\ At("done") /\ journal'.done = journal.done \cup {Current}
        /\ files' = files /\ services' = services /\ default' = default /\ stream' = stream
    BY <1>0, <1>3 DEF PhaseDone, Save, JournalOK, machine
  <2>2. Current = "nginx_packages" => default \in {"none", "removed"} /\ stream # "none"
    BY <2>1, DoneSteps, PhaseTable, TypeParts DEF AtStep, Current, Phase, EffectOfStep, MachineOK
  <2>3. Current = "mihomo" => Ours({"core"})
    BY <2>1, DoneSteps, PhaseTable DEF AtStep, Current, Phase, EffectOfStep
  <2>4. Current = "nginx_activation" => Ours({"site", "routes"}) /\ services["nginx"] = On
    BY <2>1, DoneSteps, PhaseTable DEF AtStep, Current, Phase, EffectOfStep, Ours
  <2>5. Current = "systemd_harden" =>
           /\ Ours({"link", "socket", "timer", "web"})
           /\ services["socket"] = On /\ services["timer"] = On
    BY <2>1, DoneSteps, PhaseTable DEF AtStep, Current, Phase, EffectOfStep, Ours
  <2> QED
    BY <2>1, <2>2, <2>3, <2>4, <2>5 DEF EffectOfPhases, Ours
<1> QED
  BY <1>1, <1>2, <1>3, JournalGrows

\* A step of an installation does what its script says.
LEMMA TheStep ==
    ASSUME InstallStep, NEW p, NEW k, NEW do, NEW on, AtStep(p, k, do, on)
    PROVE  /\ do = "apt" => Apt
           /\ do = "unlink_site" => UnlinkSite
           /\ do = "write_stream" => WriteStream
           /\ do = "write" => Write
           /\ do = "enable" => Enable
<1>1. \A other : At(other) => do = other
  BY OneStep
<1> QED
  BY <1>1 DEF InstallStep, Check, Reload, Capture, Apt, IntendSite, UnlinkSite, IntendStream,
     WriteStream, Recording, Record, RecordUnread, Snapshot, Write, Start, Enable

LEMMA StepBringsAbout ==
    ASSUME TypeOK, InstallStep, Installing
    PROVE  /\ phase = 3 /\ pc = 2 => default' # "unpackaged"
           /\ phase = 3 /\ pc = 4 => default' # "stock"
           /\ phase = 3 /\ pc = 6 => stream' # "none"
           /\ phase = 4 /\ pc = 2 => files'["core"] = "ours"
           /\ phase = 6 /\ pc = 3 => files'["site"] = "ours"
           /\ phase = 6 /\ pc = 4 => files'["routes"] = "ours"
           /\ phase = 6 /\ pc = 6 => services'["nginx"] = On
           /\ phase = 7 /\ pc = 2 => files'["link"] = "ours"
           /\ phase = 7 /\ pc = 3 => files'["socket"] = "ours"
           /\ phase = 7 /\ pc = 4 => files'["timer"] = "ours"
           /\ phase = 7 /\ pc = 5 => files'["web"] = "ours"
           /\ phase = 7 /\ pc = 8 => services'["socket"] = On
           /\ phase = 7 /\ pc = 9 => services'["timer"] = On
<1>0. MachineOK
  BY TypeParts
<1>1. Apt => default' # "unpackaged"
  BY DEF Apt
<1>2. UnlinkSite => default' # "stock"
  BY DEF UnlinkSite
<1>3. WriteStream => stream' # "none"
  BY DEF WriteStream
<1>4. ASSUME NEW p, NEW k, NEW f \in Files, AtStep(p, k, "write", {f})
    PROVE  files'[f] = "ours"
  <2>1. Write /\ Subject = f
    BY <1>4, TheStep, SubjectOf
  <2> QED
    BY <1>0, <2>1 DEF Write, MachineOK
<1>5. ASSUME NEW p, NEW k, NEW u \in Captured, AtStep(p, k, "enable", {u})
    PROVE  services'[u] = On
  <2>1. Enable /\ Subject = u
    BY <1>5, TheStep, SubjectOf
  <2> QED
    BY <1>0, <2>1 DEF Enable, MachineOK, Units
<1>6. CASE phase = 3
  <2>1. /\ pc = 2 => AtStep(3, 2, "apt", {})
        /\ pc = 4 => AtStep(3, 4, "unlink_site", {})
        /\ pc = 6 => AtStep(3, 6, "write_stream", {})
    BY <1>6, InstallSteps DEF AtStep
  <2> QED
    BY <1>1, <1>2, <1>3, <1>6, <2>1, TheStep
<1>7. CASE phase = 4
  <2>1. pc = 2 => AtStep(4, 2, "write", {"core"})
    BY <1>7, InstallSteps DEF AtStep
  <2> QED
    BY <1>4, <1>7, <2>1 DEF Files
<1>8. CASE phase = 6
  <2>1. /\ pc = 3 => AtStep(6, 3, "write", {"site"})
        /\ pc = 4 => AtStep(6, 4, "write", {"routes"})
        /\ pc = 6 => AtStep(6, 6, "enable", {"nginx"})
    BY <1>8, InstallSteps DEF AtStep
  <2> QED
    BY <1>4, <1>5, <1>8, <2>1 DEF Files, Captured
<1>9. CASE phase = 7
  <2>1. /\ pc = 2 => AtStep(7, 2, "write", {"link"})
        /\ pc = 3 => AtStep(7, 3, "write", {"socket"})
        /\ pc = 4 => AtStep(7, 4, "write", {"timer"})
        /\ pc = 5 => AtStep(7, 5, "write", {"web"})
        /\ pc = 8 => AtStep(7, 8, "enable", {"socket"})
        /\ pc = 9 => AtStep(7, 9, "enable", {"timer"})
    BY <1>9, InstallSteps DEF AtStep
  <2> QED
    BY <1>4, <1>5, <1>9, <2>1 DEF Files, Captured
<1> QED
  BY <1>6, <1>7, <1>8, <1>9

LEMMA EffectOfStepStep ==
    ASSUME TypeOK, PhaseInv, AheadInv, UndoneInv, EffectOfStep, [Next]_vars, ~torn
    PROVE  EffectOfStep'
<1>0. ProcessOK /\ MachineOK /\ Intact
  BY TypeParts, EffectsStay
<1>1. CASE phase' = 0 \/ pc' = 1
  BY <1>1 DEF EffectOfStep
<1>2. CASE UNCHANGED vars
  BY <1>2 DEF vars, machine, process, EffectOfStep, Ours
<1>3. CASE InstallStep /\ Onward /\ phase' # 0
  <2>1. phase' = phase /\ pc' = pc + 1 /\ pc \in Nat /\ Installing
    BY <1>0, <1>3 DEF Onward, ProcessOK, Installing
  <2>2. /\ \A f \in {"core", "site", "routes", "link", "socket", "timer", "web"} :
              files[f] = "ours" => files'[f] = "ours"
        /\ \A u \in {"nginx", "socket", "timer"} : services[u] = On => services'[u] = On
    BY <1>0, <1>3 DEF Intact, Files, Captured
  <2>3. /\ default # "unpackaged" => default' # "unpackaged"
        /\ default \notin {"unpackaged", "stock"} => default' # "stock"
        /\ stream # "none" => stream' # "none"
    BY <1>0 DEF Intact, MachineOK
  <2>4. CASE phase = 3
    BY <1>3, <2>1, <2>3, <2>4, StepBringsAbout DEF EffectOfStep
  <2>5. CASE phase \in {4, 6}
    BY <1>3, <2>1, <2>2, <2>5, StepBringsAbout DEF EffectOfStep, Ours
  <2>6. CASE phase = 7
    BY <1>3, <2>1, <2>2, <2>6, StepBringsAbout DEF EffectOfStep, Ours
  <2> QED
    BY <2>1, <2>4, <2>5, <2>6 DEF EffectOfStep
<1> QED
  BY <1>1, <1>2, <1>3, Moves

LEMMA EffectStep ==
    ASSUME TypeOK, PhaseInv, AheadInv, UndoneInv, EffectInv, [Next]_vars
    PROVE  EffectInv'
<1>1. CASE ~torn
  BY <1>1, EffectOfStepStep, EffectOfPhasesStep, Zenon DEF EffectInv
<1>2. CASE torn /\ ~torn'
  <2>1. journal' = NoJournal /\ phase' = 0
    BY <1>2 DEF Next, Install, Update, Rollback, Begin, Check, Reload, Capture, Apt, IntendSite, UnlinkSite,
       IntendStream, WriteStream, Record, RecordUnread, Snapshot, Write, Refuse, Start, Enable, PhaseDone,
       InstallFails, Command, CommandFails, Undo, UndoStream, UndoSite, Forget, Finish, Save,
       RollbackFails, Kill, RemoveLink, EditStream, WebOn, Proceed, Advance, vars
  <2> QED
    BY <2>1 DEF NoJournal, EffectInv, EffectOfStep, EffectOfPhases
<1>3. CASE torn'
  BY <1>3, Zenon DEF EffectInv
<1> QED
  BY <1>1, <1>2, <1>3

-----------------------------------------------------------------------------
(* What a rollback takes back *)

\* The steps of a rollback, but for its beginning and its end
RollbackStep == Command \/ CommandFails \/ Undo \/ UndoStream \/ UndoSite

LEMMA RollbackMoves ==
    ASSUME TypeOK, [Next]_vars, op' = "rollback"
    PROVE  \/ Rollback
           \/ UNCHANGED vars
           \/ /\ op = "rollback" /\ RollbackStep
              /\ phase' = 0 /\ pc' = pc + 1 /\ UNCHANGED <<journal, original, torn>>
<1>0. ProcessOK
  BY TypeParts
<1>1. CASE Install \/ Update
  <2>1. op' \in {"none", "install", "update"}
    BY <1>1 DEF Install, Update, Begin
  <2> QED
    BY <2>1
<1>2. CASE Refuse \/ InstallFails \/ Forget \/ RollbackFails \/ Kill
  BY <1>2 DEF Refuse, InstallFails, Forget, RollbackFails, Kill, Finish
<1>3. CASE PhaseDone
  BY <1>3, DoneSteps DEF PhaseDone, Finish, Installing
<1>4. CASE InstallStep
  <2>1. Installing
    BY <1>4, CheckSteps, CaptureStep, AptStep, IntendSiteStep, UnlinkSiteStep, IntendStreamStep,
       WriteStreamStep, RecordSteps, SnapshotStep, WriteSteps, ReloadStep, EnableSteps, StartStep
       DEF InstallStep, Check, Reload, Capture, Apt, IntendSite, UnlinkSite, IntendStream,
           WriteStream, Recording, Record, RecordUnread, Snapshot, Write, Start, Enable
  <2>2. op' = op
    BY <1>4 DEF InstallStep, Check, Reload, Capture, Apt, IntendSite, UnlinkSite, IntendStream,
       WriteStream, Recording, Record, RecordUnread, Snapshot, Write, Start, Enable, Proceed, Advance
  <2> QED
    BY <2>1, <2>2 DEF Installing
<1>5. CASE RemoveLink \/ EditStream \/ WebOn
  BY <1>5 DEF RemoveLink, EditStream, WebOn, process
<1>6. CASE RollbackStep
  <2>1. /\ op' = op /\ phase' = phase /\ pc' = pc + 1 /\ UNCHANGED <<journal, original, torn>>
    BY <1>6 DEF RollbackStep, Command, CommandFails, Undo, UndoStream, UndoSite, Proceed, Advance
  <2> QED
    BY <1>0, <1>6, <2>1 DEF ProcessOK
<1> QED
  BY <1>1, <1>2, <1>3, <1>4, <1>5, <1>6 DEF Next, InstallStep, Recording, RollbackStep

\* A file that is undone is what it was.
LEMMA UndoRestores ==
    ASSUME TypeOK, FilesInv, Undo
    PROVE  /\ Subject \in Files /\ files'[Subject] = Before(Subject)
           /\ \A f \in Files \ {Subject} : files'[f] = files[f]
<1>1. Subject \in Files /\ Journalled(Subject) /\ MachineOK
  BY UndoSubject, TypeParts DEF Undo, FilesInv
<1>2. files' = IF Replaced(Subject) THEN [files EXCEPT ![Subject] = journal.replaced[Subject]]
               ELSE IF Subject \in journal.written THEN [files EXCEPT ![Subject] = "absent"]
               ELSE files
  BY DEF Undo
<1> QED
  BY <1>1, <1>2 DEF Journalled, Replaced, Nothing, MachineOK

LEMMA UndoneStep ==
    ASSUME TypeOK, FilesInv, NginxInv, UndoneInv, [Next]_vars
    PROVE  UndoneInv'
<1> SUFFICES ASSUME op' = "rollback"
             PROVE  UndoneInv'
  BY DEF UndoneInv
<1>0. ProcessOK /\ MachineOK
  BY TypeParts
<1>1. CASE Rollback
  BY <1>1 DEF Rollback, UndoneInv
<1>2. CASE UNCHANGED vars
  BY <1>2 DEF Before, vars, machine, process, UndoneInv, Restored
<1>3. CASE /\ op = "rollback" /\ RollbackStep
           /\ phase' = 0 /\ pc' = pc + 1 /\ UNCHANGED <<journal, original, torn>>
  <2>0. pc \in Nat /\ torn'
    BY <1>0, <1>3 DEF ProcessOK, UndoneInv
  <2>1. CASE Command \/ CommandFails
    <3>1. IsCommand /\ files' = files /\ default' = default /\ stream' = stream
      BY <2>1 DEF Command, CommandFails, machine
    <3>2. pc <= 5 \/ pc >= 15
      BY <3>1, CommandSteps DEF AtStep
    <3> QED
      BY <1>3, <2>0, <3>1, <3>2 DEF Before, UndoneInv, Restored
  <2>2. CASE Undo
    <3>1. PICK g \in Files : g = Subject
      BY <2>2, UndoRestores
    <3>2. \A f \in Files : f = g \/ Restored(f) => Restored(f)'
      BY <1>3, <2>2, <3>1, UndoRestores DEF Before, Restored
    <3>3. \/ (pc = 6 /\ g = "core") \/ (pc = 7 /\ g = "site") \/ (pc = 8 /\ g = "routes")
          \/ (pc = 9 /\ g = "link") \/ (pc = 10 /\ g = "socket")
          \/ (pc = 11 /\ g = "timer") \/ (pc = 12 /\ g = "web")
      BY <2>2, <3>1, UndoSteps, SubjectOf DEF Undo
    <3> QED
      BY <1>3, <2>0, <3>2, <3>3 DEF UndoneInv, Files
  <2>3. CASE UndoStream
    <3>1. pc = 13 /\ stream' # "ours"
      BY <2>3, UndoStreamStep DEF UndoStream, AtStep, NginxInv
    <3> QED
      BY <1>3, <2>0, <2>3, <3>1 DEF Before, UndoneInv, UndoStream, Restored
  <2>4. CASE UndoSite
    <3>1. pc = 14 /\ default' # "removed"
      BY <2>4, UndoSiteStep DEF UndoSite, AtStep, NginxInv
    <3> QED
      BY <1>3, <2>0, <2>4, <3>1 DEF Before, UndoneInv, UndoSite, Restored
  <2> QED
    BY <1>3, <2>1, <2>2, <2>3, <2>4 DEF RollbackStep
<1> QED
  BY <1>1, <1>2, <1>3, RollbackMoves

\* A command that does not fail has left its unit as the journal has it.
LEMMA CommandDone ==
    ASSUME TypeOK, FilesInv, ServicesInv, AheadInv, Command, ~failures'
    PROVE  /\ IsCommand /\ ~failures
           /\ pc = 1 => Lacks("nginx", "active")'
           /\ pc = 2 => Lacks("nginx", "enabled")' /\ (Lacks("nginx", "active") => Lacks("nginx", "active")')
           /\ Hardened =>
                 /\ pc = 3 => services'["socket"] = Off
                 /\ pc = 4 => services'["timer"] = Off
                 /\ pc = 5 => services'["web"] = Off
                 /\ \A u \in {"socket", "timer"} : services[u] = Off /\ AtStep(0, pc, "reenable", {u}) =>
                       services'[u] = original.services[u] \cap {"enabled"}
                 /\ \A u \in {"socket", "timer"} :
                       /\ services[u] = original.services[u] \cap {"enabled"}
                       /\ AtStep(0, pc, "restart", {u})
                       => services'[u] = original.services[u]
           /\ \A u \in Units \ {Subject} : services'[u] = services[u]
<1>0. /\ MachineOK /\ JournalOK /\ pc \in Nat \ {0} /\ IsCommand
      /\ \A u \in Captured : Kept(u)
  BY TypeParts DEF ProcessOK, Command, IsCommand, ServicesInv
<1>u. Captured \subseteq Units /\ {"nginx", "socket", "timer"} \subseteq Captured /\ "web" \in Units
  BY DEF Captured, Units
<1>1. ~failures /\ ~(Due /\ ~Known(Subject)) /\ original' = original
  BY Zenon DEF Command
<1>2. services' = IF Due THEN [services EXCEPT ![Subject] = Effect(@)] ELSE services
  BY <1>1 DEF Command
<1>3. pc = 1 => Lacks("nginx", "active")'
  <2>1. SUFFICES ASSUME pc = 1 PROVE Lacks("nginx", "active")'
    OBVIOUS
  <2>2. AtStep(0, 1, "stop", {"nginx"})
    BY <1>0, <2>1, CommandSteps DEF AtStep
  <2>3. /\ Subject = "nginx"
        /\ Due <=> journal.captured["nginx"] # Unknown /\ "active" \notin journal.captured["nginx"]
        /\ Effect(services["nginx"]) = services["nginx"] \ {"active"}
    BY <1>0, <1>u, <2>2, CommandMeaning
  <2> QED
    BY <1>0, <1>u, <1>1, <1>2, <2>3 DEF Lacks, Kept, MachineOK
<1>4. pc = 2 => Lacks("nginx", "enabled")' /\ (Lacks("nginx", "active") => Lacks("nginx", "active")')
  <2>1. SUFFICES ASSUME pc = 2
                 PROVE  Lacks("nginx", "enabled")' /\ (Lacks("nginx", "active") => Lacks("nginx", "active")')
    OBVIOUS
  <2>2. AtStep(0, 2, "disable", {"nginx"})
    BY <1>0, <2>1, CommandSteps DEF AtStep
  <2>3. /\ Subject = "nginx"
        /\ Due <=> journal.captured["nginx"] # Unknown /\ "enabled" \notin journal.captured["nginx"]
        /\ Effect(services["nginx"]) = services["nginx"] \ {"enabled"}
    BY <1>0, <1>u, <2>2, CommandMeaning
  <2> QED
    BY <1>0, <1>u, <1>1, <1>2, <2>3 DEF Lacks, Kept, MachineOK
<1>5. ASSUME Hardened
      PROVE  /\ pc = 3 => services'["socket"] = Off
             /\ pc = 4 => services'["timer"] = Off
             /\ pc = 5 => services'["web"] = Off
  <2>1. ASSUME NEW k, NEW u \in Units, AtStep(0, k, "retire", {u})
        PROVE  services'[u] = Off
    <3>1. /\ Subject = u
          /\ Due <=> Hardened /\ (u = "web" => "web" \in journal.written /\ ~Replaced("web"))
          /\ Effect(services[u]) = Off
      BY <1>0, <2>1, CommandMeaning
    <3>2. "web" \in journal.written /\ ~Replaced("web")
      BY <1>0, <1>5 DEF AheadInv, HardenRecorded, FilesInv, Journalled, Files, Replaced
    <3> QED
      BY <1>0, <1>2, <1>5, <2>1, <3>1, <3>2 DEF MachineOK
  <2>2. /\ pc = 3 => AtStep(0, 3, "retire", {"socket"})
        /\ pc = 4 => AtStep(0, 4, "retire", {"timer"})
        /\ pc = 5 => AtStep(0, 5, "retire", {"web"})
    BY <1>0, CommandSteps DEF AtStep
  <2> QED
    BY <1>u, <2>1, <2>2
<1>6. ASSUME Hardened, NEW u \in {"socket", "timer"}, services[u] = Off,
             AtStep(0, pc, "reenable", {u})
      PROVE  services'[u] = original.services[u] \cap {"enabled"}
  <2>1. /\ Subject = u
        /\ Due <=> Hardened /\ "enabled" \in journal.captured[u]
        /\ Effect(services[u]) = services[u] \cup {"enabled"}
    BY <1>0, <1>u, <1>6, CommandMeaning
  <2>2. journal.captured[u] = original.services[u]
    BY <1>0, <1>u, <1>6 DEF AheadInv, HardenRecorded, Kept
  <2> QED
    BY <1>0, <1>u, <1>2, <1>6, <2>1, <2>2 DEF MachineOK, Off
<1>7. ASSUME Hardened, NEW u \in {"socket", "timer"},
             services[u] = original.services[u] \cap {"enabled"}, AtStep(0, pc, "restart", {u})
      PROVE  services'[u] = original.services[u]
  <2>1. /\ Subject = u
        /\ Due <=> Hardened /\ "active" \in journal.captured[u]
        /\ Effect(services[u]) = services[u] \cup {"active"}
    BY <1>0, <1>u, <1>7, CommandMeaning
  <2>2. journal.captured[u] = original.services[u] /\ original.services[u] \subseteq {"active", "enabled"}
    BY <1>0, <1>u, <1>7 DEF AheadInv, HardenRecorded, Kept, MachineOK, UnitState
  <2>3. services'[u] = IF Due THEN services[u] \cup {"active"} ELSE services[u]
    <3>1. u \in Units /\ Subject = u /\ services \in [Units -> UnitState]
      BY <1>0, <1>u, <2>1 DEF MachineOK
    <3>2. services'[u] = IF Due THEN Effect(services[u]) ELSE services[u]
      BY <1>2, <3>1
    <3> QED
      BY <2>1, <3>2
  <2> QED
    BY <1>7, <2>1, <2>2, <2>3
<1>8. \A u \in Units \ {Subject} : services'[u] = services[u]
  BY <1>0, <1>2 DEF MachineOK
<1> QED
  BY <1>0, <1>1, <1>3, <1>4, <1>5, <1>6, <1>7, <1>8

LEMMA CommandsStep ==
    ASSUME TypeOK, FilesInv, ServicesInv, AheadInv, CommandsInv, [Next]_vars
    PROVE  CommandsInv'
<1> SUFFICES ASSUME op' = "rollback", ~failures'
             PROVE  CommandsInv'
  BY DEF CommandsInv
<1>0. ProcessOK /\ MachineOK
  BY TypeParts
<1>1. CASE Rollback
  BY <1>1 DEF Rollback, CommandsInv
<1>2. CASE UNCHANGED vars
  BY <1>2 DEF vars, machine, process, CommandsInv, Lacks, Hardened
<1>3. CASE /\ op = "rollback" /\ RollbackStep
           /\ phase' = 0 /\ pc' = pc + 1 /\ UNCHANGED <<journal, original, torn>>
  <2>0. pc \in Nat /\ (Hardened' <=> Hardened)
    BY <1>0, <1>3 DEF ProcessOK, Hardened
  <2>1. CASE Command
    <3>1. IsCommand /\ ~failures
      BY <2>1, CommandDone
    <3>2. \A u \in Units : Subject # u => services'[u] = services[u]
      BY <2>1, CommandDone
    <3>3. Subject # "nginx" => \A flag : Lacks("nginx", flag) => Lacks("nginx", flag)'
      BY <1>3, <3>2 DEF Lacks, Units, Captured
    <3>4. CASE AtStep(0, 1, "stop", {"nginx"}) \/ AtStep(0, 2, "disable", {"nginx"})
      <4>1. Subject = "nginx" /\ pc \in {1, 2}
        BY <3>4, SubjectOf
      <4>2. \/ pc = 1 /\ Lacks("nginx", "active")'
            \/ pc = 2 /\ Lacks("nginx", "enabled")' /\ (Lacks("nginx", "active") => Lacks("nginx", "active")')
        BY <2>1, <4>1, CommandDone
      <4> QED
        BY <1>3, <2>0, <3>1, <4>2 DEF CommandsInv
    <3>5. CASE AtStep(0, 3, "retire", {"socket"})
      <4>1. Subject = "socket" /\ pc = 3 /\ (Hardened => services'["socket"] = Off)
        BY <2>1, <3>5, SubjectOf, CommandDone
      <4> QED
        BY <1>3, <2>0, <3>1, <3>3, <4>1 DEF CommandsInv
    <3>6. CASE AtStep(0, 4, "retire", {"timer"})
      <4>1. Subject = "timer" /\ pc = 4 /\ (Hardened => services'["timer"] = Off)
        BY <2>1, <3>6, SubjectOf, CommandDone
      <4> QED
        BY <1>3, <2>0, <3>1, <3>2, <3>3, <4>1 DEF CommandsInv, Units, Captured
    <3>7. CASE AtStep(0, 5, "retire", {"web"})
      <4>1. Subject = "web" /\ pc = 5 /\ (Hardened => services'["web"] = Off)
        BY <2>1, <3>7, SubjectOf, CommandDone
      <4> QED
        BY <1>3, <2>0, <3>1, <3>2, <3>3, <4>1 DEF CommandsInv, Units, Captured
    <3>8. CASE AtStep(0, 15, "reenable", {"socket"})
      <4>1. Subject = "socket" /\ pc = 15 /\ AtStep(0, pc, "reenable", {"socket"})
        BY <3>8, SubjectOf
      <4>2. Hardened => services'["socket"] = original.services["socket"] \cap {"enabled"}
        BY <1>3, <2>1, <3>1, <4>1, CommandDone DEF CommandsInv
      <4> QED
        BY <1>3, <2>0, <3>1, <3>2, <3>3, <4>1, <4>2 DEF CommandsInv, Units, Captured
    <3>9. CASE AtStep(0, 16, "restart", {"socket"})
      <4>1. Subject = "socket" /\ pc = 16 /\ AtStep(0, pc, "restart", {"socket"})
        BY <3>9, SubjectOf
      <4>2. Hardened => services'["socket"] = original.services["socket"]
        BY <1>3, <2>1, <3>1, <4>1, CommandDone DEF CommandsInv
      <4> QED
        BY <1>3, <2>0, <3>1, <3>2, <3>3, <4>1, <4>2 DEF CommandsInv, Units, Captured
    <3>10. CASE AtStep(0, 17, "reenable", {"timer"})
      <4>1. Subject = "timer" /\ pc = 17 /\ AtStep(0, pc, "reenable", {"timer"})
        BY <3>10, SubjectOf
      <4>2. Hardened => services'["timer"] = original.services["timer"] \cap {"enabled"}
        BY <1>3, <2>1, <3>1, <4>1, CommandDone DEF CommandsInv
      <4> QED
        BY <1>3, <2>0, <3>1, <3>2, <3>3, <4>1, <4>2 DEF CommandsInv, Units, Captured
    <3>11. CASE AtStep(0, 18, "restart", {"timer"})
      <4>1. Subject = "timer" /\ pc = 18 /\ AtStep(0, pc, "restart", {"timer"})
        BY <3>11, SubjectOf
      <4>2. Hardened => services'["timer"] = original.services["timer"]
        BY <1>3, <2>1, <3>1, <4>1, CommandDone DEF CommandsInv
      <4> QED
        BY <1>3, <2>0, <3>1, <3>2, <3>3, <4>1, <4>2 DEF CommandsInv, Units, Captured
    <3> QED
      BY <3>1, <3>4, <3>5, <3>6, <3>7, <3>8, <3>9, <3>10, <3>11, CommandSteps
  <2>2. CASE CommandFails
    BY <2>2 DEF CommandFails
  <2>3. CASE Undo \/ UndoStream \/ UndoSite
    <3>1. services' = services /\ failures' = failures /\ pc \in 6..14
      BY <2>3, UndoSteps, UndoStreamStep, UndoSiteStep DEF Undo, UndoStream, UndoSite, Proceed, Advance, AtStep
    <3> QED
      BY <1>3, <2>0, <3>1 DEF CommandsInv, Lacks
  <2> QED
    BY <1>3, <2>1, <2>2, <2>3 DEF RollbackStep
<1> QED
  BY <1>1, <1>2, <1>3, RollbackMoves

-----------------------------------------------------------------------------
(* What an operation reports *)

\* The names of the phases are those of the journal.
LEMMA AllPhases ==
    ASSUME NEW done \in SUBSET Phases, \A k \in 1..9 : InstallPhases[k].name \in done
    PROVE  done = Phases
<1>1. /\ InstallPhases[1].name = "preflight" /\ InstallPhases[2].name = "low_memory"
      /\ InstallPhases[3].name = "nginx_packages" /\ InstallPhases[4].name = "mihomo"
      /\ InstallPhases[5].name = "certificate" /\ InstallPhases[6].name = "nginx_activation"
      /\ InstallPhases[7].name = "systemd_harden" /\ InstallPhases[8].name = "subscription_init"
      /\ InstallPhases[9].name = "report"
  BY PhaseTable DEF Phase
<1>2. /\ "preflight" \in done /\ "low_memory" \in done /\ "nginx_packages" \in done
      /\ "mihomo" \in done /\ "certificate" \in done /\ "nginx_activation" \in done
      /\ "systemd_harden" \in done /\ "subscription_init" \in done /\ "report" \in done
  BY <1>1
<1> QED
  BY <1>2 DEF Phases

\* An installation ends when all its phases are done.
LEMMA LastPhaseDone ==
    ASSUME TypeOK, PhaseInv, PhaseDone, op = "install", Following(phase, skipped) = 0
    PROVE  journal'.done = Phases
<1>0. JournalOK /\ ProcessOK
  BY TypeParts
<1>1. journal'.done = journal.done \cup {Current} /\ phase \in 1..9
  BY <1>0 DEF PhaseDone, Save, JournalOK, ProcessOK
<1>2. journal'.done \in SUBSET Phases
  BY <1>0, <1>1, CurrentPhase DEF JournalOK, Current
<1>3. \A q \in (phase + 1)..9 : InstallPhases[q].name \in skipped
  BY <1>1, FollowingFacts
<1>4. \A k \in 1..9 : InstallPhases[k].name \in journal'.done
  <2> SUFFICES ASSUME NEW k \in 1..9
               PROVE  InstallPhases[k].name \in journal'.done
    OBVIOUS
  <2>1. CASE k < phase
    BY <1>1, <2>1 DEF PhaseInv
  <2>2. CASE k = phase
    BY <1>1, <2>2 DEF Current
  <2>3. CASE k > phase
    BY <1>1, <1>3, <2>3 DEF PhaseInv
  <2> QED
    BY <1>1, <2>1, <2>2, <2>3
<1> QED
  BY <1>2, <1>4, AllPhases

\* How the outcome can change
LEMMA OutcomeMoves ==
    ASSUME TypeOK, [Next]_vars
    PROVE  \/ op' # "none" /\ outcome' = outcome /\ op # "none"
           \/ outcome' \in {"none", "failed", "updated"} /\ (op' # "none" => outcome' = "none")
           \/ Install /\ op' = "none" /\ outcome' = "installed" /\ Following(0, journal.done) = 0
           \/ Update /\ op' = "none" /\ outcome' = "installed"
              /\ Following(0, Phases \ {"systemd_harden"}) = 0
           \/ PhaseDone /\ op' = "none" /\ outcome' = "installed"
              /\ op = "install" /\ Following(phase, skipped) = 0
           \/ Forget /\ ~failures /\ op' = "none" /\ outcome' = "rolled_back" /\ journal' = NoJournal
           \/ (RemoveLink \/ EditStream \/ WebOn \/ UNCHANGED vars) /\ UNCHANGED <<journal, op, outcome>>
<1>0. ProcessOK
  BY TypeParts
<1>1. CASE Install \/ Update
  BY <1>0, <1>1 DEF Install, Update, Begin, ProcessOK
<1>2. CASE Rollback
  BY <1>2 DEF Rollback
<1>3. CASE PhaseDone
  <2>1. CASE Following(phase, skipped) = 0
    BY <1>3, <2>1, DoneSteps DEF PhaseDone, Finish, Installing
  <2>2. CASE Following(phase, skipped) # 0
    BY <1>3, <2>2, DoneSteps DEF PhaseDone, Installing
  <2> QED
    BY <2>1, <2>2
<1>4. CASE Refuse \/ InstallFails \/ RollbackFails \/ Kill
  BY <1>4 DEF Refuse, InstallFails, RollbackFails, Kill, Finish
<1>5. CASE Forget
  BY <1>5 DEF Forget, Finish, Save
<1>6. CASE InstallStep \/ Undo \/ UndoStream \/ UndoSite
  <2>1. op' = op /\ outcome' = outcome
    BY <1>6 DEF InstallStep, Check, Reload, Capture, Apt, IntendSite, UnlinkSite, IntendStream,
       WriteStream, Recording, Record, RecordUnread, Snapshot, Write, Start, Enable, Undo,
       UndoStream, UndoSite, Proceed, Advance
  <2>2. pc > 0
    BY <1>6 DEF InstallStep, Check, Reload, Capture, Apt, IntendSite, UnlinkSite, IntendStream,
       WriteStream, Recording, Record, RecordUnread, Snapshot, Write, Start, Enable, Undo,
       UndoStream, UndoSite, At
  <2> QED
    BY <1>0, <2>1, <2>2 DEF ProcessOK
<1>7. CASE Command \/ CommandFails
  BY <1>7 DEF Command, CommandFails, IsCommand
<1>8. CASE RemoveLink \/ EditStream \/ WebOn \/ UNCHANGED vars
  BY <1>8 DEF RemoveLink, EditStream, WebOn, process, vars
<1> QED
  BY <1>1, <1>2, <1>3, <1>4, <1>5, <1>6, <1>7, <1>8 DEF Next, InstallStep, Recording

LEMMA OutcomeStep ==
    ASSUME TypeOK, PhaseInv, OutcomeInv, [Next]_vars
    PROVE  OutcomeInv'
<1>0. JournalOK
  BY TypeParts
<1>1. CASE Install /\ op' = "none" /\ outcome' = "installed" /\ Following(0, journal.done) = 0
  <2>1. \A k \in 1..9 : InstallPhases[k].name \in journal.done
    BY <1>1, FollowingFacts
  <2>2. journal.done = Phases /\ journal'.done = journal.done
    BY <1>0, <1>1, <2>1, AllPhases DEF Install, Save, JournalOK
  <2> QED
    BY <1>1, <2>2 DEF OutcomeInv
<1>2. CASE Following(0, Phases \ {"systemd_harden"}) = 0
  <2>1. InstallPhases[7].name \in Phases \ {"systemd_harden"}
    BY <1>2, FollowingFacts
  <2> QED
    BY <2>1, PhaseTable DEF Phase
<1>3. CASE PhaseDone /\ op' = "none" /\ outcome' = "installed" /\ op = "install" /\ Following(phase, skipped) = 0
  BY <1>3, LastPhaseDone DEF OutcomeInv
<1> QED
  BY <1>1, <1>2, <1>3, OutcomeMoves DEF OutcomeInv

\* What a rollback that succeeded has restored stays so until the next operation.
LEMMA RestoresStep ==
    ASSUME TypeOK, ServicesInv, UndoneInv, CommandsInv, OutcomeInv, RollbackRestores, [Next]_vars
    PROVE  RollbackRestores'
<1> SUFFICES ASSUME outcome' = "rolled_back"
             PROVE  RollbackRestores'
  BY DEF RollbackRestores
<1>0. MachineOK
  BY TypeParts
<1>u. Captured \subseteq Units /\ "web" \in Units /\ "web" \notin Captured /\ "link" \in Files
  BY DEF Units, Captured, Files
<1>1. CASE Forget /\ ~failures
  <2>1. At("forget") /\ UNCHANGED <<machine, original>>
    BY <1>1 DEF Forget
  <2>2. op = "rollback" /\ pc = 19
    BY <2>1, ForgetStep DEF AtStep
  <2>3. \A f \in Files : files[f] = Before(f)
    BY <2>2 DEF UndoneInv, Restored, Files
  <2>4. \A f \in Files \ original.unread : files[f] = original.files[f]
    BY <2>3 DEF Before
  <2>5. default # "removed" /\ stream # "ours"
    BY <2>2 DEF UndoneInv
  <2> QED
    BY <1>1, <2>1, <2>4, <2>5, ServicesRestored DEF machine, RollbackRestores
<1>2. CASE (RemoveLink \/ EditStream \/ WebOn \/ UNCHANGED vars) /\ UNCHANGED <<journal, op, outcome>>
  <2>1. /\ journal = NoJournal
        /\ \A f \in Files \ original.unread : files[f] = original.files[f]
        /\ \A u \in Captured : services[u] = original.services[u]
        /\ services["web"] \in {Off, original.services["web"]}
        /\ default # "removed" /\ stream # "ours"
    BY <1>2 DEF OutcomeInv, RollbackRestores
  <2>2. CASE RemoveLink
    <3>1. original' = [original EXCEPT !.files["link"] = "absent"]
      BY <2>1, <2>2 DEF RemoveLink, Replaced, NoJournal, Files
    <3>2. /\ files' = [files EXCEPT !["link"] = "absent"]
          /\ original'.files = [original.files EXCEPT !["link"] = "absent"]
          /\ original'.unread = original.unread /\ original'.services = original.services
      BY <1>0, <2>2, <3>1 DEF RemoveLink, MachineOK
    <3>3. \A f \in Files \ original'.unread : files'[f] = original'.files[f]
      BY <1>0, <1>u, <2>1, <3>2 DEF MachineOK
    <3> QED
      BY <2>1, <2>2, <3>2, <3>3 DEF RemoveLink, RollbackRestores
  <2>3. CASE EditStream
    BY <2>1, <2>3 DEF EditStream
  <2>4. CASE WebOn
    BY <2>1, <2>4 DEF WebOn, NoJournal
  <2>5. CASE UNCHANGED vars
    BY <2>1, <2>5 DEF vars, machine, RollbackRestores
  <2> QED
    BY <1>2, <2>2, <2>3, <2>4, <2>5
<1> QED
  BY <1>1, <1>2, OutcomeMoves DEF OutcomeInv

-----------------------------------------------------------------------------
(* The theorems *)

LEMMA Initially ==
    ASSUME InstallerAssumption, Init
    PROVE  IInv
<1>1. TypeOK
  BY InitialTypes
<1>2. /\ op = "none" /\ phase = 0 /\ pc = 0 /\ outcome = "none" /\ journal = NoJournal
      /\ stream = "none" /\ default # "removed"
      /\ original.files = files /\ original.services = services /\ original.unread = {}
  BY DEF Init
<1>3. PhaseInv /\ NginxInv /\ AheadInv /\ UndoneInv /\ CommandsInv /\ OutcomeInv /\ RollbackRestores
  BY <1>2 DEF PhaseInv, Installing, NginxInv, AheadInv, Hardened, NoJournal, UndoneInv, CommandsInv,
     OutcomeInv, RollbackRestores
<1>4. FilesInv
  <2>1. files \in [Files -> {"absent", "foreign"}] /\ files["web"] = "absent"
    BY DEF Init
  <2>2. ASSUME NEW f \in Files PROVE Journalled(f)
    BY <1>2, <2>1, <2>2 DEF Journalled, Before, NoJournal, Nothing
  <2> QED
    BY <1>2, <2>1, <2>2 DEF FilesInv, Before
<1>5. ServicesInv
  BY <1>2 DEF ServicesInv, Kept, NoJournal
<1>6. EffectInv
  BY <1>2 DEF EffectInv, EffectOfStep, EffectOfPhases, NoJournal
<1> QED
  BY <1>1, <1>3, <1>4, <1>5, <1>6 DEF IInv

LEMMA Inductive ==
    ASSUME InstallerAssumption, IInv, [Next]_vars
    PROVE  IInv'
<1>1. TypeOK' /\ PhaseInv'
  BY TypeStep, PhaseStep DEF IInv
<1>2. FilesInv' /\ ServicesInv' /\ NginxInv'
  BY FilesStep, ServicesStep, NginxStep DEF IInv
<1>3. AheadInv' /\ EffectInv'
  BY AheadStep, EffectStep DEF IInv
<1>4. UndoneInv' /\ CommandsInv'
  BY UndoneStep, CommandsStep DEF IInv
<1>5. OutcomeInv' /\ RollbackRestores'
  BY OutcomeStep, RestoresStep DEF IInv
<1> QED
  BY <1>1, <1>2, <1>3, <1>4, <1>5, Zenon DEF IInv

LEMMA Invariant == Spec => []IInv
<1>1. Init => IInv
  BY Initially, InstallerAssumption
<1>2. IInv /\ [Next]_vars => IInv'
  BY Inductive, InstallerAssumption
<1> QED
  BY <1>1, <1>2, PTL DEF Spec

\* Whatever differs from before is in the journal with what it takes to
\* restore it, between any two steps: a failing call or a kill never leaves a
\* change that a rollback does not know of, but for the contents of files that
\* could not be read when they were recorded, however many those are
\* (_record_replacement, the intents and the captured states of installer.py).
THEOREM JournalIsAhead == Spec => []JournalCoversChanges
<1>1. IInv => JournalCoversChanges
  <2> SUFFICES ASSUME IInv PROVE JournalCoversChanges
    OBVIOUS
  <2>1. ASSUME NEW f \in Files \ original.unread, files[f] # original.files[f]
        PROVE  f \in journal.written /\ (original.files[f] = "foreign" => journal.replaced[f] = "foreign")
    BY <2>1 DEF IInv, FilesInv, Journalled, Before
  <2>2. ASSUME NEW u \in Captured, services[u] # original.services[u]
        PROVE  journal.captured[u] = original.services[u]
    BY <2>2 DEF IInv, ServicesInv, Kept
  <2> QED
    BY <2>1, <2>2 DEF IInv, ServicesInv, NginxInv, JournalCoversChanges
<1> QED
  BY <1>1, Invariant, PTL

\* A rollback that reports success has put everything back, after any number
\* of installations, updates and rollbacks that failed or were killed anywhere,
\* but for the files that could not be read when they were recorded: a read
\* that failed costs no other file (rollback_install, _record_replacement).
THEOREM RollbackIsComplete == Spec => []RollbackRestores
<1>1. IInv => RollbackRestores
  BY DEF IInv
<1> QED
  BY <1>1, Invariant, PTL

\* An installation that reports success is complete, though its phases may
\* have run in several attempts, each of which skipped what was done (install).
THEOREM InstallationIsComplete == Spec => []InstalledIsComplete
<1>1. IInv => InstalledIsComplete
  <2> SUFFICES ASSUME IInv, outcome = "installed", ~torn
               PROVE  /\ \A f \in Files : files[f] = "ours"
                      /\ \A u \in Captured : services[u] = On
                      /\ stream # "none" /\ default \in {"none", "removed"}
    BY DEF InstalledIsComplete
  <2>1. journal.done = Phases
    BY DEF IInv, OutcomeInv
  <2>2. EffectOfPhases
    BY DEF IInv, EffectInv
  <2> QED
    BY <2>1, <2>2 DEF EffectOfPhases, Ours, Phases, Files, Captured
<1> QED
  BY <1>1, Invariant, PTL
=============================================================================
