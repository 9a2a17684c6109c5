-------------------------- MODULE WebPortal_proofs --------------------------
(***************************************************************************)
(* The web portal.                                                         *)
(*                                                                         *)
(* Tasks: OnlyAuthorizedEffects and AppliedOnce of WebTasks, for any       *)
(* requests and any number of tasks, other operations, failures, kills and *)
(* reboots.                                                                *)
(*                                                                         *)
(* Figures: what the pages of Portal show, for any lengths of the          *)
(* intervals and of time, any accounts, sessions, viewers and number of    *)
(* troubles.                                                               *)
(***************************************************************************)
EXTENDS WebTasks, Portal, SequenceTheorems, WellFoundedInduction, TLAPS

-----------------------------------------------------------------------------
(* Effects are authorized                                                  *)

\* Only a confirmed task has a worker or waits for systemctl.
Started ==
    /\ confirmed \in Seq(Confirmation) /\ Len(confirmed) <= MaxTasks
    /\ owner \in Nat /\ link \in Nat
    /\ asked \subseteq 1..Len(confirmed)
    /\ worker \in [Task -> WorkerSteps]
    /\ \A t \in Task : worker[t] # "none" => t <= Len(confirmed)

\* A task at work holds the lock, and what was checked under the lock stays
\* true as long: neither owner nor link changes without the lock.
Guarded == \A t \in Task : worker[t] = "acting" => holder = t /\ check_authorization(t)

AuthInv == Started /\ Guarded

LEMMA AuthInit == Init => AuthInv
  BY TasksAssumption DEF Init, AuthInv, Started, Guarded, WorkerSteps, Task

\* A step of one confirmed task's worker.
LEMMA WorkerMoves ==
    ASSUME Started, UNCHANGED confirmed, asked' \subseteq asked, owner' \in Nat, link' \in Nat,
           NEW t \in Task, t <= Len(confirmed), NEW s \in WorkerSteps, Goto(t, s)
    PROVE  Started'
<1>1. worker' \in [Task -> WorkerSteps]
  BY DEF Started, Goto
<1>2. \A u \in Task : worker'[u] # "none" => u <= Len(confirmed)
  BY DEF Started, Goto
<1> QED
  BY <1>1, <1>2 DEF Started

LEMMA StartedNext == Started /\ [Next]_vars => Started'
<1> SUFFICES ASSUME Started, [Next]_vars PROVE Started'
  OBVIOUS
<1> USE TasksAssumption DEF Task
<1>1. ASSUME NEW c \in Confirmation, enqueue(c) PROVE Started'
  <2> DEFINE n == Len(confirmed)
  <2>1. /\ confirmed' = Append(confirmed, c) /\ n < MaxTasks
        /\ asked' = asked \cup {Len(confirmed')} /\ UNCHANGED <<worker, owner, link>>
    BY <1>1 DEF enqueue
  <2>2. n \in Nat /\ confirmed' \in Seq(Confirmation) /\ Len(confirmed') = n + 1
    BY <2>1, <1>1 DEF Started
  <2>3. asked \subseteq 1..n /\ \A t \in Task : worker'[t] # "none" => t <= n
    BY <2>1 DEF Started
  <2> HIDE DEF n
  <2>4. asked' \subseteq 1..(n + 1) /\ n + 1 <= MaxTasks
    BY <2>1, <2>2, <2>3
  <2>5. \A t \in Task : worker'[t] # "none" => t <= n + 1
    BY <2>2, <2>3
  <2> QED
    BY <2>1, <2>2, <2>4, <2>5 DEF Started
<1>2. ASSUME NEW t \in Task, Portal(t) PROVE Started'
  <2>1. /\ UNCHANGED <<confirmed, owner, link>> /\ asked' \subseteq asked /\ t \in asked
        /\ UNCHANGED worker \/ Goto(t, "started") \/ Goto(t, "ended")
    BY <1>2 DEF Portal, StartWorker, StartConfirmed, StartFails, PortalStops, counters
  <2>2. t <= Len(confirmed)
    BY <2>1 DEF Started
  <2> QED
    BY <2>1, <2>2, WorkerMoves DEF Started, WorkerSteps
<1>3. ASSUME NEW t \in Task, Work(t) PROVE Started'
  <2>1. /\ UNCHANGED <<confirmed, asked, owner>> /\ worker[t] # "none"
        /\ \E s \in WorkerSteps : Goto(t, s)
        /\ link' \in {link, link + 1}
    <3>1. CASE Claim(t) \/ Announce(t) \/ Acquire(t)
      BY <3>1 DEF Claim, Announce, Acquire, WorkerStep, Still, WorkerSteps
    <3>2. CASE Act(t)
      BY <3>2 DEF Act, ActingEnds, TakesEffect, NoEffect, WorkerStep, WorkerSteps
    <3>3. CASE Provision(t) \/ Report(t) \/ ReportFailure(t)
      BY <3>3 DEF Provision, Report, ReportFailure, WorkerStep, Still, WorkerSteps
    <3> QED
      BY <1>3, <3>1, <3>2, <3>3 DEF Work
  <2>2. t <= Len(confirmed) /\ owner' \in Nat /\ link' \in Nat
    BY <2>1 DEF Started
  <2> QED
    BY <2>1, <2>2, WorkerMoves
<1>4. ASSUME NEW t \in Task, KillWorker(t) PROVE Started'
  <2>1. UNCHANGED <<confirmed, asked, owner, link>> /\ worker[t] # "none" /\ Goto(t, "ended")
    BY <1>4 DEF KillWorker
  <2>2. t <= Len(confirmed)
    BY <2>1 DEF Started
  <2> QED
    BY <2>1, <2>2, WorkerMoves DEF Started, WorkerSteps
<1>5. ASSUME NEW t \in Task, Age(t) PROVE Started'
  BY <1>5 DEF Age, Started
<1>6. CASE delete_history \/ OtherBegins \/ OtherEnds
  <2>1. /\ UNCHANGED <<confirmed, asked, worker>>
        /\ owner' \in {owner, owner + 1} /\ link' \in {link, link + 1}
    BY <1>6 DEF delete_history, OtherBegins, OtherEnds
  <2> QED
    BY <2>1 DEF Started
<1>7. CASE Reboot
  <2>1. UNCHANGED <<confirmed, owner, link>> /\ asked' = {}
    BY <1>7 DEF Reboot
  <2>2. worker' = [t \in Task |-> IF worker[t] = "none" THEN "none" ELSE "ended"]
    BY <1>7 DEF Reboot
  <2> QED
    BY <2>1, <2>2 DEF WorkerSteps, Started
<1>8. CASE UNCHANGED vars
  BY <1>8 DEF vars, Started
<1>9. ASSUME NEW request \in Request, NEW kind \in Kind, NEW seen \in 0..owner,
             NEW visible \in IF kind = "rotate" THEN 0..link ELSE {0}
      PROVE  [request |-> request, kind |-> kind, authorization |-> seen,
              target_binding |-> visible] \in Confirmation
  BY <1>9 DEF Confirmation, Kind, Started
<1> QED
  BY <1>1, <1>2, <1>3, <1>4, <1>5, <1>6, <1>7, <1>8, <1>9 DEF Next

LEMMA GuardedNext == AuthInv /\ [Next]_vars => Guarded'
<1> SUFFICES ASSUME AuthInv, [Next]_vars, NEW u \in Task, worker'[u] = "acting"
             PROVE  holder' = u /\ check_authorization(u)'
  BY DEF Guarded
<1> USE TasksAssumption DEF AuthInv, Started, Task, check_authorization
<1>0. worker[u] = "acting" => holder = u /\ check_authorization(u) /\ u \in 1..Len(confirmed)
  BY DEF Guarded
<1>1. ASSUME NEW c, enqueue(c) PROVE holder' = u /\ check_authorization(u)'
  <2>1. /\ confirmed' = Append(confirmed, c) /\ UNCHANGED <<worker, holder, owner, link>>
    BY <1>1 DEF enqueue
  <2>2. holder = Nobody
    BY <1>1 DEF enqueue, LockFree
  <2> QED
    BY <1>0, <2>1, <2>2 DEF Nobody
<1>2. ASSUME NEW t \in Task, Portal(t) PROVE holder' = u /\ check_authorization(u)'
  BY <1>0, <1>2 DEF Portal, StartWorker, StartConfirmed, StartFails, PortalStops, Goto,
      counters
<1>3. ASSUME NEW t \in Task, Work(t) PROVE holder' = u /\ check_authorization(u)'
  <2>1. CASE Claim(t) \/ Announce(t)
    BY <1>0, <2>1 DEF Claim, Announce, WorkerStep, Goto, Still
  <2>2. CASE Acquire(t)
    BY <1>0, <2>2 DEF Acquire, WorkerStep, Goto, Still, LockFree, Nobody
  <2>3. CASE Act(t)
    <3>1. u # t
      BY <2>3 DEF Act, ActingEnds, WorkerStep, Goto
    <3>2. worker[u] = "acting" /\ worker[t] = "acting"
      BY <2>3, <3>1 DEF Act, ActingEnds, WorkerStep, Goto
    <3> QED
      BY <1>0, <3>1, <3>2 DEF Guarded
  <2>4. CASE Provision(t) \/ Report(t) \/ ReportFailure(t)
    BY <1>0, <2>4 DEF Provision, Report, ReportFailure, WorkerStep, Goto, Still
  <2> QED
    BY <1>3, <2>1, <2>2, <2>3, <2>4 DEF Work
<1>4. ASSUME NEW t \in Task, KillWorker(t) \/ Age(t)
      PROVE  holder' = u /\ check_authorization(u)'
  BY <1>0, <1>4 DEF KillWorker, Age, Goto
<1>5. CASE delete_history \/ OtherBegins \/ OtherEnds
  BY <1>0, <1>5 DEF delete_history, OtherBegins, OtherEnds, LockFree, Nobody, Another
<1>6. CASE Reboot
  BY <1>6 DEF Reboot
<1>7. CASE UNCHANGED vars
  BY <1>0, <1>7 DEF vars
<1> QED
  BY <1>1, <1>2, <1>3, <1>4, <1>5, <1>6, <1>7 DEF Next

\* Who is at work when something takes effect is the task whose step it is.
LEMMA EffectIsAuthorized ==
    ASSUME AuthInv, NEW u \in Task, worker[u] = "acting", applied' # applied
    PROVE  check_authorization(u)
  BY DEF AuthInv, Guarded

(* An effect happens only while the owner who confirmed the task is the     *)
(* owner, and a rotation only on the link that was shown: the check under   *)
(* the lock (guarded_lock) is as good as one at the moment of the effect.   *)
THEOREM EffectsAreAuthorized == Spec => OnlyAuthorizedEffects
<1> DEFINE A == \A t \in Task : worker[t] = "acting" /\ applied' # applied => check_authorization(t)
<1>1. AuthInv /\ [Next]_vars => AuthInv'
  BY StartedNext, GuardedNext DEF AuthInv
<1>2. AuthInv /\ [Next]_vars => [A]_vars
  BY EffectIsAuthorized
<1> HIDE DEF A
<1>3. Spec => [][A]_vars
  BY AuthInit, <1>1, <1>2, PTL DEF Spec
<1> QED
  BY <1>3 DEF OnlyAuthorizedEffects, A

-----------------------------------------------------------------------------
(* A request takes effect once                                             *)

\* No record is pushed out by thirty newer ones.
EveryTaskIsKept == MaxTasks <= MaxRows

Statuses == {"queued", "running", "success", "failed"}

AnyRow == [id : Nat, status : Statuses, boot_id : Nat, old : BOOLEAN]

\* Until the owner deletes the history, each task has its record.
Kept ==
    /\ boot \in Nat /\ forgotten \in BOOLEAN
    /\ ~forgotten =>
          /\ rows \in Seq(AnyRow)
          /\ Len(rows) = Len(confirmed)
          /\ \A i \in 1..Len(confirmed) : rows[i].id = Len(confirmed) + 1 - i

\* Therefore no two tasks are of one request.
Distinct ==
    ~forgotten =>
        \A t, u \in 1..Len(confirmed) : confirmed[t].request = confirmed[u].request => t = u

Before == {"none", "started", "claimed", "ready", "acting"}

\* A request has no effect before its one task takes effect.
Unapplied ==
    /\ applied \in [Request -> Nat]
    /\ ~forgotten =>
          /\ \A t \in 1..Len(confirmed) : worker[t] \in Before => applied[confirmed[t].request] = 0
          /\ \A r \in Request :
                (\A t \in 1..Len(confirmed) : confirmed[t].request # r) => applied[r] = 0

OnceInv == Started /\ Kept /\ Distinct /\ Unapplied /\ AppliedOnce

LEMMA OnceInit == Init => OnceInv
<1> SUFFICES ASSUME Init PROVE OnceInv
  OBVIOUS
<1>1. Started
  BY AuthInit DEF AuthInv
<1>2. Kept /\ Distinct
  <2>1. confirmed = <<>> /\ rows = <<>> /\ boot = 0 /\ forgotten = FALSE
    BY DEF Init
  <2>2. rows \in Seq(AnyRow)
    BY <2>1
  <2>3. Len(rows) = 0 /\ Len(confirmed) = 0
    BY <2>1
  <2>4. Kept
    <3>1. boot \in Nat /\ forgotten \in BOOLEAN
      BY <2>1
    <3>2. Len(rows) = Len(confirmed) /\ 1..Len(confirmed) = {}
      BY <2>3
    <3> QED
      BY <2>2, <3>1, <3>2 DEF Kept
  <2>5. Distinct
    BY <2>3 DEF Distinct
  <2> QED
    BY <2>4, <2>5
<1>3. Unapplied /\ AppliedOnce
  BY DEF Init, Unapplied, AppliedOnce
<1> QED
  BY <1>1, <1>2, <1>3 DEF OnceInv

\* An update changes neither the number nor the ids of the records.
LEMMA UpdateKeeps ==
    ASSUME NEW t \in Task, NEW status \in Statuses, rows \in Seq(AnyRow)
    PROVE  /\ update(t, status) \in Seq(AnyRow)
           /\ Len(update(t, status)) = Len(rows)
           /\ \A i \in 1..Len(rows) : update(t, status)[i].id = rows[i].id
<1> DEFINE n == Len(rows)
<1>1. n \in Nat /\ rows \in [1..n -> AnyRow] /\ DOMAIN rows = 1..n
  BY LenProperties
<1> HIDE DEF n
<1>2. ASSUME NEW i \in 1..n
      PROVE  /\ (IF rows[i].id = t THEN [rows[i] EXCEPT !.status = status, !.old = FALSE]
                 ELSE rows[i]) \in AnyRow
             /\ (IF rows[i].id = t THEN [rows[i] EXCEPT !.status = status, !.old = FALSE]
                 ELSE rows[i]).id = rows[i].id
  <2>1. rows[i] \in AnyRow
    BY <1>1
  <2> QED
    BY <2>1 DEF AnyRow
<1>3. update(t, status) = [i \in 1..n |->
          IF rows[i].id = t THEN [rows[i] EXCEPT !.status = status, !.old = FALSE] ELSE rows[i]]
  BY <1>1 DEF update
<1>4. update(t, status) \in [1..n -> AnyRow] /\ \A i \in 1..n : update(t, status)[i].id = rows[i].id
  BY <1>2, <1>3
<1>5. update(t, status) \in Seq(AnyRow) /\ Len(update(t, status)) = n
  BY <1>1, <1>4
<1> QED
  BY <1>4, <1>5 DEF n

\* Nor does the hour that passes.
LEMMA AgeKeeps ==
    ASSUME NEW t \in Task, Age(t), rows \in Seq(AnyRow)
    PROVE  /\ rows' \in Seq(AnyRow)
           /\ Len(rows') = Len(rows)
           /\ \A i \in 1..Len(rows) : rows'[i].id = rows[i].id
<1> DEFINE n == Len(rows)
<1>1. n \in Nat /\ rows \in [1..n -> AnyRow] /\ DOMAIN rows = 1..n
  BY LenProperties
<1> HIDE DEF n
<1>2. ASSUME NEW i \in 1..n
      PROVE  /\ (IF rows[i].id = t THEN [rows[i] EXCEPT !.old = TRUE] ELSE rows[i]) \in AnyRow
             /\ (IF rows[i].id = t THEN [rows[i] EXCEPT !.old = TRUE] ELSE rows[i]).id = rows[i].id
  <2>1. rows[i] \in AnyRow
    BY <1>1
  <2> QED
    BY <2>1 DEF AnyRow
<1>3. rows' = [i \in 1..n |-> IF rows[i].id = t THEN [rows[i] EXCEPT !.old = TRUE] ELSE rows[i]]
  BY <1>1 DEF Age
<1>4. rows' \in [1..n -> AnyRow] /\ \A i \in 1..n : rows'[i].id = rows[i].id
  BY <1>2, <1>3
<1>5. rows' \in Seq(AnyRow) /\ Len(rows') = n
  BY <1>1, <1>4
<1> QED
  BY <1>4, <1>5 DEF n

LEMMA RecordsMove ==
    ASSUME Kept, UNCHANGED <<confirmed, forgotten>>, boot' \in Nat,
           \/ rows' = rows
           \/ \E t \in Task, status \in Statuses : rows' = update(t, status)
           \/ \E t \in Task : Age(t)
    PROVE  Kept'
<1> SUFFICES ASSUME ~forgotten
             PROVE  /\ rows' \in Seq(AnyRow)
                    /\ Len(rows') = Len(rows)
                    /\ \A i \in 1..Len(rows) : rows'[i].id = rows[i].id
  BY DEF Kept
<1>1. rows \in Seq(AnyRow)
  BY DEF Kept
<1>2. CASE rows' = rows
  BY <1>1, <1>2
<1>3. CASE \E t \in Task, status \in Statuses : rows' = update(t, status)
  BY <1>1, <1>3, UpdateKeeps
<1>4. CASE \E t \in Task : Age(t)
  BY <1>1, <1>4, AgeKeeps
<1> QED
  BY <1>2, <1>3, <1>4

\* A new record goes in front of all the others.
LEMMA EnqueueKeeps ==
    ASSUME Started, Kept, EveryTaskIsKept, NEW c \in Confirmation, enqueue(c)
    PROVE  Kept'
<1> SUFFICES ASSUME ~forgotten
             PROVE  /\ rows' \in Seq(AnyRow)
                    /\ Len(rows') = Len(confirmed')
                    /\ \A i \in 1..Len(confirmed') : rows'[i].id = Len(confirmed') + 1 - i
  BY DEF Kept, enqueue, counters
<1> DEFINE n == Len(confirmed)
           row == [id |-> n + 1, status |-> "queued", boot_id |-> boot, old |-> FALSE]
<1>1. n \in Nat /\ n < MaxTasks /\ n <= MaxRows - 1 /\ Len(confirmed') = n + 1
  BY TasksAssumption DEF enqueue, Started, EveryTaskIsKept
<1>2. rows \in Seq(AnyRow) /\ Len(rows) = n /\ \A i \in 1..n : rows[i].id = n + 1 - i
  BY DEF Kept
<1>3. rows' = <<row>> \o SubSeq(rows, 1, n)
  BY <1>1, <1>2, TasksAssumption DEF enqueue, Smaller
<1>4. row \in AnyRow /\ row.id = n + 1
  BY <1>1 DEF AnyRow, Statuses, Kept
<1> HIDE DEF n, row
<1>5. /\ <<row>> \in Seq(AnyRow) /\ Len(<<row>>) = 1 /\ <<row>>[1] = row
  BY <1>4
<1>6. /\ SubSeq(rows, 1, n) \in Seq(AnyRow) /\ Len(SubSeq(rows, 1, n)) = n
      /\ \A i \in 1..n : SubSeq(rows, 1, n)[i] = rows[i]
  <2>1. \A i \in 1..n : rows[i] \in AnyRow
    BY <1>2, ElementOfSeq
  <2> QED
    BY <1>1, <2>1, SubSeqProperties
<1>7. /\ rows' \in Seq(AnyRow) /\ Len(rows') = 1 + n
      /\ \A i \in 1..(1 + n) : rows'[i] = IF i <= 1 THEN <<row>>[i] ELSE SubSeq(rows, 1, n)[i - 1]
  BY <1>3, <1>5, <1>6, ConcatProperties
<1>8. ASSUME NEW i \in 1..(n + 1) PROVE rows'[i].id = n + 2 - i
  <2>1. CASE i = 1
    BY <1>1, <1>4, <1>5, <1>7, <2>1
  <2>2. CASE i # 1
    <3>1. i - 1 \in 1..n
      BY <1>1, <2>2
    <3>2. rows'[i] = rows[i - 1]
      BY <1>1, <1>6, <1>7, <2>2, <3>1
    <3> QED
      BY <1>1, <1>2, <3>1, <3>2
  <2> QED
    BY <2>1, <2>2
<1> QED
  BY <1>1, <1>7, <1>8

LEMMA KeptNext == Started /\ Kept /\ EveryTaskIsKept /\ [Next]_vars => Kept'
<1> SUFFICES ASSUME Started, Kept, EveryTaskIsKept, [Next]_vars PROVE Kept'
  OBVIOUS
<1>0. boot \in Nat
  BY DEF Kept
<1>1. ASSUME NEW c \in Confirmation, enqueue(c) PROVE Kept'
  BY <1>1, EnqueueKeeps
<1>2. ASSUME NEW t \in Task, Portal(t) PROVE Kept'
  <2>1. /\ UNCHANGED <<confirmed, forgotten, boot>>
        /\ rows' = rows \/ rows' = update(t, "failed")
    BY <1>2 DEF Portal, StartWorker, StartConfirmed, StartFails, PortalStops, counters
  <2> QED
    BY <1>0, <2>1, RecordsMove DEF Statuses
<1>3. ASSUME NEW t \in Task, Work(t) PROVE Kept'
  <2>1. /\ UNCHANGED <<confirmed, forgotten, boot>>
        /\ rows' = rows \/ \E status \in Statuses : rows' = update(t, status)
    <3>1. CASE Claim(t) \/ Announce(t) \/ Acquire(t)
      BY <3>1 DEF Claim, Announce, Acquire, Still, counters, Statuses
    <3>2. CASE Act(t)
      BY <3>2 DEF Act, ActingEnds
    <3>3. CASE Provision(t) \/ Report(t) \/ ReportFailure(t)
      BY <3>3 DEF Provision, Report, ReportFailure, Still, counters, Statuses
    <3> QED
      BY <1>3, <3>1, <3>2, <3>3 DEF Work
  <2> QED
    BY <1>0, <2>1, RecordsMove
<1>4. ASSUME NEW t \in Task, KillWorker(t) PROVE Kept'
  <2>1. UNCHANGED <<confirmed, forgotten, boot, rows>>
    BY <1>4 DEF KillWorker
  <2> QED
    BY <1>0, <2>1, RecordsMove
<1>5. ASSUME NEW t \in Task, Age(t) PROVE Kept'
  <2>1. UNCHANGED <<confirmed, forgotten, boot>>
    BY <1>5 DEF Age, counters
  <2> QED
    BY <1>0, <1>5, <2>1, RecordsMove
<1>6. CASE delete_history
  BY <1>0, <1>6 DEF delete_history, Kept
<1>7. CASE OtherBegins \/ OtherEnds
  <2>1. UNCHANGED <<confirmed, forgotten, boot, rows>>
    BY <1>7 DEF OtherBegins, OtherEnds
  <2> QED
    BY <1>0, <2>1, RecordsMove
<1>8. CASE Reboot
  <2>1. UNCHANGED <<confirmed, forgotten, rows>> /\ boot' = boot + 1
    BY <1>8 DEF Reboot
  <2> QED
    BY <1>0, <2>1, RecordsMove
<1>9. CASE UNCHANGED vars
  <2>1. UNCHANGED <<confirmed, forgotten, boot, rows>>
    BY <1>9 DEF vars, counters
  <2> QED
    BY <1>0, <2>1, RecordsMove
<1>10. ASSUME NEW request \in Request, NEW kind \in Kind, NEW seen \in 0..owner,
              NEW visible \in IF kind = "rotate" THEN 0..link ELSE {0}
       PROVE  [request |-> request, kind |-> kind, authorization |-> seen,
               target_binding |-> visible] \in Confirmation
  BY <1>10 DEF Confirmation, Kind, Started
<1> QED
  BY <1>1, <1>2, <1>3, <1>4, <1>5, <1>6, <1>7, <1>8, <1>9, <1>10 DEF Next

\* A request is let in only when no earlier task was of it.
LEMMA RequestIsNew ==
    ASSUME Started, Kept, ~forgotten, NEW c \in Confirmation, enqueue(c),
           NEW t \in 1..Len(confirmed)
    PROVE  confirmed[t].request # c.request
<1> DEFINE n == Len(confirmed)
           i == n + 1 - t
<1>1. n \in Nat
  BY DEF Started
<1>2. rows \in Seq(AnyRow) /\ Len(rows) = n /\ \A j \in 1..n : rows[j].id = n + 1 - j
  BY DEF Kept
<1>3. i \in 1..n /\ n + 1 - i = t
  BY <1>1
<1>4. i \in DOMAIN rows /\ rows[i].id = t
  <2>1. DOMAIN rows = 1..n
    BY <1>2, LenProperties
  <2> HIDE DEF n, i
  <2> QED
    BY <1>2, <1>3, <2>1
<1>5. LetsIn(rows[i], c.request)
  BY <1>4 DEF enqueue
<1> QED
  BY <1>4, <1>5 DEF LetsIn

LEMMA EnqueueOnce ==
    ASSUME OnceInv, NEW c \in Confirmation, enqueue(c)
    PROVE  Distinct' /\ Unapplied' /\ AppliedOnce'
<1> DEFINE n == Len(confirmed)
<1>1. /\ n \in Nat /\ n + 1 \in Task /\ Len(confirmed') = n + 1
      /\ confirmed'[n + 1] = c /\ \A t \in 1..n : confirmed'[t] = confirmed[t]
  <2>1. confirmed \in Seq(Confirmation) /\ confirmed' = Append(confirmed, c) /\ n < MaxTasks
    BY DEF OnceInv, Started, enqueue
  <2>2. n \in Nat /\ n + 1 \in Task
    BY <2>1, TasksAssumption DEF Task
  <2> QED
    BY <2>1, <2>2, AppendProperties
<1>2. UNCHANGED <<worker, applied, forgotten>>
  BY DEF enqueue, counters
<1>3. worker[n + 1] = "none"
  <2>1. \A t \in Task : worker[t] # "none" => t <= n
    BY DEF OnceInv, Started
  <2> QED
    BY <1>1, <2>1
<1>4. AppliedOnce'
  BY <1>2 DEF OnceInv, AppliedOnce
<1>5. applied \in [Request -> Nat] /\ c.request \in Request
  BY DEF OnceInv, Unapplied, Confirmation
<1>6. CASE forgotten
  BY <1>2, <1>4, <1>5, <1>6 DEF Distinct, Unapplied
<1>7. CASE ~forgotten
  <2>1. \A t \in 1..n : confirmed[t].request # c.request
    BY <1>7, RequestIsNew DEF OnceInv
  <2>2. /\ \A t, u \in 1..n : confirmed[t].request = confirmed[u].request => t = u
        /\ \A t \in 1..n : worker[t] \in Before => applied[confirmed[t].request] = 0
        /\ \A r \in Request : (\A t \in 1..n : confirmed[t].request # r) => applied[r] = 0
    BY <1>7 DEF OnceInv, Distinct, Unapplied
  <2>3. applied[c.request] = 0
    BY <1>5, <2>1, <2>2
  <2> HIDE DEF n
  <2>4. \A t \in 1..(n + 1) : t = n + 1 \/ t \in 1..n
    BY <1>1
  <2>5. Distinct'
    <3> SUFFICES ASSUME NEW t \in 1..(n + 1), NEW u \in 1..(n + 1),
                        confirmed'[t].request = confirmed'[u].request
                 PROVE  t = u
      BY <1>1 DEF Distinct
    <3> QED
      BY <1>1, <2>1, <2>2, <2>4
  <2>6. ASSUME NEW t \in 1..(n + 1), worker'[t] \in Before
        PROVE  applied'[confirmed'[t].request] = 0
    BY <1>1, <1>2, <2>2, <2>3, <2>4, <2>6
  <2>7. ASSUME NEW r \in Request, \A t \in 1..(n + 1) : confirmed'[t].request # r
        PROVE  applied'[r] = 0
    <3>1. \A t \in 1..n : confirmed[t].request # r
      BY <1>1, <2>7
    <3> QED
      BY <1>2, <2>2, <3>1
  <2> QED
    BY <1>1, <1>2, <1>4, <1>5, <2>5, <2>6, <2>7 DEF Unapplied
<1> QED
  BY <1>6, <1>7

\* Steps that have no effect, and bring no worker back to before its own.
LEMMA IdleOnce ==
    ASSUME OnceInv, UNCHANGED <<confirmed, applied>>, forgotten => forgotten',
           \A t \in Task : worker'[t] \in Before => worker[t] \in Before
    PROVE  Distinct' /\ Unapplied' /\ AppliedOnce'
<1>1. 1..Len(confirmed) \subseteq Task
  BY TasksAssumption DEF OnceInv, Started, Task
<1>2. Distinct' /\ AppliedOnce'
  BY DEF OnceInv, Distinct, AppliedOnce
<1>3. Unapplied'
  BY <1>1 DEF OnceInv, Unapplied
<1> QED
  BY <1>2, <1>3

\* The one step that has an effect is the last one before which it has none.
LEMMA EffectOnce ==
    ASSUME OnceInv, NEW t \in Task, worker[t] = "acting", TakesEffect(t),
           UNCHANGED <<confirmed, forgotten>>,
           NEW s \in WorkerSteps \ Before, Goto(t, s)
    PROVE  Distinct' /\ Unapplied' /\ AppliedOnce'
<1> DEFINE q == confirmed[t].request
<1>1. t \in 1..Len(confirmed) /\ confirmed[t] \in Confirmation /\ q \in Request
  <2>1. confirmed \in Seq(Confirmation) /\ t <= Len(confirmed)
    BY DEF OnceInv, Started
  <2>2. t \in 1..Len(confirmed)
    BY <2>1, TasksAssumption DEF Task
  <2>3. confirmed[t] \in Confirmation
    BY <2>1, <2>2, ElementOfSeq
  <2> QED
    BY <2>2, <2>3 DEF Confirmation
<1>2. 1..Len(confirmed) \subseteq Task
  BY TasksAssumption DEF OnceInv, Started, Task
<1>3. worker \in [Task -> WorkerSteps] /\ worker'[t] = s
      /\ \A u \in Task : u # t => worker'[u] = worker[u]
  BY DEF OnceInv, Started, Goto
<1>4. applied \in [Request -> Nat] /\ applied' = [applied EXCEPT ![q] = @ + 1]
  BY DEF OnceInv, Unapplied, TakesEffect
<1>5. Distinct'
  BY DEF OnceInv, Distinct
<1>6. CASE forgotten
  BY <1>1, <1>4, <1>5, <1>6 DEF Unapplied, AppliedOnce
<1>7. CASE ~forgotten
  <2>1. /\ \A u \in 1..Len(confirmed) : confirmed[u].request = q => u = t
        /\ \A u \in 1..Len(confirmed) : worker[u] \in Before => applied[confirmed[u].request] = 0
        /\ \A r \in Request : (\A u \in 1..Len(confirmed) : confirmed[u].request # r) => applied[r] = 0
        /\ \A r \in Request : applied[r] <= 1
    BY <1>1, <1>7 DEF OnceInv, Distinct, Unapplied, AppliedOnce
  <2>2. applied[q] = 0
    BY <1>1, <2>1 DEF Before
  <2> HIDE DEF q
  <2>3. applied' \in [Request -> Nat] /\ applied'[q] = 1
        /\ \A r \in Request : r # q => applied'[r] = applied[r]
    BY <1>1, <1>4, <2>2
  <2>4. AppliedOnce'
    BY <2>1, <2>3 DEF AppliedOnce
  <2>5. ASSUME NEW u \in 1..Len(confirmed), worker'[u] \in Before
        PROVE  applied'[confirmed[u].request] = 0
    <3>1. u # t
      BY <1>3, <2>5
    <3>2. confirmed[u].request # q /\ worker[u] \in Before
      BY <1>2, <1>3, <2>1, <2>5, <3>1
    <3>3. confirmed[u].request \in Request
      <4>1. confirmed[u] \in Confirmation
        BY ElementOfSeq DEF OnceInv, Started
      <4> QED
        BY <4>1 DEF Confirmation
    <3> QED
      BY <2>1, <2>3, <3>2, <3>3
  <2>6. ASSUME NEW r \in Request, \A u \in 1..Len(confirmed) : confirmed[u].request # r
        PROVE  applied'[r] = 0
    <3>1. r # q
      BY <1>1, <2>6 DEF q
    <3> QED
      BY <2>1, <2>3, <2>6, <3>1
  <2> QED
    BY <1>5, <2>3, <2>4, <2>5, <2>6 DEF Unapplied
<1> QED
  BY <1>6, <1>7

LEMMA OnceNext == OnceInv /\ [Next]_vars => Distinct' /\ Unapplied' /\ AppliedOnce'
<1> SUFFICES ASSUME OnceInv, [Next]_vars PROVE Distinct' /\ Unapplied' /\ AppliedOnce'
  OBVIOUS
<1>0. worker \in [Task -> WorkerSteps]
  BY DEF OnceInv, Started
<1>1. ASSUME NEW c \in Confirmation, enqueue(c)
      PROVE  Distinct' /\ Unapplied' /\ AppliedOnce'
  BY <1>1, EnqueueOnce
<1>2. ASSUME NEW t \in Task, Portal(t)
      PROVE  Distinct' /\ Unapplied' /\ AppliedOnce'
  <2>1. UNCHANGED <<confirmed, applied, forgotten>>
    BY <1>2 DEF Portal, StartWorker, StartConfirmed, StartFails, PortalStops, counters
  <2>2. \/ UNCHANGED worker
        \/ worker[t] = "none" /\ (Goto(t, "started") \/ Goto(t, "ended"))
    BY <1>2 DEF Portal, StartWorker, StartConfirmed, StartFails, PortalStops
  <2>3. \A u \in Task : worker'[u] \in Before => worker[u] \in Before
    BY <1>0, <2>2 DEF Goto, Before
  <2> QED
    BY <2>1, <2>3, IdleOnce
<1>3. ASSUME NEW t \in Task, Work(t)
      PROVE  Distinct' /\ Unapplied' /\ AppliedOnce'
  <2>1. CASE Claim(t) \/ Announce(t) \/ Acquire(t)
    <3>1. UNCHANGED <<confirmed, applied, forgotten>> /\ worker[t] \in Before
      BY <2>1 DEF Claim, Announce, Acquire, Still, counters, WorkerStep, Before
    <3>2. \E s \in WorkerSteps : Goto(t, s)
      BY <2>1 DEF Claim, Announce, Acquire, WorkerSteps
    <3>3. \A u \in Task : worker'[u] \in Before => worker[u] \in Before
      BY <1>0, <3>1, <3>2 DEF Goto
    <3> QED
      BY <3>1, <3>3, IdleOnce
  <2>2. CASE Act(t)
    <3>1. /\ worker[t] = "acting" /\ UNCHANGED <<confirmed, forgotten>>
          /\ Goto(t, "provisioning") \/ Goto(t, "failing")
          /\ TakesEffect(t) \/ NoEffect
      BY <2>2 DEF Act, ActingEnds, WorkerStep
    <3>2. CASE TakesEffect(t)
      BY <3>1, <3>2, EffectOnce DEF WorkerSteps, Before
    <3>3. CASE NoEffect
      <4>1. \A u \in Task : worker'[u] \in Before => worker[u] \in Before
        BY <1>0, <3>1 DEF Goto, Before
      <4> QED
        BY <3>1, <3>3, <4>1, IdleOnce DEF NoEffect
    <3> QED
      BY <3>1, <3>2, <3>3
  <2>3. CASE Provision(t) \/ Report(t) \/ ReportFailure(t)
    <3>1. UNCHANGED <<confirmed, applied, forgotten>>
      BY <2>3 DEF Provision, Report, ReportFailure, Still, counters
    <3>2. Goto(t, "reporting") \/ Goto(t, "failing") \/ Goto(t, "ended")
      BY <2>3 DEF Provision, Report, ReportFailure
    <3>3. \A u \in Task : worker'[u] \in Before => worker[u] \in Before
      BY <1>0, <3>2 DEF Goto, Before
    <3> QED
      BY <3>1, <3>3, IdleOnce
  <2> QED
    BY <1>3, <2>1, <2>2, <2>3 DEF Work
<1>4. ASSUME NEW t \in Task, KillWorker(t) \/ Age(t)
      PROVE  Distinct' /\ Unapplied' /\ AppliedOnce'
  <2>1. UNCHANGED <<confirmed, applied, forgotten>> /\ (UNCHANGED worker \/ Goto(t, "ended"))
    BY <1>4 DEF KillWorker, Age, counters
  <2>2. \A u \in Task : worker'[u] \in Before => worker[u] \in Before
    BY <1>0, <2>1 DEF Goto, Before
  <2> QED
    BY <2>1, <2>2, IdleOnce
<1>5. CASE delete_history \/ OtherBegins \/ OtherEnds
  <2>1. UNCHANGED <<confirmed, applied, worker>> /\ (forgotten => forgotten')
    BY <1>5 DEF delete_history, OtherBegins, OtherEnds
  <2> QED
    BY <2>1, IdleOnce
<1>6. CASE Reboot
  <2>1. /\ UNCHANGED <<confirmed, applied, forgotten>>
        /\ worker' = [t \in Task |-> IF worker[t] = "none" THEN "none" ELSE "ended"]
    BY <1>6 DEF Reboot
  <2>2. \A u \in Task : worker'[u] \in Before => worker[u] \in Before
    BY <2>1 DEF Before
  <2> QED
    BY <2>1, <2>2, IdleOnce
<1>7. CASE UNCHANGED vars
  <2>1. UNCHANGED <<confirmed, applied, forgotten, worker>>
    BY <1>7 DEF vars, counters
  <2> QED
    BY <2>1, IdleOnce
<1>8. ASSUME NEW request \in Request, NEW kind \in Kind, NEW seen \in 0..owner,
             NEW visible \in IF kind = "rotate" THEN 0..link ELSE {0}
      PROVE  [request |-> request, kind |-> kind, authorization |-> seen,
              target_binding |-> visible] \in Confirmation
  BY <1>8 DEF Confirmation, Kind, OnceInv, Started
<1> QED
  BY <1>1, <1>2, <1>3, <1>4, <1>5, <1>6, <1>7, <1>8 DEF Next

(* As long as the records of all tasks are kept, that is, there are not more *)
(* tasks than records and the owner does not delete them, a confirmation     *)
(* takes effect once at most (the request id in enqueue, the claim in run).  *)
THEOREM RequestsApplyOnce == ASSUME EveryTaskIsKept PROVE Spec => []AppliedOnce
<1>1. OnceInv /\ [Next]_vars => OnceInv'
  BY StartedNext, KeptNext, OnceNext DEF OnceInv
<1>2. OnceInv => AppliedOnce
  BY DEF OnceInv
<1> QED
  BY OnceInit, <1>1, <1>2, PTL DEF Spec

-----------------------------------------------------------------------------
(* What the cached figures have in common: the clock                       *)

ClockInv == now \in Nat /\ skew \in {0, -1}

\* While the clock was not set back nothing has set it back before.
LEMMA ClockMoves ==
    ASSUME ClockInv, [PortalNext]_portalVars
    PROVE  ClockInv' /\ now' >= now /\ (skew' = 0 => skew = 0)
<1>1. CASE ClockStep
  BY <1>1 DEF ClockInv, ClockStep, Tick, SetBack
<1>2. CASE TrafficNext
  <2>1. PICK s \in Services : \/ traffic_for(s) \/ Reread(s) \/ RereadFails(s)
                              \/ _persist(s) \/ TrafficRestart(s)
    BY <1>2 DEF TrafficNext
  <2>2. Trouble \/ UNCHANGED time
    BY <2>1 DEF traffic_for, Reread, RereadFails, _persist, TrafficRestart
  <2> QED
    BY <2>2 DEF Trouble, time, ClockInv
<1>3. CASE VersionsNext
  BY <1>3 DEF ClockInv, VersionsNext, get, _refresh, ReadRunning, AskReleases, _save, EndWorker,
              VersionsRestart, Trouble, time
<1>4. CASE ProviderNext
  BY <1>4 DEF ClockInv, ProviderNext, GetUsage, QueryAnswers, save_credentials, ByHand, ChangeFile,
              Trouble, time
<1>5. CASE record_sample
  BY <1>5 DEF ClockInv, record_sample, Trouble, time
<1>6. CASE SpeedStep(SpeedsNext) \/ UNCHANGED portalVars
  BY <1>6 DEF ClockInv, SpeedStep, portalVars, time
<1> QED
  BY <1>1, <1>2, <1>3, <1>4, <1>5, <1>6 DEF PortalNext

-----------------------------------------------------------------------------
(* Traffic *)

\* As long as the clock was not set back an entry says when it was read.
Dated(e) == e = None \/ (e.asOf \in Nat /\ e.asOf <= now /\ (skew = 0 => e.at = e.asOf))

TrafficInv ==
    /\ ClockInv
    /\ memory \in [Services -> {None} \cup [asOf : Nat, at : Int]]
    /\ saving \in [Services -> {None} \cup [asOf : Nat, at : Int]]
    /\ cacheFile \in {None} \cup [asOf : Nat, at : Int]
    /\ \A s \in Services : Dated(memory[s]) /\ Dated(saving[s])
    /\ Dated(cacheFile)
    /\ AnswersAreRecent

LEMMA TrafficInvInit == PortalInit => TrafficInv
  BY DEF PortalInit, ClockInit, TrafficInit, TrafficInv, ClockInv, Dated, AnswersAreRecent

LEMMA TrafficInvNext == TrafficInv /\ [PortalNext]_portalVars => TrafficInv'
<1> SUFFICES ASSUME TrafficInv, [PortalNext]_portalVars PROVE TrafficInv'
  OBVIOUS
<1> USE TrafficTtlAssumption
<1>0. ClockInv' /\ now' >= now /\ (skew' = 0 => skew = 0)
  BY ClockMoves DEF TrafficInv
<1>1. CASE UNCHANGED traffic
  BY <1>0, <1>1 DEF TrafficInv, Dated, AnswersAreRecent, traffic, ClockInv
<1>2. ASSUME NEW s \in Services, traffic_for(s) PROVE TrafficInv'
  BY <1>0, <1>2 DEF TrafficInv, Dated, AnswersAreRecent, traffic_for, _load_cached, _fresh, Answered,
     time, clock, ClockInv
<1>3. ASSUME NEW s \in Services, Reread(s) PROVE TrafficInv'
  <2>1. now \in Nat /\ clock \in Int /\ (skew = 0 => clock = now) /\ UNCHANGED <<now, skew>>
    BY <1>0, <1>3 DEF TrafficInv, ClockInv, clock, Reread, time
  <2>2. PICK read \in [asOf : Nat, at : Int] : read = [asOf |-> now, at |-> clock]
    BY <2>1
  <2>3. /\ memory' = [memory EXCEPT ![s] = read] /\ saving' = [saving EXCEPT ![s] = read]
        /\ cacheFile' = cacheFile
        /\ answer' = IF read = None THEN None ELSE [age |-> now - read.asOf, failed |-> FALSE]
    BY <1>3, <2>2 DEF Reread, Answered
  <2>4. read.asOf = now /\ read.at = clock
    BY <2>2
  <2>5. answer' # None => answer'.age = 0
    BY <2>1, <2>3, <2>4
  <2>6. ASSUME NEW t \in Services PROVE Dated(memory[t])' /\ Dated(saving[t])'
    BY <2>1, <2>3, <2>4 DEF TrafficInv, Dated
  <2>7. Dated(cacheFile)'
    BY <2>1, <2>3 DEF TrafficInv, Dated
  <2> QED
    BY <1>0, <2>1, <2>2, <2>3, <2>5, <2>6, <2>7 DEF TrafficInv, AnswersAreRecent
<1>4. ASSUME NEW s \in Services, RereadFails(s) PROVE TrafficInv'
  BY <1>0, <1>4 DEF TrafficInv, Dated, AnswersAreRecent, RereadFails, _load_cached, Answered, Trouble,
     clock, ClockInv
<1>5. ASSUME NEW s \in Services, _persist(s) PROVE TrafficInv'
  BY <1>0, <1>5 DEF TrafficInv, Dated, AnswersAreRecent, _persist, Idle, Trouble, time, ClockInv
<1>6. ASSUME NEW s \in Services, TrafficRestart(s) PROVE TrafficInv'
  BY <1>0, <1>6 DEF TrafficInv, Dated, AnswersAreRecent, TrafficRestart, Trouble, ClockInv
<1> QED
  BY <1>1, <1>2, <1>3, <1>4, <1>5, <1>6 DEF PortalNext, TrafficNext, ClockStep, SpeedStep, portalVars, cached

(* Figures are never shown for longer than the TTL after they were read,    *)
(* whichever of the two processes read them (metadata.py:119).              *)
THEOREM TrafficIsRecent == PortalSpec => []AnswersAreRecent
<1>1. TrafficInv => AnswersAreRecent
  BY DEF TrafficInv
<1> QED
  BY TrafficInvInit, TrafficInvNext, <1>1, PTL DEF PortalSpec

-----------------------------------------------------------------------------
(* Versions *)

\* A record without a date later than its own, which is in the past.
Sound(r) ==
    /\ r.checked \in Int /\ (skew = 0 => r.checked <= now)
    /\ \A p \in Projects : r.seen[p] \in Int /\ (skew = 0 => r.seen[p] <= r.checked)

\* The worker of a check that is due, or is asking already.
Asking == thread = "asking" \/ (thread = "running" /\ remote_due)

VersionsInv ==
    /\ ClockInv
    /\ known.seen \in [Projects -> Int] /\ Sound(known)
    /\ checksFile.seen \in [Projects -> Int] /\ Sound(checksFile)
    /\ lastCheck \in Nat \cup {Never} /\ lastCheck <= now
    /\ skew = 0 /\ lastCheck # Never => known.checked = lastCheck
    /\ skew = 0 /\ lastCheck # Never /\ Asking => now - lastCheck >= CheckInterval

LEMMA VersionsInvInit == PortalInit => VersionsInv
  BY DEF PortalInit, ClockInit, VersionsInit, VersionsInv, ClockInv, Sound, Asking, Unknown, Never

LEMMA VersionsInvNext == VersionsInv /\ [PortalNext]_portalVars => VersionsInv'
<1> SUFFICES ASSUME VersionsInv, [PortalNext]_portalVars PROVE VersionsInv'
  OBVIOUS
<1> USE IntervalsAssumption DEF Never
<1>0. ClockInv' /\ now' >= now /\ (skew' = 0 => skew = 0)
  BY ClockMoves DEF VersionsInv
<1>1. CASE UNCHANGED versions
  BY <1>0, <1>1 DEF VersionsInv, Sound, Asking, versions, ClockInv
<1>2. CASE get
  <2>1. /\ thread' = "running" /\ remote_due' = Overdue(known.checked, CheckInterval)
        /\ UNCHANGED <<now, skew, known, checksFile, lastCheck>>
    BY <1>2 DEF get, time
  <2>2. ASSUME skew = 0, lastCheck # -1, Overdue(known.checked, CheckInterval)
        PROVE  now - lastCheck >= CheckInterval
    BY <2>2 DEF VersionsInv, Overdue, clock, ClockInv
  <2> QED
    BY <1>0, <2>1, <2>2 DEF VersionsInv, Sound, Asking, ClockInv
<1>3. CASE ReadRunning
  BY <1>0, <1>3 DEF VersionsInv, Sound, Asking, ReadRunning, time, clock, ClockInv
<1>4. CASE AskReleases
  <2>1. PICK failed \in SUBSET Projects : known' = Checked(failed)
    BY <1>4 DEF AskReleases
  <2>2. /\ thread' = "saving" /\ lastCheck' = now
        /\ UNCHANGED <<now, skew, checksFile>>
    BY <1>4 DEF AskReleases, time, Trouble
  <2>3. now \in Nat /\ clock \in Int /\ (skew = 0 => clock = now)
    BY DEF VersionsInv, ClockInv, clock
  <2>4. /\ known'.checked = clock
        /\ known'.seen = [p \in Projects |-> IF p \in failed THEN known.seen[p] ELSE clock]
    BY <2>1 DEF Checked
  <2>5. ASSUME NEW p \in Projects
        PROVE  known'.seen[p] \in Int /\ (skew = 0 => known'.seen[p] <= clock)
    <3>1. known.seen[p] \in Int /\ known.checked \in Int
      BY DEF VersionsInv, Sound
    <3>2. skew = 0 => known.seen[p] <= clock
      BY <2>3, <3>1 DEF VersionsInv, Sound
    <3> QED
      BY <2>3, <2>4, <3>1, <3>2
  <2>6. Sound(known)' /\ known'.seen \in [Projects -> Int]
    BY <2>2, <2>3, <2>4, <2>5 DEF Sound
  <2> QED
    BY <1>0, <2>2, <2>3, <2>4, <2>6 DEF VersionsInv, Sound, Asking
<1>5. CASE _save
  BY <1>0, <1>5 DEF VersionsInv, Sound, Asking, _save, time, Trouble, ClockInv
<1>6. CASE EndWorker
  BY <1>0, <1>6 DEF VersionsInv, Sound, Asking, EndWorker, time, ClockInv
<1>7. CASE VersionsRestart
  <2>1. /\ thread' = "off" /\ known' = _load
        /\ lastCheck' = IF known = checksFile THEN lastCheck ELSE -1
        /\ UNCHANGED <<now, skew, checksFile>>
    BY <1>7 DEF VersionsRestart, Trouble
  <2>2. skew = 0 => _load = checksFile
    BY DEF VersionsInv, Sound, _load
  <2>3. known' = checksFile \/ known' = Unknown
    BY <2>1 DEF _load
  <2>4. Sound(known)' /\ known'.seen \in [Projects -> Int]
    BY <2>1, <2>3 DEF VersionsInv, ClockInv, Sound, Unknown
  <2> QED
    BY <1>0, <2>1, <2>2, <2>4 DEF VersionsInv, Sound, Asking, ClockInv
<1> QED
  BY <1>1, <1>2, <1>3, <1>4, <1>5, <1>6, <1>7
     DEF PortalNext, VersionsNext, _refresh, ClockStep, SpeedStep, portalVars, cached

(* From a check of the releases to the next one goes by a day, through      *)
(* failures and restarts (software_updates.py:144).                         *)
THEOREM ReleasesAreCheckedDaily == PortalSpec => []ChecksAreDaily
<1>1. VersionsInv => ChecksAreDaily
  BY DEF VersionsInv, ChecksAreDaily, Asking
<1> QED
  BY VersionsInvInit, VersionsInvNext, <1>1, PTL DEF PortalSpec

-----------------------------------------------------------------------------
(* The provider's usage *)

\* What the cache has kept is of the account it has read last.
UsageInv == usage \in {credentials, Absent} /\ UsageIsOfTheAccount

LEMMA UsageInvInit == PortalInit => UsageInv
  BY DEF PortalInit, ProviderInit, UsageInv, UsageIsOfTheAccount

LEMMA UsageInvNext == UsageInv /\ [PortalNext]_portalVars => UsageInv'
<1> SUFFICES ASSUME UsageInv, [PortalNext]_portalVars PROVE UsageInv'
  OBVIOUS
<1>1. CASE UNCHANGED provider
  BY <1>1 DEF UsageInv, UsageIsOfTheAccount, provider
<1>2. CASE GetUsage
  BY <1>2 DEF UsageInv, UsageIsOfTheAccount, GetUsage, Remembered, Show
<1>3. CASE QueryAnswers
  BY <1>3 DEF UsageInv, UsageIsOfTheAccount, QueryAnswers, Show
<1>4. CASE save_credentials \/ ByHand
  BY <1>4 DEF UsageInv, UsageIsOfTheAccount, save_credentials, ByHand, ChangeFile
<1> QED
  BY <1>1, <1>2, <1>3, <1>4 DEF PortalNext, ProviderNext, ClockStep, SpeedStep, portalVars, cached

(* The page never shows one account's usage for another's, though the       *)
(* credentials change between and during the queries (bandwagon.py:16).     *)
THEOREM UsageIsNeverMixed == PortalSpec => []UsageIsOfTheAccount
<1>1. UsageInv => UsageIsOfTheAccount
  BY DEF UsageInv
<1> QED
  BY UsageInvInit, UsageInvNext, <1>1, PTL DEF PortalSpec

-----------------------------------------------------------------------------
(* The history of the airport's usage *)

\* Of the numbers with a property one is the least: what holds of every number
\* whose predecessors have it holds of all.
LEMMA LeastNumber ==
    ASSUME NEW S, S \subseteq Nat, S # {}
    PROVE  \E n \in S : \A k \in S : n <= k
<1>1. PICK n \in S : \A k \in S : ~ (<<k, n>> \in OpToRel(<, Nat))
  BY NatLessThanWellFounded, WFMin, Zenon
<1>2. \A k \in S : ~ (k < n)
  BY <1>1, Zenon DEF OpToRel
<1> QED
  BY <1>2

(* Days *)

LEMMA FirstDayFacts == FirstDay \in Int
<1>1. ResetDays \subseteq Nat /\ ResetDays # {}
  BY MonthAssumption
<1>2. \E d \in ResetDays : \A e \in ResetDays : d <= e
  BY <1>1, LeastNumber
<1>3. FirstDay \in ResetDays
  BY <1>2, Zenon DEF FirstDay
<1> QED
  BY <1>1, <1>3

\* A later day is in no earlier cycle.
LEMMA CyclesAreOrdered ==
    ASSUME NEW s \in Int, NEW t \in Int, s <= t
    PROVE  cycle_start(s) \in Int /\ cycle_start(t) \in Int /\ cycle_start(s) <= cycle_start(t)
<1> DEFINE a == s - 1 + MonthLength - FirstDay + 1
           b == t - 1 + MonthLength - FirstDay + 1
           p == a \div MonthLength
           q == b \div MonthLength
<1>1. a \in Int /\ b \in Int /\ a <= b /\ MonthLength \in Nat /\ MonthLength > 0
  BY FirstDayFacts, MonthAssumption
<1>2. cycle_start(s) = p /\ cycle_start(t) = q
  BY DEF cycle_start
<1> HIDE DEF a, b
<1>3. /\ p \in Int /\ q \in Int
      /\ MonthLength * p <= a /\ a < MonthLength * p + MonthLength
      /\ MonthLength * q <= b /\ b < MonthLength * q + MonthLength
  BY <1>1
<1> HIDE DEF p, q
<1>4. p <= q
  <2> SUFFICES ASSUME q + 1 <= p PROVE FALSE
    BY <1>3
  <2>1. MonthLength * (q + 1) <= MonthLength * p
    BY <1>1, <1>3
  <2>2. MonthLength * (q + 1) = MonthLength * q + MonthLength
    BY <1>1, <1>3
  <2> QED
    BY <1>1, <1>3, <2>1, <2>2
<1> QED
  BY <1>2, <1>3, <1>4

(* Observations *)

Unpruned(window) == [first |-> 1, window |-> window]

\* The results of a loop over the observations, up to the n-th
Observes(f, samples, window, n) ==
    f = [i \in 0..n |-> IF i = 0 THEN Unpruned(window) ELSE Observed(samples, f[i-1], i)]

LEMMA LoopsEnd ==
    ASSUME NEW samples, NEW window, NEW n \in Nat
    PROVE  \E f : Observes(f, samples, window, n)
<1> DEFINE Endless == {k \in Nat : ~ \E f : Observes(f, samples, window, k)}
<1> SUFFICES ASSUME Endless # {} PROVE FALSE
  OBVIOUS
<1>1. PICK k \in Endless : \A j \in Endless : k <= j
  BY LeastNumber
<1>2. CASE k = 0
  <2> DEFINE f == [i \in 0..0 |-> Unpruned(window)]
  <2>1. f = [i \in 0..0 |-> IF i = 0 THEN Unpruned(window) ELSE Observed(samples, f[i-1], i)]
    OBVIOUS
  <2> HIDE DEF f
  <2>2. Observes(f, samples, window, 0)
    BY <2>1 DEF Observes
  <2> QED
    BY <1>1, <1>2, <2>2
<1>3. CASE k > 0
  <2>1. k - 1 \in Nat /\ k - 1 \notin Endless
    BY <1>1, <1>3
  <2>2. PICK f : Observes(f, samples, window, k - 1)
    BY <2>1
  <2>3. \A i \in 0..(k - 1) :
           f[i] = IF i = 0 THEN Unpruned(window) ELSE Observed(samples, f[i-1], i)
    BY <2>2 DEF Observes
  <2> DEFINE g == [i \in 0..k |-> IF i < k THEN f[i] ELSE Observed(samples, f[i-1], i)]
  <2>4. ASSUME NEW i \in 0..k
        PROVE  g[i] = IF i = 0 THEN Unpruned(window) ELSE Observed(samples, g[i-1], i)
    <3>1. i > 0 => g[i-1] = f[i-1]
      BY <1>1
    <3>2. i < k => g[i] = f[i] /\ i \in 0..(k - 1)
      BY <1>1
    <3>3. i = k => g[i] = Observed(samples, f[i-1], i)
      BY <1>1
    <3> HIDE DEF g
    <3> QED
      BY <1>1, <1>3, <2>3, <3>1, <3>2, <3>3
  <2>5. g = [i \in 0..k |-> IF i = 0 THEN Unpruned(window) ELSE Observed(samples, g[i-1], i)]
    <3>1. DOMAIN g = 0..k /\ g = [i \in 0..k |-> g[i]]
      OBVIOUS
    <3> HIDE DEF g
    <3> QED
      BY <2>4, <3>1
  <2> HIDE DEF g
  <2>6. Observes(g, samples, window, k)
    BY <2>5 DEF Observes
  <2> QED
    BY <1>1, <2>6
<1> QED
  BY <1>1, <1>2, <1>3

LEMMA CurrentObservations ==
    ASSUME NEW samples, Len(samples) \in Nat, NEW window
    PROVE  \E f : /\ Observes(f, samples, window, Len(samples))
                  /\ _current_observations(samples, window) =
                        [samples |-> SubSeq(samples, f[Len(samples)].first, Len(samples)),
                         reset_window |-> f[Len(samples)].window]
<1> DEFINE found == CHOOSE f : f = [i \in 0..Len(samples) |->
                       IF i = 0 THEN [first |-> 1, window |-> window]
                       ELSE Observed(samples, f[i-1], i)]
<1>1. \E f : f = [i \in 0..Len(samples) |->
                       IF i = 0 THEN [first |-> 1, window |-> window]
                       ELSE Observed(samples, f[i-1], i)]
  <2>1. PICK f : Observes(f, samples, window, Len(samples))
    BY LoopsEnd
  <2>2. f = [i \in 0..Len(samples) |->
               IF i = 0 THEN [first |-> 1, window |-> window] ELSE Observed(samples, f[i-1], i)]
    BY <2>1, Zenon DEF Observes, Unpruned
  <2> QED
    BY <2>2, Zenon
<1>2. found = [i \in 0..Len(samples) |->
                       IF i = 0 THEN [first |-> 1, window |-> window]
                       ELSE Observed(samples, found[i-1], i)]
  BY <1>1
<1>3. _current_observations(samples, window) =
        [samples |-> SubSeq(samples, found[Len(samples)].first, Len(samples)),
         reset_window |-> found[Len(samples)].window]
  BY DEF _current_observations
<1> HIDE DEF found
<1> QED
  BY <1>2, <1>3 DEF Observes, Unpruned

\* Either no reset was found, or the last one gives the first sample and the window.
FoundOf(found, samples, window, i) ==
    \/ found = Unpruned(window)
    \/ /\ found = [first |-> found.first,
                   window |-> <<samples[found.first - 1].at, samples[found.first].at>>]
       /\ found.first \in 2..i

LEMMA ObservedFacts ==
    ASSUME NEW samples, NEW window, NEW n \in Nat, NEW f, Observes(f, samples, window, n)
    PROVE  FoundOf(f[n], samples, window, n)
<1> DEFINE Wrong == {k \in 0..n : ~FoundOf(f[k], samples, window, k)}
<1> SUFFICES ASSUME Wrong # {} PROVE FALSE
  OBVIOUS
<1>0. Wrong \subseteq Nat
  OBVIOUS
<1>1. PICK k \in Wrong : \A j \in Wrong : k <= j
  <2> HIDE DEF Wrong
  <2> QED
    BY <1>0, LeastNumber
<1>2. \A i \in 0..n : f[i] = IF i = 0 THEN Unpruned(window) ELSE Observed(samples, f[i-1], i)
  BY DEF Observes
<1>3. k # 0
  BY <1>1, <1>2 DEF FoundOf
<1>4. k - 1 \in 0..n /\ FoundOf(f[k-1], samples, window, k - 1)
  BY <1>1, <1>3
<1>5. f[k] = Observed(samples, f[k-1], k)
  BY <1>1, <1>2, <1>3
<1>6. FoundOf(f[k], samples, window, k)
  <2>1. CASE f[k] = f[k-1]
    <3>1. CASE f[k-1] = Unpruned(window)
      BY <2>1, <3>1 DEF FoundOf
    <3>2. CASE f[k-1] # Unpruned(window)
      <4>1. f[k-1].first \in 2..(k - 1)
        BY <1>4, <3>2 DEF FoundOf
      <4>2. f[k-1].first \in 2..k
        BY <1>1, <4>1
      <4> QED
        BY <1>4, <2>1, <3>2, <4>2 DEF FoundOf
    <3> QED
      BY <3>1, <3>2
  <2>2. CASE k > 1 /\ f[k] = [first |-> k, window |-> <<samples[k-1].at, samples[k].at>>]
    BY <1>1, <2>2 DEF FoundOf
  <2> QED
    BY <1>5, <2>1, <2>2 DEF Observed
<1> QED
  BY <1>1, <1>6

\* With a window no sample is later than, nothing is found.
LEMMA NothingFound ==
    ASSUME NEW samples, NEW window, NEW n \in Nat, NEW f, Observes(f, samples, window, n),
           \A i \in 2..n : ~IsReset(samples[i-1], samples[i], window)
    PROVE  f[n] = Unpruned(window)
<1> DEFINE Wrong == {k \in 0..n : f[k] # Unpruned(window)}
<1> SUFFICES ASSUME Wrong # {} PROVE FALSE
  OBVIOUS
<1>0. Wrong \subseteq Nat
  OBVIOUS
<1>1. PICK k \in Wrong : \A j \in Wrong : k <= j
  <2> HIDE DEF Wrong
  <2> QED
    BY <1>0, LeastNumber
<1>2. \A i \in 0..n : f[i] = IF i = 0 THEN Unpruned(window) ELSE Observed(samples, f[i-1], i)
  BY DEF Observes
<1>3. k # 0 /\ k \in 0..n /\ k - 1 \in 0..n
  BY <1>1, <1>2
<1>4. f[k-1] = Unpruned(window) /\ f[k] = Observed(samples, f[k-1], k)
  BY <1>1, <1>2, <1>3
<1>5. f[k-1].window = window
  BY <1>4 DEF Unpruned
<1>6. f[k] = Unpruned(window)
  BY <1>3, <1>4, <1>5 DEF Observed
<1> QED
  BY <1>1, <1>6

(* What is recorded *)

Sample == [at : Int, used : 0..MaxUsed]
InOrder(samples) == \A i, j \in 1..Len(samples) : i < j => samples[i].at <= samples[j].at

HistoryInv ==
    /\ ClockInv
    /\ history = [samples |-> history.samples, reset_window |-> history.reset_window]
    /\ history.samples \in Seq(Sample)
    /\ history.reset_window = None \/ history.reset_window \in Int \X Int
    /\ HistoryIsReadable

\* The latest of some samples in order are in order.
LEMMA Latter ==
    ASSUME NEW s \in Seq(Sample), InOrder(s), NEW k \in 1..Len(s)
    PROVE  LET t == SubSeq(s, k, Len(s))
           IN  /\ t \in Seq(Sample) /\ Len(t) = Len(s) - k + 1 /\ InOrder(t)
               /\ t[1] = s[k]
<1> DEFINE t == SubSeq(s, k, Len(s))
<1>0. Len(s) \in Int /\ k \in Int /\ \A i \in 1..Len(s) : s[i] \in Sample
  OBVIOUS
<1>1. /\ t \in Seq(Sample) /\ Len(t) = Len(s) - k + 1
      /\ \A i \in 1..Len(t) : t[i] = s[k + i - 1]
  <2>1. \A i \in k..Len(s) : s[i] \in Sample
    BY <1>0
  <2> HIDE DEF Sample
  <2>2. /\ t \in Seq(Sample)
        /\ Len(t) = IF k <= Len(s) THEN Len(s) - k + 1 ELSE 0
        /\ \A i \in 1..(Len(s) - k + 1) : t[i] = s[k + i - 1]
    BY <1>0, <2>1, SubSeqProperties
  <2> QED
    BY <1>0, <2>2
<1> HIDE DEF t
<1>2. InOrder(t)
  <2> SUFFICES ASSUME NEW i \in 1..Len(t), NEW j \in 1..Len(t), i < j
               PROVE  t[i].at <= t[j].at
    BY DEF InOrder
  <2>1. /\ k + i - 1 \in 1..Len(s) /\ k + j - 1 \in 1..Len(s) /\ k + i - 1 < k + j - 1
        /\ t[i] = s[k + i - 1] /\ t[j] = s[k + j - 1]
    BY <1>0, <1>1
  <2> QED
    BY <2>1 DEF InOrder
<1>3. t[1] = s[k]
  BY <1>0, <1>1
<1> QED
  BY <1>1, <1>2, <1>3 DEF t

\* The samples with a new one, which is not delayed
LEMMA GrownFacts ==
    ASSUME HistoryInv, ~Delayed(clock), NEW used \in 0..MaxUsed
    PROVE  LET g == Grown(used)
           IN  /\ g \in Seq(Sample) /\ Len(g) = Len(history.samples) + 1 /\ InOrder(g)
               /\ \A i \in 1..Len(history.samples) : g[i] = history.samples[i]
               /\ \A i \in 1..Len(g) : g[i].at <= clock
<1> DEFINE s == history.samples
           n == Len(s)
           last == [at |-> clock, used |-> used]
           g == Append(s, last)
<1>1. s \in Seq(Sample) /\ clock \in Int /\ last \in Sample
  BY DEF HistoryInv, ClockInv, clock, Sample
<1>2. InOrder(s)
  BY DEF HistoryInv, HistoryIsReadable, Readable, IsSorted, InOrder
<1>3. /\ g \in Seq(Sample) /\ n \in Nat /\ Len(g) = n + 1 /\ g[n + 1].at = clock
      /\ \A i \in 1..n : g[i] = s[i] /\ s[i].at \in Int
  <2>1. \A i \in 1..n : s[i] \in Sample
    BY <1>1
  <2> QED
    BY <1>1, <2>1 DEF Sample
<1>4. n > 0 => s[n].at <= clock
  <2>1. n > 0 => s # << >>
    BY <1>1
  <2> QED
    BY <1>1, <1>3, <2>1 DEF Delayed, Last
<1> HIDE DEF s, n, last, g
<1>5. \A i \in 1..n : s[i].at <= clock
  <2>1. \A i, j \in 1..n : i < j => s[i].at <= s[j].at
    BY <1>2 DEF InOrder, n
  <2> SUFFICES ASSUME NEW i \in 1..n PROVE s[i].at <= clock
    OBVIOUS
  <2>2. n \in 1..n /\ s[i].at \in Int /\ s[n].at \in Int /\ s[n].at <= clock
    BY <1>3, <1>4
  <2>3. i = n \/ s[i].at <= s[n].at
    BY <2>1, <2>2
  <2> QED
    BY <1>1, <2>2, <2>3
<1>6. \A i \in 1..n : g[i].at <= clock /\ g[i].at \in Int
  BY <1>3, <1>5
<1>7. \A i, j \in 1..n : i < j => g[i].at <= g[j].at
  BY <1>2, <1>3 DEF InOrder, n
<1>8. InOrder(g)
  <2> SUFFICES ASSUME NEW i \in 1..(n + 1), NEW j \in 1..(n + 1), i < j PROVE g[i].at <= g[j].at
    BY <1>3 DEF InOrder
  <2>1. i \in 1..n /\ (j \in 1..n \/ j = n + 1)
    BY <1>3
  <2> QED
    BY <1>3, <1>6, <1>7, <2>1
<1>9. \A i \in 1..(n + 1) : g[i].at <= clock
  BY <1>1, <1>3, <1>6
<1> QED
  BY <1>3, <1>8, <1>9 DEF Grown, s, n, last, g

LEMMA HistoryInvInit == PortalInit => HistoryInv
  BY MonthAssumption DEF PortalInit, ClockInit, HistoryInit, HistoryInv, ClockInv, HistoryIsReadable,
     Readable, IsSorted, None

\* What is written after a sample: the samples from some one on, with the window
\* of before or with the one that ends at that sample.
LEMMA SampledFacts ==
    ASSUME HistoryInv, ~Delayed(clock), NEW used \in 0..MaxUsed
    PROVE  LET g == Grown(used)
               h == [Sampled(used) EXCEPT !.samples = Latest(@)]
           IN  \E k \in 1..Len(g) : \E w :
                  /\ h = [samples |-> SubSeq(g, k, Len(g)), reset_window |-> w]
                  /\ Len(g) - k < MaxSamples
                  /\ \/ w = history.reset_window
                     \/ \E i \in 2..k : w = <<g[i-1].at, g[i].at>>
<1> DEFINE g == Grown(used)
           n == Len(g)
           w0 == history.reset_window
<1>1. /\ g \in Seq(Sample) /\ n \in Nat /\ n > 0 /\ MaxSamples \in Nat /\ MaxSamples > 0
      /\ InOrder(g)
  <2>1. Len(history.samples) \in Nat
    BY DEF HistoryInv
  <2> QED
    BY <2>1, GrownFacts, MonthAssumption
<1> HIDE DEF g
<1>2. PICK f : /\ Observes(f, g, w0, n)
               /\ _current_observations(g, w0) =
                     [samples |-> SubSeq(g, f[n].first, n), reset_window |-> f[n].window]
  BY <1>1, CurrentObservations
<1> DEFINE m == f[n].first
           w == f[n].window
<1>3. /\ m \in 1..n
      /\ w = w0 \/ \E i \in 2..m : w = <<g[i-1].at, g[i].at>>
  <2>1. FoundOf(f[n], g, w0, n)
    BY <1>1, <1>2, ObservedFacts
  <2>2. CASE f[n] = Unpruned(w0)
    BY <1>1, <2>2 DEF Unpruned
  <2>3. CASE /\ f[n] = [first |-> m, window |-> <<g[m-1].at, g[m].at>>]
             /\ m \in 2..n
    <3> HIDE DEF m
    <3> QED
      BY <1>1, <2>3
  <2> QED
    BY <2>1, <2>2, <2>3 DEF FoundOf
<1> HIDE DEF m, w, w0, n
<1> DEFINE s == SubSeq(g, m, n)
           l == IF Len(s) > MaxSamples THEN Len(s) - MaxSamples + 1 ELSE 1
           k == m + l - 1
<1>4. s \in Seq(Sample) /\ Len(s) = n - m + 1
  BY <1>1, <1>3, Latter DEF n
<1>5. l \in 1..Len(s) /\ k \in 1..n /\ n - k < MaxSamples /\ m <= k
  BY <1>1, <1>3, <1>4
<1>6. Latest(s) = SubSeq(g, k, n)
  <2>1. Latest(s) = SubSeq(s, l, n - m + 1)
    BY <1>4 DEF Latest
  <2> HIDE DEF l, s
  <2>2. /\ m \in 1..Len(g) /\ n \in 1..Len(g)
        /\ l \in 1..(n - m + 1) /\ n - m + 1 \in 1..(n - m + 1)
    BY <1>1, <1>3, <1>4, <1>5 DEF n
  <2>3. SubSeq(SubSeq(g, m, n), l, n - m + 1) = SubSeq(g, m + l - 1, m + (n - m + 1) - 1)
    BY <1>1, <2>2, SubSeqOfSubSeq
  <2>4. m + (n - m + 1) - 1 = n
    BY <1>1, <1>3
  <2> QED
    BY <2>1, <2>3, <2>4 DEF s, k
<1>7. [Sampled(used) EXCEPT !.samples = Latest(@)] = [samples |-> SubSeq(g, k, n), reset_window |-> w]
  <2>1. Sampled(used) = [samples |-> s, reset_window |-> w]
    BY <1>2 DEF Sampled, g, m, w, w0
  <2> HIDE DEF s
  <2>2. [Sampled(used) EXCEPT !.samples = Latest(@)] = [samples |-> Latest(s), reset_window |-> w]
    BY <2>1
  <2> QED
    BY <1>6, <2>2
<1>8. w = w0 \/ \E i \in 2..k : w = <<g[i-1].at, g[i].at>>
  BY <1>1, <1>3, <1>5
<1> QED
  BY <1>5, <1>7, <1>8 DEF g, n, w0

LEMMA HistoryInvNext == HistoryInv /\ [PortalNext]_portalVars => HistoryInv'
<1> SUFFICES ASSUME HistoryInv, [PortalNext]_portalVars PROVE HistoryInv'
  OBVIOUS
<1>1. ClockInv'
  BY ClockMoves DEF HistoryInv
<1>2. CASE UNCHANGED history
  BY <1>1, <1>2 DEF HistoryInv, HistoryIsReadable, Readable, IsSorted
<1>3. ASSUME record_sample, history' # history PROVE HistoryInv'
  <2>1. PICK used \in 0..MaxUsed :
           ~Delayed(clock) /\ history' = [Sampled(used) EXCEPT !.samples = Latest(@)]
    BY <1>3 DEF record_sample
  <2> DEFINE g == Grown(used)
  <2>2. PICK k \in 1..Len(g) : \E w :
           /\ history' = [samples |-> SubSeq(g, k, Len(g)), reset_window |-> w]
           /\ Len(g) - k < MaxSamples
           /\ \/ w = history.reset_window
              \/ \E i \in 2..k : w = <<g[i-1].at, g[i].at>>
    BY <2>1, SampledFacts
  <2>3. PICK w :
           /\ history' = [samples |-> SubSeq(g, k, Len(g)), reset_window |-> w]
           /\ Len(g) - k < MaxSamples
           /\ \/ w = history.reset_window
              \/ \E i \in 2..k : w = <<g[i-1].at, g[i].at>>
    BY <2>2
  <2>4. /\ g \in Seq(Sample) /\ InOrder(g) /\ Len(g) = Len(history.samples) + 1
        /\ \A i \in 1..Len(history.samples) : g[i] = history.samples[i]
    BY <2>1, GrownFacts
  <2> HIDE DEF g
  <2>5. Len(g) \in Nat /\ MaxSamples \in Nat /\ k \in Int /\ \A i \in 1..Len(g) : g[i].at \in Int
    <3>1. \A i \in 1..Len(g) : g[i] \in Sample
      BY <2>4
    <3>2. \A i \in 1..Len(g) : g[i].at \in Int
      BY <3>1 DEF Sample
    <3>3. MaxSamples \in Nat
      BY MonthAssumption
    <3>4. Len(g) \in Nat
      BY <2>4
    <3>5. k \in Int
      OBVIOUS
    <3> QED
      BY <3>2, <3>3, <3>4, <3>5
  <2> DEFINE t == SubSeq(g, k, Len(g))
  <2>6. t \in Seq(Sample) /\ Len(t) = Len(g) - k + 1 /\ InOrder(t) /\ t[1] = g[k]
    BY <2>4, Latter
  <2> HIDE DEF t
  <2>7. history'.samples = t /\ history'.reset_window = w
        /\ history' = [samples |-> t, reset_window |-> w]
    BY <2>3 DEF t
  <2>8. w = None \/ (w \in Int \X Int /\ w[1] <= w[2] /\ w[2] <= t[1].at)
    <3>1. CASE w = history.reset_window /\ w # None
      <4>1. /\ w \in Int \X Int /\ w[1] <= w[2]
            /\ history.samples # << >> /\ w[2] <= history.samples[1].at
        BY <3>1 DEF HistoryInv, HistoryIsReadable, Readable
      <4>2. Len(history.samples) \in Nat /\ Len(history.samples) > 0
        BY <4>1 DEF HistoryInv
      <4>3. w[2] <= g[1].at
        BY <2>4, <4>1, <4>2
      <4>4. k # 1 => g[1].at <= g[k].at
        BY <2>4, <2>5 DEF InOrder
      <4>5. 1 \in 1..Len(g) /\ k \in 1..Len(g) /\ w[2] \in Int
        BY <2>4, <4>1, <4>2
      <4>6. w[2] <= g[k].at
        <5>1. g[1].at \in Int /\ g[k].at \in Int
          BY <2>5, <4>5
        <5> QED
          BY <4>3, <4>4, <4>5, <5>1
      <4> QED
        BY <2>6, <4>1, <4>6
    <3>2. ASSUME NEW i \in 2..k, w = <<g[i-1].at, g[i].at>>
          PROVE  w \in Int \X Int /\ w[1] <= w[2] /\ w[2] <= t[1].at
      <4>1. i \in 1..Len(g) /\ i - 1 \in 1..Len(g) /\ i - 1 < i /\ k \in 1..Len(g)
        BY <2>5
      <4>2. g[i-1].at <= g[i].at /\ (i # k => g[i].at <= g[k].at)
        <5>1. i # k => i < k
          BY <2>5
        <5> QED
          BY <2>4, <4>1, <5>1 DEF InOrder
      <4> QED
        BY <2>5, <2>6, <3>2, <4>1, <4>2
    <3> QED
      BY <2>3, <3>1, <3>2
  <2>9. HistoryIsReadable'
    <3>1. Len(t) <= MaxSamples /\ t # << >>
      BY <2>3, <2>5, <2>6
    <3> QED
      BY <2>6, <2>7, <2>8, <3>1 DEF HistoryIsReadable, Readable, IsSorted, InOrder, None
  <2> QED
    BY <1>1, <2>6, <2>7, <2>8, <2>9 DEF HistoryInv
<1> QED
  BY <1>2, <1>3 DEF PortalNext, ClockStep, SpeedStep, cached, portalVars

\* In the cycle whose reset is on record no sample starts a new one.
LEMMA SecondDropStays ==
    ASSUME HistoryInv, record_sample, history' # history,
           history.reset_window # None, Len(history.samples) < MaxSamples,
           cycle_start(clock) = cycle_start(history.reset_window[2])
    PROVE  \E used \in 0..MaxUsed : history'.samples = Grown(used)
<1>1. PICK used \in 0..MaxUsed :
         ~Delayed(clock) /\ history' = [Sampled(used) EXCEPT !.samples = Latest(@)]
  BY DEF record_sample
<1> DEFINE g == Grown(used)
           n == Len(g)
           w0 == history.reset_window
<1>2. /\ g \in Seq(Sample) /\ n \in Nat /\ n > 0 /\ n <= MaxSamples /\ MaxSamples \in Nat
      /\ \A i \in 1..n : g[i].at <= clock
  <2>1. Len(history.samples) \in Nat
    BY DEF HistoryInv
  <2> QED
    BY <1>1, <2>1, GrownFacts, MonthAssumption
<1>3. clock \in Int /\ w0 \in Int \X Int /\ \A i \in 1..n : g[i].at \in Int
  <2>1. \A i \in 1..n : g[i] \in Sample
    BY <1>2
  <2> QED
    BY <2>1 DEF HistoryInv, ClockInv, clock, Sample
<1> HIDE DEF g
<1>4. ASSUME NEW i \in 2..n PROVE ~IsReset(g[i-1], g[i], w0)
  <2>1. i \in 1..n
    BY <1>2
  <2>2. /\ cycle_start(g[i].at) <= cycle_start(clock)
        /\ cycle_start(g[i].at) \in Int /\ cycle_start(clock) \in Int
    BY <1>2, <1>3, <2>1, CyclesAreOrdered
  <2> QED
    BY <2>2 DEF IsReset
<1>5. PICK f : /\ Observes(f, g, w0, n)
               /\ _current_observations(g, w0) =
                     [samples |-> SubSeq(g, f[n].first, n), reset_window |-> f[n].window]
  BY <1>2, CurrentObservations
<1>6. f[n] = Unpruned(w0)
  <2> HIDE DEF n, w0
  <2> QED
    BY <1>2, <1>4, <1>5, NothingFound
<1>7. SubSeq(g, 1, n) = g
  BY <1>2, SubSeqFull
<1>8. Sampled(used) = [samples |-> g, reset_window |-> w0]
  BY <1>5, <1>6, <1>7 DEF Sampled, Unpruned, g
<1>9. Latest(g) = g
  <2>1. ~(Len(g) > MaxSamples)
    BY <1>2
  <2> QED
    BY <1>7, <2>1, Zenon DEF Latest
<1>10. history'.samples = Latest(g)
  BY <1>1, <1>8
<1> QED
  BY <1>9, <1>10 DEF g

(* Of the samples since the reset of a cycle none is lost to a second drop  *)
(* in the same cycle, as long as the file is not full, for any number of    *)
(* samples and whatever the provider's counter does                         *)
(* (airport_usage.py, _current_observations).                               *)
THEOREM CyclesAreCorrectedOnce == PortalSpec => CycleIsCorrectedOnce
<1> DEFINE Corrected ==
       history.reset_window # None /\ Len(history.samples) < MaxSamples
        => LET reset == cycle_start(history.reset_window[2])
           IN cycle_start(clock) = reset => IsPrefix(history.samples, history'.samples)
<1>1. HistoryInv /\ [PortalNext]_portalVars => [Corrected]_history
  <2> SUFFICES ASSUME HistoryInv, [PortalNext]_portalVars, history' # history,
                      history.reset_window # None, Len(history.samples) < MaxSamples,
                      cycle_start(clock) = cycle_start(history.reset_window[2])
               PROVE  IsPrefix(history.samples, history'.samples)
    OBVIOUS
  <2>1. record_sample
    BY DEF PortalNext, ClockStep, SpeedStep, cached, portalVars
  <2>2. PICK used \in 0..MaxUsed : history'.samples = Grown(used)
    BY <2>1, SecondDropStays
  <2>3. history.samples \in Seq(Sample) /\ clock \in Int
    BY DEF HistoryInv, ClockInv, clock
  <2> DEFINE s == history.samples
             last == [at |-> clock, used |-> used]
             t == Append(s, last)
  <2>4. s \in Seq(Sample) /\ t \in Seq(Sample) /\ Len(s) \in Nat
    BY <2>3 DEF Sample
  <2>5. Len(t) = Len(s) + 1 /\ \A i \in 1..Len(s) : t[i] = s[i]
    BY <2>4
  <2> HIDE DEF last
  <2>6. SubSeq(s, 1, Len(s)) = SubSeq(t, 1, Len(s))
    BY <2>4, <2>5
  <2>7. IsPrefix(s, t)
    BY <2>4, <2>5, <2>6 DEF IsPrefix
  <2> QED
    BY <2>2, <2>7 DEF Grown, last
<1> QED
  BY HistoryInvInit, HistoryInvNext, <1>1, PTL DEF PortalSpec, CycleIsCorrectedOnce

(* Whatever is written to the history can be read again, clock set back or  *)
(* not: no record makes all later ones fail (airport_usage.py:93).          *)
THEOREM HistoriesAreReadable == PortalSpec => []HistoryIsReadable
<1>1. HistoryInv => HistoryIsReadable
  BY DEF HistoryInv
<1> QED
  BY HistoryInvInit, HistoryInvNext, <1>1, PTL DEF PortalSpec

-----------------------------------------------------------------------------
(* Live speeds *)

LEMMA SpeedsAreLiveInit == PortalInit => SpeedsAreLive
  BY DEF PortalInit, SpeedsInit, SpeedsAreLive

LEMMA SpeedsAreLiveNext == SpeedsAreLive /\ [PortalNext]_portalVars => SpeedsAreLive'
<1> SUFFICES ASSUME SpeedsAreLive, [PortalNext]_portalVars PROVE SpeedsAreLive'
  OBVIOUS
<1> USE DEF SpeedsAreLive
<1>1. CASE UNCHANGED speeds
  BY <1>1 DEF speeds, lane, hub
<1>2. CASE Reader
  BY <1>2 DEF Reader, ReadSettings, take_speed_login, panel_login, CheckViewers, connect_panel, Loop,
              recv, EndReader, Goes, Fails, lane, hub
<1>3. CASE Requests
  BY <1>3 DEF Requests, Serve, renew, release, LogoutReleases, LogoutForgets, Abort, lane, hub
<1>4. CASE Second \/ PanelForgets
  BY <1>4 DEF Second, PanelForgets, lane
<1>5. ASSUME NEW s \in Sessions, login(s) \/ Outdate(s) \/ refuse(s) \/ Logout(s)
      PROVE  SpeedsAreLive'
  BY <1>5 DEF login, Outdate, refuse, Logout, release, lane, hub
<1>6. ASSUME NEW v \in Viewers, NEW s \in Sessions, NEW active, session_record(v, s, active)
      PROVE  SpeedsAreLive'
  BY <1>6 DEF session_record, lane, hub
<1> QED
  BY <1>1, <1>2, <1>3, <1>4, <1>5, <1>6 DEF PortalNext, ClockStep, SpeedsNext, SpeedStep, portalVars

(* Speeds are shown only while the reader holds a socket (speeds.py:205).   *)
THEOREM ShownSpeedsAreLive == PortalSpec => []SpeedsAreLive
  BY SpeedsAreLiveInit, SpeedsAreLiveNext, PTL DEF PortalSpec

-----------------------------------------------------------------------------
(* The panel's password *)

\* The password of a session is in one place at most: it was not typed yet,
\* waits, is in the reader's hands, or has been sent.
Sending(s) == reader = "submit" /\ reading = s

TypedOnce(s) ==
    /\ tried[s] <= 1
    /\ sessions[s] = "never" => s \notin logins /\ ~Sending(s) /\ tried[s] = 0
    /\ s \in logins => ~Sending(s) /\ tried[s] = 0
    /\ Sending(s) => tried[s] = 0

LeavingSession ==
    leaving # <<>> =>
        leaving.session \in Sessions /\ leaving = [session |-> leaving.session, left |-> leaving.left]

PasswordInv ==
    /\ logins \subseteq Sessions
    /\ sessions \in [Sessions -> {"never", "valid", "stale", "gone"}]
    /\ tried \in [Sessions -> Nat]
    /\ LeavingSession
    /\ \A s \in Sessions : TypedOnce(s)

LEMMA PasswordInvInit == PortalInit => PasswordInv
<1> SUFFICES ASSUME PortalInit PROVE PasswordInv
  OBVIOUS
<1>1. /\ sessions = [s \in Sessions |-> "never"] /\ tried = [s \in Sessions |-> 0]
      /\ logins = {} /\ leaving = <<>> /\ reader = "off"
  BY DEF PortalInit, SpeedsInit
<1>2. \A s \in Sessions : TypedOnce(s)
  BY <1>1 DEF TypedOnce, Sending
<1> QED
  BY <1>1, <1>2 DEF PasswordInv, LeavingSession

\* Steps that send no password and have none typed.
LEMMA PasswordInvKept ==
    ASSUME PasswordInv, logins' \subseteq logins, UNCHANGED tried,
           reader' = "submit" => UNCHANGED <<reader, reading>>,
           sessions' \in [Sessions -> {"never", "valid", "stale", "gone"}],
           \A s \in Sessions : sessions'[s] = "never" => sessions[s] = "never",
           LeavingSession'
    PROVE  PasswordInv'
  BY DEF PasswordInv, TypedOnce, Sending

LEMMA PasswordInvNext == PasswordInv /\ [PortalNext]_portalVars => PasswordInv'
<1> SUFFICES ASSUME PasswordInv, [PortalNext]_portalVars PROVE PasswordInv'
  OBVIOUS
<1>1. CASE UNCHANGED speeds
  BY <1>1, PasswordInvKept DEF PasswordInv, LeavingSession, speeds, portal, lane
<1>2. CASE ReadSettings \/ CheckViewers \/ connect_panel \/ Loop \/ recv \/ EndReader
  <2>1. UNCHANGED <<sessions, logins, leaving, tried>> /\ reader' # "submit"
    BY <1>2 DEF ReadSettings, CheckViewers, connect_panel, Loop, recv, EndReader, Goes, Fails, portal
  <2> QED
    BY <2>1, PasswordInvKept DEF PasswordInv, LeavingSession
<1>3. CASE take_speed_login
  <2>1. /\ UNCHANGED <<sessions, leaving, tried>> /\ logins' = logins \ {reading}
        /\ reader' = "submit" => reading \in logins /\ reading' = reading
    BY <1>3 DEF take_speed_login, Goes, Fails
  <2> QED
    BY <2>1 DEF PasswordInv, LeavingSession, TypedOnce, Sending
<1>4. CASE panel_login
  <2>1. /\ UNCHANGED <<sessions, logins, leaving>> /\ tried' = [tried EXCEPT ![reading] = @ + 1]
        /\ reader = "submit" /\ reader' # "submit"
    BY <1>4 DEF panel_login, Goes, Fails, portal
  <2>2. ASSUME NEW s \in Sessions PROVE TypedOnce(s)'
    <3>1. CASE s = reading
      BY <2>1, <3>1 DEF PasswordInv, TypedOnce, Sending
    <3>2. CASE s # reading
      BY <2>1, <3>2 DEF PasswordInv, TypedOnce, Sending
    <3> QED
      BY <3>1, <3>2
  <2> QED
    <3>1. tried' \in [Sessions -> Nat]
      <4>1. tried \in [Sessions -> Nat] /\ tried' = [tried EXCEPT ![reading] = tried[reading] + 1]
        BY <2>1 DEF PasswordInv
      <4>2. tried' = [s \in Sessions |-> IF s = reading THEN tried[reading] + 1 ELSE tried[s]]
        BY <4>1
      <4>3. \A s \in Sessions : (IF s = reading THEN tried[reading] + 1 ELSE tried[s]) \in Nat
        BY <4>1
      <4> QED
        BY <4>2, <4>3
    <3>2. /\ sessions' \in [Sessions -> {"never", "valid", "stale", "gone"}] /\ LeavingSession'
          /\ logins' \subseteq Sessions
      BY <2>1 DEF PasswordInv, LeavingSession
    <3> QED
      BY <2>2, <3>1, <3>2 DEF PasswordInv
<1>5. CASE Requests
  <2>1. CASE \E v \in Viewers : Serve(v)
    <3>1. UNCHANGED <<sessions, logins, leaving, tried>>
      BY <2>1 DEF Serve, portal
    <3>2. reader' = "submit" => UNCHANGED <<reader, reading>>
      BY <2>1 DEF Serve, renew, lane, hub
    <3> QED
      BY <3>1, <3>2, PasswordInvKept DEF PasswordInv, LeavingSession
  <2>2. CASE LogoutReleases \/ Abort
    BY <2>2, PasswordInvKept DEF LogoutReleases, Abort, PasswordInv, LeavingSession, portal, lane
  <2>3. CASE LogoutForgets
    BY <2>3, PasswordInvKept DEF LogoutForgets, PasswordInv, LeavingSession, lane
  <2> QED
    BY <1>5, <2>1, <2>2, <2>3 DEF Requests
<1>6. CASE Second \/ PanelForgets
  BY <1>6, PasswordInvKept DEF Second, PanelForgets, PasswordInv, LeavingSession, lane, portal
<1>7. ASSUME NEW s \in Sessions, login(s) PROVE PasswordInv'
  <2>1. PICK expired \in SUBSET {t \in Sessions : sessions[t] = "stale"} :
          LET kept == {t \in Sessions : sessions[t] \in {"valid", "stale"}} \ expired
              full == Cardinality(kept) >= MaxSessions
          IN  /\ sessions' = [Ended(IF full THEN kept \cup expired ELSE expired)
                                 EXCEPT ![s] = "valid"]
              /\ logins' = (IF full THEN {} ELSE logins \cap kept) \cup {s}
    BY <1>7 DEF login
  <2>2. PICK gone \in SUBSET Sessions : sessions' = [Ended(gone) EXCEPT ![s] = "valid"]
    BY <2>1
  <2>3. logins' \subseteq logins \cup {s}
    BY <2>1
  <2>4. UNCHANGED <<leaving, reader, reading, tried>> /\ sessions[s] = "never"
    BY <1>7 DEF login, lane
  <2>5. /\ sessions' \in [Sessions -> {"never", "valid", "stale", "gone"}] /\ sessions'[s] = "valid"
        /\ \A t \in Sessions : sessions'[t] = "never" => sessions[t] = "never"
    BY <2>2 DEF Ended, PasswordInv
  <2> QED
    BY <2>3, <2>4, <2>5 DEF PasswordInv, LeavingSession, TypedOnce, Sending
<1>8. ASSUME NEW s \in Sessions, Outdate(s) \/ refuse(s) \/ Logout(s) PROVE PasswordInv'
  <2>1. /\ logins' \subseteq logins /\ UNCHANGED <<reader, reading, tried>>
        /\ sessions' \in {sessions, [sessions EXCEPT ![s] = "stale"]}
        /\ leaving' \in {leaving, [session |-> s, left |-> OfSession(s)]}
    BY <1>8 DEF Outdate, refuse, Logout, lane
  <2> QED
    BY <2>1, PasswordInvKept DEF PasswordInv, LeavingSession
<1>9. ASSUME NEW v \in Viewers, NEW s \in Sessions, NEW active, session_record(v, s, active)
      PROVE  PasswordInv'
  BY <1>9, PasswordInvKept DEF session_record, PasswordInv, LeavingSession, lane, portal
<1> QED
  BY <1>1, <1>2, <1>3, <1>4, <1>5, <1>6, <1>7, <1>8, <1>9
     DEF PortalNext, ClockStep, SpeedsNext, Reader, SpeedStep, portalVars

(* A password that was typed once is sent to the panel once at most.        *)
THEOREM PasswordsAreSentOnce == PortalSpec => []PasswordIsSentOnce
<1>1. PasswordInv => PasswordIsSentOnce
  BY DEF PasswordInv, TypedOnce, PasswordIsSentOnce
<1> QED
  BY PasswordInvInit, PasswordInvNext, <1>1, PTL DEF PortalSpec
=============================================================================
