------------------------------ MODULE WebTasks ------------------------------
(***************************************************************************)
(* The owner's tasks of clash_sub/web_tasks.py: the portal records a task  *)
(* and asks systemd to start a worker, the worker claims the task, carries *)
(* it out and records the result.                                          *)
(*                                                                         *)
(* Every access to the record takes a lock without waiting.  The class     *)
(* _OperationLock opens the file operation.lock of the directory whatever  *)
(* name it is given, so the lock of the tasks is the lock of every other   *)
(* operation too.                                                          *)
(*                                                                         *)
(* A task rotates a subscription link, which it may do only while the link *)
(* is the one the owner saw, or does something else under the lock.  The   *)
(* rotated link is that of a user other than the owner, whose own link is  *)
(* part of the authorization.  The kinds of the other tasks are not told   *)
(* apart.                                                                  *)
(***************************************************************************)
EXTENDS Naturals, Sequences, SequencesExt, FiniteSets

CONSTANTS
    Request,        \* request ids, one for each confirmation in the portal
    MaxRows,        \* how many records are kept
    MaxTasks,
    MaxOthers,      \* bound on other operations and deletions of the history
    MaxStops        \* bound on failures, kills and reboots together

ASSUME TasksAssumption ==
    /\ MaxRows \in Nat \ {0}
    /\ {MaxTasks, MaxOthers, MaxStops} \subseteq Nat

Task == 1..MaxTasks
Kind == {"rotate", "other"}

\* Who holds the lock: nobody, the worker of a task, or another operation.
Nobody == 0
Another == MaxTasks + 1

VARIABLES
    confirmed,  \* what was confirmed, for each task in the order of their ids
    rows,       \* web-tasks.json, the newest task first
    asked,      \* the tasks whose enqueue has yet to hear from systemctl
    worker,     \* the step of each task's worker
    holder,     \* who holds operation.lock over several steps
    owner,      \* the owner's authorization: link, password and name
    link,       \* the token a rotation replaces
    boot,       \* the boot id
    applied,    \* how often each request took effect
    unstarted,  \* the tasks that enqueue reported as not started
    stopped,    \* the tasks whose worker was killed
    forgotten,  \* did the owner delete the history?
    others, stops

counters == <<forgotten, others, stops>>
vars == <<confirmed, rows, asked, worker, holder, owner, link, boot, applied, unstarted,
          stopped, counters>>

\* The fields of a row that never change (the binding of a task that rotates
\* nothing is None in the code, 0 here) ...
Confirmation == [request : Request, kind : Kind, authorization : Nat, target_binding : Nat]

\* ... and those that do.  The age says only whether the row is past its hour.
Row == [id : Task, status : {"queued", "running", "success", "failed"},
        boot_id : 0..MaxStops, old : BOOLEAN]

WorkerSteps == {"none", "started", "claimed", "ready", "acting", "provisioning",
                "reporting", "failing", "ended"}

Carrying == WorkerSteps \ {"none", "started", "ended"}

Init ==
    /\ confirmed = <<>> /\ rows = <<>> /\ asked = {}
    /\ worker = [t \in Task |-> "none"]
    /\ holder = Nobody
    /\ owner = 0 /\ link = 0 /\ boot = 0
    /\ applied = [r \in Request |-> 0]
    /\ unstarted = {} /\ stopped = {}
    /\ forgotten = FALSE /\ others = 0 /\ stops = 0

-----------------------------------------------------------------------------
(* The record *)

Live == {"queued", "running"}

Smaller(m, n) == IF m < n THEN m ELSE n

\* Mutant of _status: a row never grows old.
_status_ageless(row) ==
    IF row.status \in Live /\ row.boot_id # boot THEN "interrupted" ELSE row.status

\* What is shown of a task: an unfinished one of an earlier boot, or one that
\* was not updated for more than an hour, counts as interrupted.
_status(row) ==
    IF row.status \in Live /\ (row.boot_id # boot \/ row.old) THEN "interrupted"
    ELSE row.status

Recorded(t) == \E i \in DOMAIN rows : rows[i].id = t

RowOf(t) == rows[CHOOSE i \in DOMAIN rows : rows[i].id = t]

\* An update writes the status and the time of a record that is still there.
update(t, status) ==
    [i \in DOMAIN rows |->
        IF rows[i].id = t THEN [rows[i] EXCEPT !.status = status, !.old = FALSE]
        ELSE rows[i]]

LockFree == holder = Nobody

TypeOK ==
    /\ confirmed \in Seq(Confirmation) /\ Len(confirmed) <= MaxTasks
    /\ rows \in Seq(Row) /\ Len(rows) <= MaxRows
    /\ \A i, j \in DOMAIN rows : rows[i].id = rows[j].id => i = j
    /\ asked \subseteq Task
    /\ worker \in [Task -> WorkerSteps]
    /\ holder \in {Nobody, Another} \cup Task
    /\ \A t \in Task : worker[t] = "acting" <=> holder = t
    /\ \A t \in Task : worker[t] \in Carrying => Recorded(t) /\ RowOf(t).status = "running"
    /\ applied \in [Request -> Nat]

Goto(t, step) == worker' = [worker EXCEPT ![t] = step]

-----------------------------------------------------------------------------
(* The portal *)

\* Mutant of LetsIn: the request id is not compared.
LetsInAgain(row, request) == _status(row) \notin Live

\* A request that is recorded is answered with its task, another one is
\* refused while a task is unfinished.
LetsIn(row, request) == confirmed[row.id].request # request /\ _status(row) \notin Live

\* The owner's authorization and the link were read before the lock was taken.
enqueue(confirmation) ==
    /\ LockFree
    /\ Len(confirmed) < MaxTasks
    /\ \A i \in DOMAIN rows : LetsIn(rows[i], confirmation.request)
    /\ confirmed' = Append(confirmed, confirmation)
    /\ LET row == [id |-> Len(confirmed'), status |-> "queued", boot_id |-> boot, old |-> FALSE]
       IN rows' = <<row>> \o SubSeq(rows, 1, Smaller(Len(rows), MaxRows - 1))
    /\ asked' = asked \cup {Len(confirmed')}
    /\ UNCHANGED <<worker, holder, owner, link, boot, applied, unstarted, stopped,
                   counters>>

\* systemd accepts to start the worker ...
StartWorker(t) ==
    /\ t \in asked /\ worker[t] = "none"
    /\ Goto(t, "started")
    /\ UNCHANGED <<confirmed, rows, asked, holder, owner, link, boot, applied,
                   unstarted, stopped, counters>>

\* ... and says so,
StartConfirmed(t) ==
    /\ t \in asked /\ worker[t] # "none"
    /\ asked' = asked \ {t}
    /\ UNCHANGED <<confirmed, rows, worker, holder, owner, link, boot, applied,
                   unstarted, stopped, counters>>

OnlyQueued(t) == Recorded(t) /\ RowOf(t).status = "queued"

\* or it fails, or does not answer within five seconds: the task is failed
\* unless its worker has claimed it.  The worker may be on its way.
StartFails(t) ==
    /\ t \in asked
    /\ stops < MaxStops /\ stops' = stops + 1
    /\ asked' = asked \ {t}
    /\ worker[t] = "none" => \/ Goto(t, "ended")
                             \/ Goto(t, "started")
    /\ worker[t] # "none" => UNCHANGED worker
    /\ IF LockFree
       THEN /\ rows' = IF OnlyQueued(t) THEN update(t, "failed") ELSE rows
            /\ unstarted' = IF rows' # rows THEN unstarted \cup {t} ELSE unstarted
       ELSE UNCHANGED <<rows, unstarted>>
    /\ UNCHANGED <<confirmed, holder, owner, link, boot, applied, stopped, forgotten,
                   others>>

\* Unfinished records are kept, whatever they are shown as.
delete_history ==
    /\ LockFree
    /\ others < MaxOthers /\ others' = others + 1
    /\ forgotten' = TRUE
    /\ rows' = SelectSeq(rows, LAMBDA row : row.status \in Live)
    /\ UNCHANGED <<confirmed, asked, worker, holder, owner, link, boot, applied,
                   unstarted, stopped, stops>>

-----------------------------------------------------------------------------
(* The worker *)

WorkerStep(t, step) == worker[t] = step

Still == UNCHANGED <<confirmed, asked, owner, boot, unstarted, stopped, counters>>

\* The claim is the first access to the record; a worker that finds the lock
\* taken, or the task no longer queued, ends.
Claim(t) ==
    /\ WorkerStep(t, "started")
    /\ IF LockFree /\ Recorded(t) /\ _status(RowOf(t)) = "queued"
       THEN rows' = update(t, "running") /\ Goto(t, "claimed")
       ELSE UNCHANGED rows /\ Goto(t, "ended")
    /\ UNCHANGED <<holder, link, applied>> /\ Still

check_authorization(t) ==
    /\ confirmed[t].authorization = owner
    /\ confirmed[t].kind = "rotate" => confirmed[t].target_binding = link

\* A first check without the lock, then the note of what is being done.
Announce(t) ==
    /\ WorkerStep(t, "claimed")
    /\ IF check_authorization(t) /\ LockFree
       THEN rows' = update(t, "running") /\ Goto(t, "ready")
       ELSE UNCHANGED rows /\ Goto(t, "failing")
    /\ UNCHANGED <<holder, link, applied>> /\ Still

\* Mutant of Acquire: nothing is checked under the lock, as with a plain lock.
AcquireUnchecked(t) ==
    /\ WorkerStep(t, "ready")
    /\ IF LockFree
       THEN holder' = t /\ Goto(t, "acting")
       ELSE UNCHANGED holder /\ Goto(t, "failing")
    /\ UNCHANGED <<rows, link, applied>> /\ Still

\* The operation takes its lock and checks again inside.
Acquire(t) ==
    /\ WorkerStep(t, "ready")
    /\ IF LockFree /\ check_authorization(t)
       THEN holder' = t /\ Goto(t, "acting")
       ELSE UNCHANGED holder /\ Goto(t, "failing")
    /\ UNCHANGED <<rows, link, applied>> /\ Still

TakesEffect(t) ==
    /\ applied' = [applied EXCEPT ![confirmed[t].request] = @ + 1]
    /\ link' = IF confirmed[t].kind = "rotate" THEN link + 1 ELSE link

NoEffect == UNCHANGED <<applied, link>>

ActingEnds(t) ==
    /\ WorkerStep(t, "acting")
    /\ holder' = Nobody
    /\ UNCHANGED <<confirmed, rows, asked, owner, boot, unstarted, stopped, forgotten,
                   others>>

\* The operation frees the lock when it has taken effect, or fails without
\* one; a sync may publish some users and fail for others.
Act(t) ==
    /\ ActingEnds(t)
    /\ \/ TakesEffect(t) /\ Goto(t, "provisioning") /\ UNCHANGED stops
       \/ /\ stops < MaxStops /\ stops' = stops + 1
          /\ Goto(t, "failing")
          /\ NoEffect \/ (confirmed[t].kind = "other" /\ TakesEffect(t))

\* The pages are bound to the links of now, under the lock again.
Provision(t) ==
    /\ WorkerStep(t, "provisioning")
    /\ Goto(t, IF LockFree THEN "reporting" ELSE "failing")
    /\ UNCHANGED <<rows, holder, link, applied>> /\ Still

Report(t) ==
    /\ WorkerStep(t, "reporting")
    /\ IF LockFree
       THEN rows' = update(t, "success") /\ Goto(t, "ended")
       ELSE UNCHANGED rows /\ Goto(t, "failing")
    /\ UNCHANGED <<holder, link, applied>> /\ Still

\* A worker that cannot record its failure leaves the task running.
ReportFailure(t) ==
    /\ WorkerStep(t, "failing")
    /\ rows' = IF LockFree THEN update(t, "failed") ELSE rows
    /\ Goto(t, "ended")
    /\ UNCHANGED <<holder, link, applied>> /\ Still

-----------------------------------------------------------------------------
(* The rest of the server *)

\* Another operation from a terminal or the daily timer holds the lock; it may
\* change the owner's authorization or rotate the link.
OtherBegins ==
    /\ LockFree
    /\ others < MaxOthers /\ others' = others + 1
    /\ holder' = Another
    /\ UNCHANGED <<confirmed, rows, asked, worker, owner, link, boot, applied,
                   unstarted, stopped, stops, forgotten>>

OtherEnds ==
    /\ holder = Another
    /\ holder' = Nobody
    /\ \/ UNCHANGED <<owner, link>>
       \/ owner' = owner + 1 /\ UNCHANGED link
       \/ link' = link + 1 /\ UNCHANGED owner
    /\ UNCHANGED <<confirmed, rows, asked, worker, boot, applied, unstarted, stopped,
                   forgotten, others, stops>>

\* systemd kills a worker after an hour, or the administrator does.
KillWorker(t) ==
    /\ worker[t] \notin {"none", "ended"}
    /\ stops < MaxStops /\ stops' = stops + 1
    /\ Goto(t, "ended")
    /\ holder' = IF holder = t THEN Nobody ELSE holder
    /\ stopped' = stopped \cup {t}
    /\ UNCHANGED <<confirmed, rows, asked, owner, link, boot, applied, unstarted,
                   others, forgotten>>

\* The portal's process dies before it asks systemctl.
PortalStops(t) ==
    /\ t \in asked
    /\ stops < MaxStops /\ stops' = stops + 1
    /\ asked' = asked \ {t}
    /\ stopped' = stopped \cup {t}
    /\ UNCHANGED <<confirmed, rows, worker, holder, owner, link, boot, applied,
                   unstarted, others, forgotten>>

Reboot ==
    /\ stops < MaxStops /\ stops' = stops + 1
    /\ boot' = boot + 1
    /\ asked' = {}
    /\ worker' = [t \in Task |-> IF worker[t] = "none" THEN "none" ELSE "ended"]
    /\ holder' = Nobody
    /\ UNCHANGED <<confirmed, rows, owner, link, applied, unstarted, stopped, others,
                   forgotten>>

\* More than an hour has passed since the row was written.  By then systemctl
\* has answered, and systemd has killed a worker that was still at work.
Age(t) ==
    /\ Recorded(t) /\ RowOf(t).status \in Live /\ ~RowOf(t).old
    /\ t \notin asked /\ worker[t] \in {"none", "ended"}
    /\ rows' = [i \in DOMAIN rows |->
                  IF rows[i].id = t THEN [rows[i] EXCEPT !.old = TRUE] ELSE rows[i]]
    /\ UNCHANGED <<confirmed, asked, worker, holder, owner, link, boot, applied,
                   unstarted, stopped, counters>>

-----------------------------------------------------------------------------
Work(t) ==
    \/ Claim(t) \/ Announce(t) \/ Acquire(t) \/ Act(t) \/ Provision(t)
    \/ Report(t) \/ ReportFailure(t)

Portal(t) == StartWorker(t) \/ StartConfirmed(t) \/ StartFails(t) \/ PortalStops(t)

Next ==
    \/ \E request \in Request, kind \in Kind, seen \in 0..owner :
          \E shown \in IF kind = "rotate" THEN 0..link ELSE {0} :
              enqueue([request |-> request, kind |-> kind, authorization |-> seen,
                       target_binding |-> shown])
    \/ \E t \in Task : Portal(t) \/ Work(t) \/ KillWorker(t) \/ Age(t)
    \/ delete_history \/ OtherBegins \/ OtherEnds \/ Reboot

Spec == Init /\ [][Next]_vars

\* A started process runs on, systemctl answers within five seconds, other
\* operations end, and time passes.
Fairness ==
    /\ \A t \in Task : WF_vars(Work(t)) /\ WF_vars(Portal(t)) /\ WF_vars(Age(t))
    /\ WF_vars(OtherEnds)

FairSpec == Spec /\ Fairness

-----------------------------------------------------------------------------
(* Correctness *)

\* Two tasks are never carried out at the same time, also when the start of
\* one was reported as failed or it was shown as interrupted (enqueue, run).
OneTaskAtATime ==
    \A t, u \in Task :
        worker[t] \in Carrying /\ worker[u] \in Carrying => t = u

\* A confirmation in the portal takes effect once at most, however often the
\* request is sent again, also after a failed start, a kill or a reboot (the
\* request id in enqueue).  The ids are remembered by the records alone: this
\* ends when the owner deletes the history.
AppliedOnce == ~forgotten => \A r \in Request : applied[r] <= 1

\* A task that enqueue reported as not started never takes effect later.
UnstartedNeverRuns == \A t \in unstarted : worker[t] \notin Carrying

\* A task takes effect only while the owner who confirmed it is still the
\* owner, and a rotation only on the link that was shown (guarded_lock).
OnlyAuthorizedEffects ==
    [][\A t \in Task : worker[t] = "acting" /\ applied' # applied => check_authorization(t)]_vars

\* A recorded success is the success of an operation that took effect.
SuccessIsTrue ==
    \A i \in DOMAIN rows : rows[i].status = "success" => applied[confirmed[rows[i].id].request] > 0

\* A task is shown as interrupted only after a restart of the server or the
\* end of its worker or of the portal before they were done.
InterruptedIsTrue ==
    \A i \in DOMAIN rows :
        _status(rows[i]) = "interrupted" =>
            rows[i].boot_id # boot \/ rows[i].id \in stopped

Unfinished(t) == Recorded(t) /\ _status(RowOf(t)) \in Live

\* No task stays unfinished for ever and keeps others from being accepted.
TasksAreResolved == \A t \in Task : Unfinished(t) ~> ~Unfinished(t)

=============================================================================
