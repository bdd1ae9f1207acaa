---------------------------- MODULE JobDispatch ----------------------------
(***************************************************************************)
(* How a run with a process executor carries out the commands of its       *)
(* controller: executeAcceptedCommand                                      *)
(* (src/core/controller-command-execution.ts), the watcher of cancellation *)
(* requests (src/state/cancellation.ts), how the loop stops                *)
(* (handleControllerFailure in src/core/controller-loop.ts), and what the  *)
(* next calls make of jobs that an owner left behind                       *)
(* (src/api-runtime-lifecycle.ts).                                         *)
(*                                                                         *)
(* One process at a time holds the lease (RuntimeLease).  It may crash, or *)
(* be suspended and taken over; then its log entries are refused, but its  *)
(* tasks go on as zombies until its heartbeat fails.                       *)
(*                                                                         *)
(* Simplifications: which command comes next, ControllerLoop, is a choice; *)
(* a command is accepted and begun in one step; blocked is like complete;  *)
(* the statuses that reconciliation starts from are read in one step;      *)
(* owners that are alive refuse every call here, so that is a guard.       *)
(***************************************************************************)
EXTENDS JobSupervisor, FiniteSets, SequencesExt

CONSTANTS
    LaneOf,          \* [Jobs -> lanes]
    LaneLimit,       \* laneConcurrency, the same for every lane
    MaxConcurrency,  \* how many advice jobs may run at once
    Commands,        \* the commands: [action, jobs]
    MaxCommands      \* the round limit

ASSUME LimitsAssumption == LaneLimit \in Nat \ {0} /\ MaxConcurrency \in Nat \ {0} /\ MaxCommands \in Nat

ASSUME CommandsAssumption ==
    /\ IsFiniteSet(Jobs)
    /\ Commands \subseteq [action : {"dispatch", "wait", "inspect", "complete"}, jobs : Seq(Jobs)]

VARIABLES
    log,       \* the run: its jobs, its status, the command in progress, how many were accepted
    requests,  \* the cancellation files
    ctl,       \* the control of the lease holder
    missed     \* jobs ended in the log while a worker could run unrecorded (history)

dispatchVars == <<log, requests, ctl, missed>>
jobVars == <<supervisor, left, dispatchVars>>

None == "none"
NoCommand == [action |-> "none", jobs |-> <<>>]

Down == [pc |-> "down", queue |-> <<>>, limit |-> 0, cur |-> None, todo |-> {}, sig |-> "none", seen |-> {},
         active |-> [j \in Jobs |-> "no"], snap |-> [j \in Jobs |-> NoFile]]

Controlling == {"loop", "dispatch", "start", "wait", "inspect", "complete", "executed", "settle"}
Recovering == {"reconcile", "cancelRun", "cancelJob"}

Log == [jobs : [Jobs -> {"none"} \cup Unfinished \cup Terminal],
        run : {"running", "failed", "cancelled", "complete"},
        command : Commands \cup {NoCommand}, used : 0..MaxCommands]

Control == [pc : {"down"} \cup Controlling \cup Recovering, queue : Seq(Jobs), limit : 0..MaxConcurrency,
            cur : Jobs \cup {None}, todo : SUBSET Jobs, sig : {"none", "cancelled", "failed"},
            seen : SUBSET Jobs, active : [Jobs -> {"no", "start", "await", "file"}], snap : [Jobs -> File]]

JobsTypeOK ==
    /\ SupervisorTypeOK
    /\ log \in Log
    /\ requests \in [run : BOOLEAN, jobs : SUBSET Jobs]
    /\ ctl \in Control
    /\ missed \subseteq Jobs

JobsInit ==
    /\ SupervisorInit
    /\ log = [jobs |-> [j \in Jobs |-> "none"], run |-> "running", command |-> NoCommand, used |-> 0]
    /\ requests = [run |-> FALSE, jobs |-> {}]
    /\ ctl = Down
    /\ missed = {}

Unsettled == {j \in Jobs : log.jobs[j] \in Unfinished}
Over == log.run \in {"cancelled", "complete"}
Controller == ctl.pc \in Controlling
Goto(pc) == ctl' = [ctl EXCEPT !.pc = pc]

\* append job_status: a terminal status of the log stands.
Observe(j, status) ==
    log' = IF log.jobs[j] \in Terminal THEN log ELSE [log EXCEPT !.jobs[j] = status]

-----------------------------------------------------------------------------
(* Dispatching                                                             *)

ActiveJobs == {j \in Jobs : ctl.active[j] # "no"}

\* waitForCompletion: the promise, or what is on disk when there is none.
Waiting(j) == IF Awaitable(j) THEN "await" ELSE "file"

\* The running jobs of the log, each with the promise that is waited for.
RunningNow == [j \in Jobs |-> IF log.jobs[j] = "running" THEN Waiting(j) ELSE "no"]

\* Work runs alone, whether it is new or still running.
GlobalLimit(jobs) ==
    IF (Range(jobs) \cup {j \in Jobs : log.jobs[j] = "running"}) \cap Work # {} THEN 1 ELSE MaxConcurrency

\* The first step of executeCommand, on a control that was idle.
Begun(c, sig) ==
    LET base == [Down EXCEPT !.pc = c.action, !.sig = sig, !.seen = ctl.seen]
    IN CASE c.action = "dispatch" ->
                [base EXCEPT !.queue = c.jobs, !.active = RunningNow, !.limit = GlobalLimit(c.jobs)]
         [] c.action = "wait" -> [base EXCEPT !.active = RunningNow]
         [] c.action = "inspect" -> [base EXCEPT !.todo = {j \in Jobs : log.jobs[j] # "none"}]
         [] OTHER -> base

\* A wait or an inspect may name the jobs that the log knows, here all of them.
Accept ==
    /\ ctl.pc = "loop" /\ ctl.sig = "none" /\ log.used < MaxCommands
    /\ \E c \in Commands :
        /\ log' = [log EXCEPT !.command = c, !.used = @ + 1]
        /\ ctl' = Begun(c, "none")
    /\ UNCHANGED <<supervisor, left, requests, missed>>

LaneActive(lane) == {j \in ActiveJobs : LaneOf[j] = lane}

\* The queued jobs that the limits admit now.
Startable ==
    {i \in DOMAIN ctl.queue : /\ Cardinality(ActiveJobs) < ctl.limit
                              /\ Cardinality(LaneActive(LaneOf[ctl.queue[i]])) < LaneLimit}

\* What a failure of the loop does first: every task of a run that is cancelled,
\* or has jobs in progress, is aborted.
Failing(sig) ==
    /\ task' = IF Unsettled = {} /\ sig # "cancelled" THEN task ELSE Cancelled(Jobs)
    /\ ctl' = [Down EXCEPT !.pc = "settle", !.todo = Unsettled, !.sig = sig, !.seen = ctl.seen]

\* MUTANT of Registered: a job of the log is dispatched again
RegisteredAgain(j) == FALSE

\* A pending job is registered too, but a command that is resumed starts it.
Registered(j) == log.jobs[j] \notin {"none", "pending"}

\* registerDispatchedJob for the first queued job that may start.
StartNext ==
    /\ ctl.pc = "dispatch" /\ Startable # {}
    /\ LET i == CHOOSE k \in Startable : \A m \in Startable : k <= m
           j == ctl.queue[i]
           rest == [ctl EXCEPT !.queue = RemoveAt(@, i)]
       IN IF ctl.sig # "none" THEN Failing(ctl.sig) /\ UNCHANGED log
          ELSE IF Registered(j) THEN ctl' = rest /\ UNCHANGED <<log, task>>
          ELSE /\ log' = [log EXCEPT !.jobs[j] = "pending"]
               /\ ctl' = [rest EXCEPT !.pc = "start", !.cur = j]
               /\ UNCHANGED task
    /\ UNCHANGED <<file, worker, past, left, requests, missed>>

\* The job is running in the log before the supervisor is called.  A runner that
\* cannot be resolved makes it fail at once.
MarkRunning ==
    /\ ctl.pc = "start"
    /\ \/ /\ Observe(ctl.cur, "running")
          /\ task' = Started(ctl.cur, ctl.sig # "none")
          /\ ctl' = [ctl EXCEPT !.pc = "dispatch", !.cur = None, !.active[ctl.cur] = "start"]
          /\ UNCHANGED left
       \/ /\ Trouble("runner") /\ Observe(ctl.cur, "failed")
          /\ ctl' = [ctl EXCEPT !.pc = "dispatch", !.cur = None]
          /\ UNCHANGED task
    /\ UNCHANGED <<file, worker, past, requests, missed>>

\* The promise of an active job is settled, ...
Settled(j) ==
    CASE ctl.active[j] = "start" -> At(j, {"done"}) \/ (j \in Background /\ ~At(j, {"writing", "ready"}))
      [] ctl.active[j] = "await" -> At(j, {"done"})
      [] OTHER -> TRUE

\* ... without a status ...
Rejected(j) ==
    \/ ctl.active[j] = "start" /\ task[j].out = "refused"
    \/ ctl.active[j] = "start" /\ j \notin Background /\ task[j].out = "rejected"
    \/ ctl.active[j] = "await" /\ task[j].out = "rejected"
    \/ ctl.active[j] = "file" /\ file[j] = NoFile

\* ... or with one: background advice is running as soon as it was started.
StatusOf(j) ==
    IF Rejected(j) THEN "failed"
    ELSE CASE ctl.active[j] = "start" /\ j \in Background -> "running"
           [] ctl.active[j] = "file" -> file[j].status
           [] OTHER -> task[j].out

\* Background advice that only held its place while jobs were queued
Handed == {j \in ActiveJobs \cap Background : ctl.active[j] # "start"}

Release ==
    /\ ctl.pc = "dispatch" /\ ctl.queue = <<>> /\ Handed # {}
    /\ ctl' = [ctl EXCEPT !.active = [j \in Jobs |-> IF j \in Handed THEN "no" ELSE @[j]]]
    /\ UNCHANGED <<supervisor, left, log, requests, missed>>

\* MUTANT of HoldsPlace: background advice leaves its place when it was started
HoldsPlaceNever(j) == FALSE

\* Background advice keeps its place in the limits while jobs are queued.
HoldsPlace(j) ==
    j \in Background /\ ctl.active[j] = "start" /\ StatusOf(j) = "running" /\ ctl.queue # <<>>

\* Promise.race: one settled job is put on record.
Race(j) ==
    /\ ctl.pc = "dispatch" /\ Startable = {} /\ (ctl.queue = <<>> => Handed = {})
    /\ j \in ActiveJobs /\ Settled(j)
    /\ Observe(j, StatusOf(j))
    /\ ctl' = [ctl EXCEPT !.active[j] = IF HoldsPlace(j) THEN Waiting(j) ELSE "no"]
    /\ UNCHANGED <<supervisor, left, requests, missed>>

Dispatched ==
    /\ ctl.pc = "dispatch" /\ ctl.queue = <<>> /\ ActiveJobs = {}
    /\ IF ctl.sig # "none" THEN Failing(ctl.sig) ELSE Goto("executed") /\ UNCHANGED task
    /\ UNCHANGED <<file, worker, past, left, log, requests, missed>>

-----------------------------------------------------------------------------
(* The other commands                                                      *)

\* updateRunningJobs: all the promises first, then the appends; the first one
\* that is rejected ends it.
Collect(j) ==
    /\ ctl.pc = "wait" /\ j \in ActiveJobs /\ Settled(j)
    /\ \/ Rejected(j) /\ Failing(ctl.sig) /\ UNCHANGED log
       \/ /\ \A k \in ActiveJobs : Settled(k) /\ ~Rejected(k)
          /\ Observe(j, StatusOf(j)) /\ ctl' = [ctl EXCEPT !.active[j] = "no"] /\ UNCHANGED task
    /\ UNCHANGED <<file, worker, past, left, requests, missed>>

\* A job without a status file is a notice.
Inspect(j) ==
    /\ ctl.pc = "inspect" /\ j \in ctl.todo
    /\ IF file[j] = NoFile THEN UNCHANGED log ELSE Observe(j, file[j].status)
    /\ ctl' = [ctl EXCEPT !.todo = @ \ {j}]
    /\ UNCHANGED <<supervisor, left, requests, missed>>

MayComplete == Unsettled = {}

\* complete and blocked are refused while a job is unfinished; else the run is
\* over and the lease is released.
Complete ==
    /\ ctl.pc = "complete"
    /\ IF MayComplete THEN log' = [log EXCEPT !.run = "complete", !.command = NoCommand] /\ ctl' = Down
       ELSE Goto("executed") /\ UNCHANGED log
    /\ UNCHANGED <<supervisor, left, requests, missed>>

Executed ==
    /\ \/ ctl.pc = "executed"
       \/ ctl.pc = "wait" /\ ActiveJobs = {}
       \/ ctl.pc = "inspect" /\ ctl.todo = {}
    /\ log' = [log EXCEPT !.command = NoCommand]
    /\ Goto("loop")
    /\ UNCHANGED <<supervisor, left, requests, missed>>

-----------------------------------------------------------------------------
(* Cancellation and failure of the owner                                   *)

RequestRun ==
    /\ ~Over /\ ~requests.run
    /\ requests' = [requests EXCEPT !.run = TRUE]
    /\ UNCHANGED <<supervisor, left, log, ctl, missed>>

RequestJob(j) ==
    /\ ~Over /\ j \in Unsettled \ requests.jobs
    /\ requests' = [requests EXCEPT !.jobs = @ \cup {j}]
    /\ UNCHANGED <<supervisor, left, log, ctl, missed>>

\* CancellationWatcher.poll finds the run's request and aborts the signal of the
\* run, or the run's timeout does; every task hears it.
Abort ==
    /\ Controller /\ ctl.sig = "none"
    /\ \/ requests.run /\ ctl' = [ctl EXCEPT !.sig = "cancelled"] /\ UNCHANGED left
       \/ Trouble("timeout") /\ ctl' = [ctl EXCEPT !.sig = "failed"]
    /\ task' = Cancelled(Jobs)
    /\ UNCHANGED <<file, worker, past, log, requests, missed>>

\* A request for a job counts as seen once the job was cancelled or has ended.
SeeJobRequest(j) ==
    /\ Controller /\ j \in requests.jobs \ ctl.seen
    /\ (Live(j) /\ ~task[j].aborted) \/ Finished(j)
    /\ task' = Cancelled({j})
    /\ ctl' = [ctl EXCEPT !.seen = @ \cup {j}]
    /\ UNCHANGED <<file, worker, past, left, log, requests, missed>>

\* The loop ends at its limit, at the abort, or because of the controller.
LoopFails ==
    /\ ctl.pc = "loop"
    /\ \/ (ctl.sig # "none" \/ log.used = MaxCommands) /\ UNCHANGED left
       \/ ctl.sig = "none" /\ Trouble("controller")
    /\ Failing(ctl.sig)
    /\ UNCHANGED <<file, worker, past, log, requests, missed>>

\* MUTANT of SettledStatus: a job that was told to stop is taken to be cancelled
SettledStatusAssumed(j) == IF Finished(j) THEN file[j].status ELSE "cancelled"

\* What settleCancelledJobs makes of a job: ambiguous when the promise it awaited
\* was rejected, or when nothing terminal is on disk.
SettledStatus(j) ==
    IF (ctl.cur = j /\ task[j].out = "rejected") \/ ~Finished(j) THEN "ambiguous" ELSE file[j].status

\* settleCancelledJobs: one job at a time; its promise is awaited while there is one.
Settle(j) ==
    /\ ctl.pc = "settle" /\ j \in ctl.todo
    /\ \/ /\ ctl.cur = None /\ Awaitable(j)
          /\ ctl' = [ctl EXCEPT !.cur = j] /\ UNCHANGED log
       \/ /\ ctl.cur \in {None, j} /\ ~Awaitable(j)
          /\ Observe(j, SettledStatus(j))
          /\ ctl' = [ctl EXCEPT !.cur = None, !.todo = @ \ {j}]
    /\ UNCHANGED <<supervisor, left, requests, missed>>

\* The run ends and the lease is released; what is left in memory goes on.
Stop ==
    /\ ctl.pc = "settle" /\ ctl.todo = {}
    /\ log' = IF ctl.sig = "cancelled" THEN [log EXCEPT !.run = "cancelled", !.command = NoCommand]
              ELSE [log EXCEPT !.run = "failed"]
    /\ ctl' = Down
    /\ UNCHANGED <<supervisor, left, requests, missed>>

Owned == {j \in Jobs : ~task[j].zombie}

Crash ==
    /\ ctl.pc # "down" /\ Trouble("crash")
    /\ ctl' = Down
    /\ task' = [j \in Jobs |-> IF j \in Owned THEN NoTask ELSE task[j]]
    /\ UNCHANGED <<file, worker, past, log, requests, missed>>

\* The owner is suspended and its stale lease taken over.
Takeover ==
    /\ Controller /\ Trouble("takeover")
    /\ ctl' = Down
    /\ task' = [j \in Jobs |-> IF task[j].zombie \/ Live(j) THEN [task[j] EXCEPT !.zombie = TRUE] ELSE NoTask]
    /\ UNCHANGED <<file, worker, past, log, requests, missed>>

\* Its heartbeat or an append fails: it aborts what it started.
ZombieStops ==
    /\ \E j \in Jobs : task[j].zombie /\ ~task[j].aborted
    /\ task' = [j \in Jobs |-> IF task[j].zombie THEN [task[j] EXCEPT !.aborted = TRUE] ELSE task[j]]
    /\ UNCHANGED <<file, worker, past, left, dispatchVars>>

-----------------------------------------------------------------------------
(* The calls that find no owner                                            *)

\* continueCueLineRun: jobs without an owner are reconciled first, and a run that
\* was left running too, unless nothing was accepted yet.
Continue ==
    /\ ctl.pc = "down" /\ ~requests.run /\ Unsettled = {}
    /\ log.run = "failed" \/ (log.run = "running" /\ log.used = 0)
    /\ log' = [log EXCEPT !.run = "running"]
    /\ ctl' = IF log.command = NoCommand THEN [Down EXCEPT !.pc = "loop"] ELSE Begun(log.command, "none")
    /\ UNCHANGED <<supervisor, left, requests, missed>>

\* The status file f cannot tell what became of the worker: its pid is not on
\* record, or its owner was taken over and goes on.
Untold(j, f) == (worker[j] = "alive" /\ ~f.pid) \/ task[j].zombie

\* processOrGroupIsAlive of the pid on record
SeenAlive(j, f) == f.pid /\ worker[j] = "alive"

Reconcile ==
    /\ ctl.pc = "down" /\ ~Over /\ (log.run = "running" \/ Unsettled # {})
    /\ ctl' = [Down EXCEPT !.pc = "reconcile", !.todo = Unsettled, !.snap = file]
    /\ UNCHANGED <<supervisor, left, log, requests, missed>>

\* MUTANT of Survives: the status file decides alone
SurvivesNever(j) == FALSE

Survives(j) == SeenAlive(j, ctl.snap[j])

\* One job: left alone, imported, or declared lost.
ReconcileJob(j) ==
    /\ ctl.pc = "reconcile" /\ j \in ctl.todo /\ ~Survives(j)
    /\ ctl' = [ctl EXCEPT !.todo = @ \ {j}]
    /\ IF ctl.snap[j].status \in Terminal THEN Observe(j, ctl.snap[j].status) /\ UNCHANGED missed
       ELSE /\ Observe(j, IF j \in Work THEN "ambiguous" ELSE "failed")
            /\ missed' = IF Untold(j, ctl.snap[j]) THEN missed \cup {j} ELSE missed
    /\ UNCHANGED <<supervisor, left, requests>>

\* Survivors keep the run as it is; else it has failed.
Reconciled ==
    /\ ctl.pc = "reconcile" /\ \A j \in ctl.todo : Survives(j)
    /\ log' = IF ctl.todo = {} THEN [log EXCEPT !.run = "failed"] ELSE log
    /\ ctl' = Down
    /\ UNCHANGED <<supervisor, left, requests, missed>>

\* cancelCueLineRun and cancelCueLineJob refuse while a recorded worker lives.
CancelWithoutOwner ==
    /\ ctl.pc = "down" /\ ~Over
    /\ \/ /\ requests.run /\ \A j \in Unsettled : ~SeenAlive(j, file[j])
          /\ ctl' = [Down EXCEPT !.pc = "cancelRun", !.todo = Unsettled]
       \/ \E j \in requests.jobs \cap Unsettled :
            /\ ~SeenAlive(j, file[j])
            /\ ctl' = [Down EXCEPT !.pc = "cancelJob", !.todo = {j}]
    /\ UNCHANGED <<supervisor, left, log, requests, missed>>

\* Terminal evidence is imported; without any, it is written and then imported.
CancelJob(j) ==
    /\ ctl.pc \in {"cancelRun", "cancelJob"} /\ j \in ctl.todo
    /\ IF Finished(j)
       THEN /\ Observe(j, file[j].status) /\ ctl' = [ctl EXCEPT !.todo = @ \ {j}]
            /\ UNCHANGED <<file, missed>>
       ELSE /\ Store(j, "ambiguous", file[j].pid) /\ ctl' = [ctl EXCEPT !.cur = j]
            /\ missed' = IF Untold(j, file[j]) THEN missed \cup {j} ELSE missed
            /\ UNCHANGED log
    /\ UNCHANGED <<task, worker, past, left, requests>>

\* A job that had to be declared ambiguous fails its run.
CancelDone ==
    /\ ctl.pc \in {"cancelRun", "cancelJob"} /\ ctl.todo = {}
    /\ log' = IF ctl.pc = "cancelRun" THEN [log EXCEPT !.run = "cancelled", !.command = NoCommand]
              ELSE IF ctl.cur # None /\ log.run = "running" THEN [log EXCEPT !.run = "failed"]
              ELSE log
    /\ ctl' = Down
    /\ UNCHANGED <<supervisor, left, requests, missed>>

\* repairOwnerlessTerminalStatus: the file learns what the log has decided.
Repair(j) ==
    /\ Over \/ log.jobs[j] \in Terminal
    /\ log.jobs[j] \in {"cancelled", "ambiguous"} /\ ~Finished(j)
    /\ Store(j, log.jobs[j], file[j].pid)
    /\ UNCHANGED <<task, worker, past, left, dispatchVars>>

-----------------------------------------------------------------------------

ControlStep ==
    \/ Accept \/ StartNext \/ MarkRunning \/ Release \/ Dispatched \/ Complete \/ Executed \/ LoopFails \/ Stop
    \/ \E j \in Jobs : Race(j) \/ Collect(j) \/ Inspect(j) \/ Settle(j)

Supervise(j) == (TaskStep(j) \/ WorkerEnds(j)) /\ UNCHANGED dispatchVars

JobsNext ==
    \/ ControlStep
    \/ \E j \in Jobs : Supervise(j)
    \/ \E j \in Jobs : ProgressFails(j) /\ UNCHANGED dispatchVars
    \/ RequestRun \/ Abort \/ Crash \/ Takeover \/ ZombieStops
    \/ Continue \/ Reconcile \/ Reconciled \/ CancelWithoutOwner \/ CancelDone
    \/ \E j \in Jobs : RequestJob(j) \/ SeeJobRequest(j) \/ ReconcileJob(j) \/ CancelJob(j) \/ Repair(j)

JobsSpec == JobsInit /\ left \in Nat /\ [][JobsNext]_jobVars

\* The process takes its steps and its timers fire.  A worker need not end by
\* itself; one that was cancelled is killed.
JobsFairness ==
    /\ WF_jobVars(ControlStep) /\ WF_jobVars(Abort)
    /\ \A j \in Jobs : WF_jobVars(TaskStep(j) /\ UNCHANGED dispatchVars)
    /\ \A j \in Jobs : WF_jobVars(task[j].aborted /\ WorkerEnds(j) /\ UNCHANGED dispatchVars)

-----------------------------------------------------------------------------
(* Properties                                                              *)

\* The limits hold between the dispatches of a run: a work job runs alone, and
\* neither the global nor a lane's limit is exceeded, not even by advice that an
\* earlier command left in the background (executeProcessDispatch), except for
\* workers whose pid was not on record when their owner was lost.
WithinLimits ==
    LET running == {j \in Jobs \ missed : worker[j] = "alive"}
    IN /\ running \cap Work # {} => Cardinality(running) = 1
       /\ Cardinality(running) <= MaxConcurrency
       /\ \A j \in running : Cardinality({k \in running : LaneOf[k] = LaneOf[j]}) <= LaneLimit

\* What the log says of an ended job is true, whoever decided it: the dispatch,
\* settleCancelledJobs, reconciliation or a cancellation without an owner.  Its
\* worker is gone; and an outcome in the log that is not "ambiguous" is the one on
\* disk, but for a failure that the log had to invent: nothing terminal is on disk,
\* or storing the outcome threw, and the disk holds what startDispatchedJob was not
\* told (JobStatusStore.write).  Jobs given up while a worker could run unrecorded
\* (missed) are excepted.
LogTellsTheTruth ==
    \A j \in Jobs \ missed :
        log.jobs[j] \in Terminal =>
            /\ worker[j] # "alive"
            /\ \/ log.jobs[j] \in {"ambiguous", file[j].status}
               \/ log.jobs[j] = "failed" /\ (past[j].thrown \/ ~Finished(j))

\* An owner that gives up its lease by itself leaves neither a worker nor an
\* unfinished job behind (handleControllerFailure, the guard of complete).
QuietAfterRelease ==
    ctl.pc = "down" =>
        \A j \in Jobs : task[j].at # "none" /\ ~task[j].zombie =>
            worker[j] # "alive" /\ log.jobs[j] \in Terminal

\* A run that was asked to stop while it has an owner stops, even if no worker
\* ever ends by itself: the abort of the watcher reaches every task, also those
\* that start later or that earlier commands left in the background, and every
\* wait of the owner ends (watchOwnedCancellation, settleCancelledJobs).
CancelSettles == (requests.run /\ Controller) ~> ~Controller
=============================================================================
