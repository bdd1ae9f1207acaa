--------------------------- MODULE JobSupervisor ---------------------------
(***************************************************************************)
(* The jobs of one run as worker processes: JobSupervisor                  *)
(* (src/jobs/supervisor.ts) with its lock (src/jobs/locks.ts), the status  *)
(* file (src/jobs/status.ts) and ProcessRunner                             *)
(* (src/runners/process-runner.ts).  A task is one call of start and the   *)
(* completion that it leaves behind.  A worker is a process group; it      *)
(* outlives the process that spawned it.                                   *)
(*                                                                         *)
(* Simplifications: a status file is one value whose first terminal status *)
(* stands (CallerWork has its two files); output, exit codes and signals   *)
(* are left out: a worker ends by itself, at its timeout or because it was *)
(* cancelled; progress after the pid is written only when it fails.        *)
(***************************************************************************)
EXTENDS Naturals

CONSTANTS
    Jobs,        \* the jobs of the run
    Work,        \* those of mode "work"; the others give advice
    Background,  \* advice that the dispatch does not wait for
    Faults       \* what may go wrong: "disk", "spawn", and the faults of JobDispatch

ASSUME JobsAssumption == Work \subseteq Jobs /\ Background \subseteq Jobs \ Work

VARIABLES
    file,     \* [Jobs -> File]: the status file
    task,     \* [Jobs -> Task]: the call of start, in the memory of its process
    worker,   \* [Jobs -> "none", "alive" or "gone"]: the process group
    past,     \* [Jobs -> Past]: what happened to the job (history)
    left      \* how many faults may still happen

supervisor == <<file, task, worker, past>>

Unfinished == {"pending", "running"}
Terminal == {"succeeded", "failed", "timed_out", "cancelled", "ambiguous"}

\* no file yet, a worker without and with its pid on record, or an outcome
File == [status : {"none", "running"} \cup Terminal, pid : BOOLEAN]

\* "refused": start threw; "rejected": storing the outcome threw
Task == [at : {"none", "writing", "ready", "pid", "running", "spoiled", "closing", "done"},
         aborted : BOOLEAN, out : {"none", "refused", "rejected"} \cup Terminal, zombie : BOOLEAN]

NoFile == [status |-> "none", pid |-> FALSE]
NoTask == [at |-> "none", aborted |-> FALSE, out |-> "none", zombie |-> FALSE]

\* how often a worker was spawned, and whether storing the outcome threw
Past == [spawns : 0..1, thrown : BOOLEAN]

SupervisorTypeOK ==
    /\ file \in [Jobs -> File]
    /\ task \in [Jobs -> Task]
    /\ worker \in [Jobs -> {"none", "alive", "gone"}]
    /\ past \in [Jobs -> Past]
    /\ left \in Nat

SupervisorInit ==
    /\ file = [j \in Jobs |-> NoFile]
    /\ task = [j \in Jobs |-> NoTask]
    /\ worker = [j \in Jobs |-> "none"]
    /\ past = [j \in Jobs |-> [spawns |-> 0, thrown |-> FALSE]]

Trouble(fault) == fault \in Faults /\ left > 0 /\ left' = left - 1

At(j, states) == task[j].at \in states
Move(j, at) == task' = [task EXCEPT ![j].at = at]
Ends(j, at, out) == task' = [task EXCEPT ![j].at = at, ![j].out = out]

\* The process of the current owner has an abort controller for the job, ...
Live(j) == ~task[j].zombie /\ ~At(j, {"none", "done"})

\* ... and the promise of its completion.
Awaitable(j) == Live(j) /\ ~At(j, {"writing", "ready"})

Finished(j) == file[j].status \in Terminal

\* JobStatusStore.write
Store(j, status, pid) == file' = [file EXCEPT ![j] = [status |-> status, pid |-> pid]]

\* A write that throws took effect or not: it fails before its rename, at the sync
\* of the directory after it or, with a terminal status, once the anchor that
\* readers prefer exists.
StoreThrows(j, status, pid) ==
    /\ Trouble("disk")
    /\ UNCHANGED file \/ (~Finished(j) /\ Store(j, status, pid))

-----------------------------------------------------------------------------

\* MUTANT of Started: the signal of the run is not handed on
StartedUnaware(j, aborted) == [task EXCEPT ![j] = [NoTask EXCEPT !.at = "writing"]]

\* start up to its first await; the signal of the run may be aborted already.
Started(j, aborted) == [task EXCEPT ![j] = [NoTask EXCEPT !.at = "writing", !.aborted = aborted]]

\* cancel and cancelAll
Cancelled(js) == [j \in Jobs |-> IF j \in js /\ Live(j) THEN [task[j] EXCEPT !.aborted = TRUE] ELSE task[j]]

\* The first status must be on disk before anything is spawned.
WriteRunning(j) ==
    /\ At(j, {"writing"})
    /\ \/ ~Finished(j) /\ Store(j, "running", FALSE) /\ Move(j, "ready") /\ UNCHANGED left
       \/ Finished(j) /\ Ends(j, "done", "refused") /\ UNCHANGED <<file, left>>
       \/ StoreThrows(j, "running", FALSE) /\ Ends(j, "done", "refused")
    /\ UNCHANGED <<worker, past>>

\* MUTANT of RunAborted: an abort before the spawn is not noticed
RunAbortedIgnored(j) == FALSE

\* When the write has returned, one turn of the event loop makes the promises and
\* lets ProcessRunner.run look at the signal and spawn.
RunAborted(j) == task[j].aborted

Run(j) ==
    /\ At(j, {"ready"})
    /\ \/ RunAborted(j) /\ Ends(j, "closing", "cancelled") /\ UNCHANGED <<worker, past, left>>
       \/ /\ ~RunAborted(j) /\ Move(j, "pid")
          /\ worker' = [worker EXCEPT ![j] = "alive"]
          /\ past' = [past EXCEPT ![j].spawns = @ + 1]
          /\ UNCHANGED left
       \/ /\ ~RunAborted(j) /\ Trouble("spawn") /\ Ends(j, "closing", "failed")
          /\ UNCHANGED <<worker, past>>
    /\ UNCHANGED file

\* onSpawn stores the pid.  A write that fails cancels the worker, and spoils
\* what it returns.
RecordPid(j) ==
    /\ At(j, {"pid"})
    /\ \/ ~Finished(j) /\ Store(j, "running", TRUE) /\ Move(j, "running") /\ UNCHANGED left
       \/ /\ Finished(j) /\ UNCHANGED <<file, left>>
          /\ task' = [task EXCEPT ![j].at = "spoiled", ![j].aborted = TRUE]
       \/ /\ StoreThrows(j, "running", TRUE)
          /\ task' = [task EXCEPT ![j].at = "spoiled", ![j].aborted = TRUE]
    /\ UNCHANGED <<worker, past>>

\* A failed write of later progress spoils the result of a worker that runs on.
ProgressFails(j) ==
    /\ At(j, {"running"}) /\ worker[j] = "alive" /\ Trouble("disk")
    /\ Move(j, "spoiled")
    /\ UNCHANGED <<file, worker, past>>

\* What run returns when the group is gone: the output pipes are closed, or were
\* given up after the group was killed.
Outcomes(j) ==
    IF task[j].aborted THEN {IF j \in Work THEN "ambiguous" ELSE "cancelled"}
    ELSE {"succeeded", "failed", "timed_out"}

\* The group ends: by itself, by SIGTERM, or by the SIGKILL that follows.
WorkerEnds(j) ==
    /\ worker[j] = "alive"
    /\ worker' = [worker EXCEPT ![j] = "gone"]
    /\ IF At(j, {"pid", "running", "spoiled"})
       THEN \E out \in Outcomes(j) : task' = [task EXCEPT ![j].out = out]
       ELSE UNCHANGED task
    /\ UNCHANGED <<file, past, left>>

Outcome(j) ==
    IF ~At(j, {"spoiled"}) THEN task[j].out
    ELSE IF j \in Work THEN "ambiguous" ELSE "failed"

\* The end of completeOnce: the terminal status, if no other is on record, and
\* then the lock and both promises are given up, stored or not.  Whoever waits for
\* a write that threw is not told whether the outcome is on disk.
Finish(j) ==
    /\ At(j, {"running", "spoiled", "closing"}) /\ worker[j] # "alive"
    /\ \/ /\ ~Finished(j) /\ Store(j, Outcome(j), file[j].pid)
          /\ Ends(j, "done", Outcome(j)) /\ UNCHANGED <<past, left>>
       \/ Finished(j) /\ Ends(j, "done", "rejected") /\ UNCHANGED <<file, past, left>>
       \/ /\ StoreThrows(j, Outcome(j), file[j].pid)
          /\ Ends(j, "done", "rejected") /\ past' = [past EXCEPT ![j].thrown = TRUE]
    /\ UNCHANGED worker

TaskStep(j) == WriteRunning(j) \/ Run(j) \/ RecordPid(j) \/ Finish(j)
=============================================================================
