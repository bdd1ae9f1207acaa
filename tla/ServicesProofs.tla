--------------------------- MODULE ServicesProofs ---------------------------
(***************************************************************************)
(* Proofs about the jobs of a run (JobDispatch) and about the Claude       *)
(* Desktop lane (HostLane), for every set of jobs, lanes, limits,          *)
(* commands, daemons, hosts and requests, and that MCServices, which       *)
(* checks them together, keeps them apart.                                 *)
(*                                                                         *)
(* The inductive invariant JobsInv says, of each job, what shape its task, *)
(* worker and files have (Shaped), what the log says of it (Recorded),     *)
(* what an owner knows (Controlled), and what is left without one          *)
(* (Unowned).  Limits adds what bounds the number of workers: while jobs   *)
(* are queued, every job that may have a worker is counted as active.      *)
(* Every step but MarkRunning Keeps the set of such jobs from growing.     *)
(*                                                                         *)
(* Of the lane: no action happens twice, and two daemons serve at once     *)
(* only after a lock was removed by mistake.                               *)
(***************************************************************************)
EXTENDS MCServices, FiniteSetTheorems, SequenceTheorems, WellFoundedInduction, TLAPS

LEMMA LeastIndex ==
    ASSUME NEW S \in SUBSET Nat, S # {}
    PROVE  (CHOOSE k \in S : \A m \in S : k <= m) \in S
<1> DEFINE R == OpToRel(<, Nat)
<1>1. R = {p \in Nat \X Nat : p[1] < p[2]}
  BY DEF OpToRel
<1>2. IsWellFoundedOn(R, Nat)
  BY NatLessThanWellFounded
<1> HIDE DEF R
<1>3. PICK k \in S : \A m \in S : ~(<<m, k>> \in R)
  BY <1>2, WFMin, S # {}
<1>4. ASSUME NEW m \in S PROVE k <= m
  <2>1. k \in Nat /\ m \in Nat
    OBVIOUS
  <2>2. ~(<<m, k>> \in {p \in Nat \X Nat : p[1] < p[2]})
    BY <1>1, <1>3
  <2>3. ~(m < k)
    BY <2>1, <2>2
  <2> QED BY <2>1, <2>3
<1> QED BY <1>4

LEMMA Removed ==
    ASSUME NEW S, NEW s \in Seq(S), NEW i \in DOMAIN s
    PROVE  /\ RemoveAt(s, i) \in Seq(S) /\ Range(RemoveAt(s, i)) \subseteq Range(s)
           /\ s[i] \in S /\ s[i] \in Range(s)
<1> DEFINE a == SubSeq(s, 1, i - 1)
           b == SubSeq(s, i + 1, Len(s))
<1>1. i \in 1..Len(s) /\ Len(s) \in Nat /\ s[i] \in S
  OBVIOUS
<1>2. /\ a \in Seq(S) /\ Len(a) = i - 1
      /\ \A k \in 1..(i - 1) : a[k] = s[k]
  <2>1. \A k \in 1..(i - 1) : s[k] \in S
    BY <1>1
  <2> QED BY <2>1, <1>1, SubSeqProperties
<1>3. /\ b \in Seq(S) /\ Len(b) = Len(s) - i
      /\ \A k \in 1..(Len(s) - i) : b[k] = s[i + k]
  <2>1. \A k \in (i + 1)..Len(s) : s[k] \in S
    BY <1>1
  <2>2. /\ b \in Seq(S) /\ Len(b) = IF i + 1 <= Len(s) THEN Len(s) - (i + 1) + 1 ELSE 0
        /\ \A k \in 1..(Len(s) - (i + 1) + 1) : b[k] = s[(i + 1) + k - 1]
    BY <2>1, <1>1, SubSeqProperties
  <2> HIDE DEF b
  <2> QED BY <2>2, <1>1
<1> HIDE DEF a, b
<1>4. /\ a \o b \in Seq(S) /\ Len(a \o b) = Len(s) - 1
      /\ \A k \in 1..(Len(s) - 1) : (a \o b)[k] = IF k <= i - 1 THEN a[k] ELSE b[k - (i - 1)]
  <2>1. /\ a \o b \in Seq(S) /\ Len(a \o b) = Len(a) + Len(b)
        /\ \A k \in 1..(Len(a) + Len(b)) : (a \o b)[k] = IF k <= Len(a) THEN a[k] ELSE b[k - Len(a)]
    BY <1>2, <1>3, ConcatProperties
  <2>2. Len(a) = i - 1 /\ Len(a) + Len(b) = Len(s) - 1
    BY <1>1, <1>2, <1>3
  <2> QED BY <2>1, <2>2
<1>5. ASSUME NEW k \in 1..(Len(s) - 1) PROVE (a \o b)[k] \in Range(s)
  <2>1. CASE k <= i - 1
    BY <2>1, <1>1, <1>2, <1>4 DEF Range
  <2>2. CASE k > i - 1
    <3>1. k - (i - 1) \in 1..(Len(s) - i) /\ i + (k - (i - 1)) = k + 1 /\ k + 1 \in 1..Len(s)
      BY <2>2, <1>1
    <3>2. (a \o b)[k] = s[i + (k - (i - 1))]
      BY <2>2, <3>1, <1>1, <1>3, <1>4
    <3>3. (a \o b)[k] = s[k + 1]
      BY <3>1, <3>2
    <3> QED BY <3>1, <3>3, <1>1 DEF Range
  <2>3. k \in Nat /\ i \in Nat
    BY <1>1
  <2>4. k <= i - 1 \/ k > i - 1
    BY <2>3
  <2> QED BY <2>1, <2>2, <2>4
<1>6. Range(a \o b) \subseteq Range(s)
  <2>1. DOMAIN (a \o b) = 1..(Len(s) - 1)
    BY <1>4, <1>1
  <2> QED BY <2>1, <1>5 DEF Range
<1> QED BY <1>1, <1>4, <1>6 DEF RemoveAt, Range, a, b

-----------------------------------------------------------------------------
(* One job, as its supervisor leaves it                                    *)

Begins == {"writing", "ready"}          \* nothing is spawned yet
Spawned == {"pid", "running", "spoiled"}

\* The promise of a job whose outcome is on disk told it, unless the write threw.
Explained(j) == task[j].out \in Terminal \/ (task[j].out = "rejected" /\ past[j].thrown)

\* What the parts of one job's state say of each other, whoever owns it.
Shaped(j) ==
    /\ At(j, {"none"}) => task[j] = NoTask
    /\ At(j, Begins) => worker[j] = "none" /\ past[j].spawns = 0
    /\ worker[j] = "alive" => At(j, {"none"} \cup Spawned)
    /\ At(j, Spawned) => worker[j] # "none"
    /\ At(j, Spawned) /\ worker[j] # "alive" => task[j].out \in Terminal
    /\ At(j, {"closing"}) => task[j].out \in Terminal
    /\ At(j, {"done"}) => task[j].out # "none"
    /\ task[j].out \in {"refused", "rejected"} => At(j, {"done"})
    /\ At(j, {"done"}) /\ task[j].out \in Terminal => file[j].status = task[j].out
    /\ file[j].status = "none" => file[j] = NoFile

Same(k) == file'[k] = file[k] /\ task'[k] = task[k] /\ worker'[k] = worker[k] /\ past'[k] = past[k]

\* What a step of the job's own task or worker may do to it.
Advances(j) ==
    /\ task'[j].zombie = task[j].zombie
    /\ task[j].aborted => task'[j].aborted
    /\ At(j, {"none"}) => task'[j] = task[j] /\ file'[j] = file[j] /\ past'[j] = past[j]
    /\ At(j, {"none"}) /\ worker[j] = "none" => worker'[j] = "none"
    /\ At(j, {"done"}) => task'[j] = task[j] /\ file'[j] = file[j]
    /\ ~At(j, {"none"}) => task'[j].at # "none"
    /\ task'[j].at \in Begins => At(j, Begins)
    /\ Finished(j) => file'[j] = file[j]
    /\ file'[j].status \in Terminal /\ ~Finished(j) => task'[j].at = "done" /\ Explained(j)'
    /\ past[j].thrown => past'[j].thrown
    /\ worker'[j] = "alive" /\ worker[j] # "alive" => At(j, {"ready"}) /\ ~task[j].aborted
    /\ task'[j].out = "refused" => task[j].out = "refused" \/ At(j, {"writing"})

\* The values of one job after a step that writes its task and its status file
TaskOf(j, at, aborted, out) ==
    /\ task' \in [Jobs -> Task] /\ (\A k \in Jobs \ {j} : task'[k] = task[k])
    /\ task'[j] = [at |-> at, aborted |-> aborted, out |-> out, zombie |-> task[j].zombie]

FileOf(j, status, pid) ==
    /\ file' \in [Jobs -> File] /\ (\A k \in Jobs \ {j} : file'[k] = file[k])
    /\ file'[j] = [status |-> status, pid |-> pid]

LEMMA TaskMoves ==
    ASSUME SupervisorTypeOK, NEW j \in Jobs,
           NEW at \in {"none", "writing", "ready", "pid", "running", "spoiled", "closing", "done"}
    PROVE  /\ Move(j, at) => TaskOf(j, at, task[j].aborted, task[j].out)
           /\ \A out \in {"refused", "rejected"} \cup Terminal :
                Ends(j, at, out) => TaskOf(j, at, task[j].aborted, out)
           /\ task' = [task EXCEPT ![j].at = at, ![j].aborted = TRUE] => TaskOf(j, at, TRUE, task[j].out)
           /\ \A out \in Terminal :
                task' = [task EXCEPT ![j].out = out] => TaskOf(j, task[j].at, task[j].aborted, out)
<1> USE DEF SupervisorTypeOK, TaskOf, Task
<1>1. Move(j, at) => TaskOf(j, at, task[j].aborted, task[j].out)
  BY DEF Move
<1>2. ASSUME NEW out \in {"refused", "rejected"} \cup Terminal, Ends(j, at, out)
      PROVE  TaskOf(j, at, task[j].aborted, out)
  BY <1>2 DEF Ends
<1>3. ASSUME task' = [task EXCEPT ![j].at = at, ![j].aborted = TRUE]
      PROVE  TaskOf(j, at, TRUE, task[j].out)
  BY <1>3
<1>4. ASSUME NEW out \in Terminal, task' = [task EXCEPT ![j].out = out]
      PROVE  TaskOf(j, task[j].at, task[j].aborted, out)
  BY <1>4
<1> QED BY <1>1, <1>2, <1>3, <1>4

LEMMA Stores ==
    ASSUME SupervisorTypeOK, NEW j \in Jobs, NEW pid \in BOOLEAN
    PROVE  \A status \in {"running"} \cup Terminal : Store(j, status, pid) => FileOf(j, status, pid)
BY DEF SupervisorTypeOK, FileOf, Store, File

LEMMA Throws ==
    ASSUME SupervisorTypeOK, NEW j \in Jobs, NEW pid \in BOOLEAN, NEW status \in {"running"} \cup Terminal,
           StoreThrows(j, status, pid)
    PROVE  left' \in Nat /\ (UNCHANGED file \/ (~Finished(j) /\ FileOf(j, status, pid)))
BY Stores DEF StoreThrows, Trouble, SupervisorTypeOK

LEMMA SupervisorSteps ==
    ASSUME SupervisorTypeOK, NEW j \in Jobs, Shaped(j),
           TaskStep(j) \/ WorkerEnds(j) \/ ProgressFails(j)
    PROVE  /\ SupervisorTypeOK' /\ Shaped(j)' /\ Advances(j)
           /\ \A k \in Jobs \ {j} : Same(k)
<1> DEFINE Goal == /\ SupervisorTypeOK' /\ Shaped(j)' /\ Advances(j)
                   /\ \A k \in Jobs \ {j} : Same(k)
           Rest == worker' = worker /\ past' = past /\ left' \in Nat
<1>1. task[j] \in Task /\ file[j] \in File /\ left \in Nat
  BY DEF SupervisorTypeOK
<1>2. \A status \in {"running"} \cup Terminal, pid \in BOOLEAN :
            Store(j, status, pid) => FileOf(j, status, pid)
  BY Stores
<1>3. CASE WriteRunning(j)
  <2>1. CASE ~Finished(j) /\ Store(j, "running", FALSE) /\ Move(j, "ready") /\ UNCHANGED left
    <3>1. TaskOf(j, "ready", task[j].aborted, task[j].out) /\ FileOf(j, "running", FALSE)
      BY <2>1, <1>1, <1>2, TaskMoves DEF File, Terminal
    <3>2. Rest /\ At(j, {"writing"}) /\ ~Finished(j)
      BY <2>1, <1>3, <1>1 DEF WriteRunning
    <3> QED BY <3>1, <3>2, <1>1 DEF SupervisorTypeOK, Shaped, Advances, Same, At, Begins, Spawned,
           Finished, File, Task, Terminal, NoFile, NoTask, TaskOf, FileOf
  <2>2. CASE \/ UNCHANGED <<file, left>> /\ Ends(j, "done", "refused")
             \/ StoreThrows(j, "running", FALSE) /\ Ends(j, "done", "refused")
    <3>1. TaskOf(j, "done", task[j].aborted, "refused")
      BY <2>2, <1>1, TaskMoves DEF File, Terminal
    <3>2. Rest /\ At(j, {"writing"}) /\ (UNCHANGED file \/ (~Finished(j) /\ FileOf(j, "running", FALSE)))
      BY <2>2, <1>3, <1>1, Throws DEF WriteRunning
    <3>3. CASE UNCHANGED file
      BY <3>1, <3>2, <1>1, <3>3 DEF SupervisorTypeOK, Shaped, Advances, Same, At, Begins, Spawned,
           Finished, File, Task, Terminal, NoFile, NoTask, TaskOf
    <3>4. CASE ~Finished(j) /\ FileOf(j, "running", FALSE)
      BY <3>1, <3>2, <1>1, <3>4 DEF SupervisorTypeOK, Shaped, Advances, Same, At, Begins, Spawned,
           Finished, File, Task, Terminal, NoFile, NoTask, TaskOf, FileOf
    <3> QED BY <3>2, <3>3, <3>4
  <2> QED BY <1>3, <2>1, <2>2 DEF WriteRunning
<1>4. CASE Run(j)
  <2>1. CASE RunAborted(j) /\ Ends(j, "closing", "cancelled") /\ UNCHANGED <<worker, past, left>>
    <3>1. TaskOf(j, "closing", task[j].aborted, "cancelled")
      BY <2>1, <1>1, TaskMoves DEF File, Terminal
    <3>2. Rest /\ At(j, {"ready"}) /\ UNCHANGED file
      BY <2>1, <1>4, <1>1 DEF Run, Trouble, Move, Ends, RunAborted
    <3> QED BY <3>1, <3>2, <1>1 DEF SupervisorTypeOK, Shaped, Advances, Same, At, Begins, Spawned,
           Finished, File, Task, Terminal, NoFile, NoTask, TaskOf
  <2>2. CASE /\ ~RunAborted(j) /\ Move(j, "pid") /\ UNCHANGED left
                 /\ worker' = [worker EXCEPT ![j] = "alive"] /\ past' = [past EXCEPT ![j].spawns = @ + 1]
    <3>1. TaskOf(j, "pid", task[j].aborted, task[j].out)
      BY <2>2, <1>1, TaskMoves DEF File, Terminal
    <3>2. /\ left' \in Nat /\ At(j, {"ready"}) /\ ~task[j].aborted /\ UNCHANGED file
         /\ worker' = [worker EXCEPT ![j] = "alive"] /\ past' = [past EXCEPT ![j].spawns = @ + 1]
      BY <2>2, <1>4, <1>1 DEF Run, RunAborted
    <3>3. /\ past' \in [Jobs -> Past] /\ (\A k \in Jobs \ {j} : past'[k] = past[k])
          /\ past'[j].thrown = past[j].thrown
      BY <3>2, <1>1 DEF SupervisorTypeOK, Past, Shaped, At, Begins
    <3> QED BY <3>1, <3>2, <3>3, <1>1 DEF SupervisorTypeOK, Shaped, Advances, Same, At, Begins, Spawned,
           Finished, File, Task, Terminal, NoFile, NoTask, TaskOf
  <2>3. CASE ~RunAborted(j) /\ Trouble("spawn") /\ Ends(j, "closing", "failed") /\ UNCHANGED <<worker, past>>
    <3>1. TaskOf(j, "closing", task[j].aborted, "failed")
      BY <2>3, <1>1, TaskMoves DEF File, Terminal
    <3>2. Rest /\ At(j, {"ready"}) /\ UNCHANGED file
      BY <2>3, <1>4, <1>1 DEF Run, Trouble, Move, Ends, RunAborted
    <3> QED BY <3>1, <3>2, <1>1 DEF SupervisorTypeOK, Shaped, Advances, Same, At, Begins, Spawned,
           Finished, File, Task, Terminal, NoFile, NoTask, TaskOf
  <2> QED BY <1>4, <2>1, <2>2, <2>3 DEF Run
<1>5. CASE RecordPid(j)
  <2>1. CASE ~Finished(j) /\ Store(j, "running", TRUE) /\ Move(j, "running") /\ UNCHANGED left
    <3>1. TaskOf(j, "running", task[j].aborted, task[j].out) /\ FileOf(j, "running", TRUE)
      BY <2>1, <1>1, <1>2, TaskMoves DEF File, Terminal
    <3>2. Rest /\ At(j, {"pid"}) /\ ~Finished(j)
      BY <2>1, <1>5, <1>1 DEF RecordPid
    <3> QED BY <3>1, <3>2, <1>1 DEF SupervisorTypeOK, Shaped, Advances, Same, At, Begins, Spawned,
           Finished, File, Task, Terminal, NoFile, NoTask, TaskOf, FileOf
  <2>2. CASE /\ UNCHANGED <<file, left>> \/ StoreThrows(j, "running", TRUE)
             /\ task' = [task EXCEPT ![j].at = "spoiled", ![j].aborted = TRUE]
    <3>1. TaskOf(j, "spoiled", TRUE, task[j].out)
      BY <2>2, <1>1, TaskMoves DEF File, Terminal
    <3>2. Rest /\ At(j, {"pid"}) /\ (UNCHANGED file \/ (~Finished(j) /\ FileOf(j, "running", TRUE)))
      BY <2>2, <1>5, <1>1, Throws DEF RecordPid
    <3>3. CASE UNCHANGED file
      BY <3>1, <3>2, <1>1, <3>3 DEF SupervisorTypeOK, Shaped, Advances, Same, At, Begins, Spawned,
           Finished, File, Task, Terminal, NoFile, NoTask, TaskOf
    <3>4. CASE ~Finished(j) /\ FileOf(j, "running", TRUE)
      BY <3>1, <3>2, <1>1, <3>4 DEF SupervisorTypeOK, Shaped, Advances, Same, At, Begins, Spawned,
           Finished, File, Task, Terminal, NoFile, NoTask, TaskOf, FileOf
    <3> QED BY <3>2, <3>3, <3>4
  <2> QED BY <1>5, <2>1, <2>2 DEF RecordPid
<1>6. CASE Finish(j)
  <2>1. /\ Outcome(j) \in Terminal /\ file[j].pid \in BOOLEAN
        /\ At(j, {"running", "spoiled", "closing"}) /\ worker[j] # "alive" /\ worker' = worker
    BY <1>6, <1>1 DEF Finish, Outcome, Shaped, At, Spawned, Terminal, File
  <2>2. CASE /\ ~Finished(j) /\ Store(j, Outcome(j), file[j].pid) /\ Ends(j, "done", Outcome(j))
             /\ UNCHANGED <<past, left>>
    <3>1. TaskOf(j, "done", task[j].aborted, Outcome(j)) /\ FileOf(j, Outcome(j), file[j].pid)
      BY <2>1, <2>2, <1>1, <1>2, TaskMoves
    <3>2. Rest
      BY <2>1, <2>2, <1>1
    <3> QED BY <3>1, <3>2, <2>1, <2>2, <1>1 DEF SupervisorTypeOK, Shaped, Advances, Same, At, Begins, Spawned,
           Finished, File, Task, Terminal, NoFile, NoTask, TaskOf, FileOf, Explained
  <2>3. CASE Finished(j) /\ Ends(j, "done", "rejected") /\ UNCHANGED <<file, past, left>>
    <3>1. TaskOf(j, "done", task[j].aborted, "rejected")
      BY <2>3, <1>1, TaskMoves
    <3>2. Rest
      BY <2>1, <2>3, <1>1
    <3> QED BY <3>1, <3>2, <2>1, <2>3, <1>1 DEF SupervisorTypeOK, Shaped, Advances, Same, At, Begins, Spawned,
           Finished, File, Task, Terminal, NoFile, NoTask, TaskOf
  <2>4. CASE /\ StoreThrows(j, Outcome(j), file[j].pid)
             /\ Ends(j, "done", "rejected") /\ past' = [past EXCEPT ![j].thrown = TRUE]
    <3>1. TaskOf(j, "done", task[j].aborted, "rejected")
      BY <2>4, <1>1, TaskMoves
    <3>2. left' \in Nat /\ (UNCHANGED file \/ (~Finished(j) /\ FileOf(j, Outcome(j), file[j].pid)))
      BY <2>1, <2>4, Throws
    <3>3. /\ past' \in [Jobs -> Past] /\ (\A k \in Jobs \ {j} : past'[k] = past[k])
          /\ past'[j].thrown /\ past'[j].spawns = past[j].spawns
      BY <2>4 DEF SupervisorTypeOK, Past
    <3>4. CASE UNCHANGED file
      BY <3>1, <3>2, <3>3, <2>1, <1>1, <3>4 DEF SupervisorTypeOK, Shaped, Advances, Same, At, Begins, Spawned,
           Finished, File, Task, Terminal, NoFile, NoTask, TaskOf
    <3>5. CASE ~Finished(j) /\ FileOf(j, Outcome(j), file[j].pid)
      BY <3>1, <3>2, <3>3, <2>1, <1>1, <3>5 DEF SupervisorTypeOK, Shaped, Advances, Same, At, Begins, Spawned,
           Finished, File, Task, Terminal, NoFile, NoTask, TaskOf, FileOf, Explained
    <3> QED BY <3>2, <3>4, <3>5
  <2> QED BY <1>6, <2>2, <2>3, <2>4 DEF Finish
<1>7. CASE WorkerEnds(j)
  <2>1. /\ worker[j] = "alive" /\ worker' = [worker EXCEPT ![j] = "gone"]
        /\ UNCHANGED <<file, past, left>>
    BY <1>7 DEF WorkerEnds
  <2>2. CASE At(j, Spawned)
    <3>1. PICK out \in Terminal : task' = [task EXCEPT ![j].out = out]
      BY <2>2, <1>7 DEF WorkerEnds, Outcomes, Spawned, At, Terminal
    <3>2. TaskOf(j, task[j].at, task[j].aborted, out)
      BY <3>1, <1>1, TaskMoves DEF Task
    <3> QED BY <3>2, <2>1, <2>2, <1>1 DEF SupervisorTypeOK, Shaped, Advances, Same, At, Begins, Spawned,
           Finished, File, Task, Terminal, NoFile, NoTask, TaskOf
  <2>3. CASE ~At(j, Spawned)
    <3>1. UNCHANGED task
      BY <2>3, <1>7 DEF WorkerEnds, At, Spawned
    <3> QED BY <3>1, <2>1, <2>3, <1>1 DEF SupervisorTypeOK, Shaped, Advances, Same, At, Begins, Spawned,
           Finished, File, Task, Terminal, NoFile, NoTask, TaskOf
  <2> QED BY <2>2, <2>3
<1>8. CASE ProgressFails(j)
  <2>1. TaskOf(j, "spoiled", task[j].aborted, task[j].out)
    BY <1>8, <1>1, TaskMoves DEF ProgressFails
  <2>2. Rest /\ At(j, {"running"}) /\ worker[j] = "alive" /\ UNCHANGED file
    BY <1>8, <1>1 DEF ProgressFails, Trouble
  <2> QED BY <2>1, <2>2, <1>1 DEF SupervisorTypeOK, Shaped, Advances, Same, At, Begins, Spawned,
           Finished, File, Task, Terminal, NoFile, NoTask, TaskOf
<1> QED BY <1>3, <1>4, <1>5, <1>6, <1>7, <1>8 DEF TaskStep

-----------------------------------------------------------------------------
(* The inductive invariant                                                 *)

Fresh(j) == log.jobs[j] \in {"none", "pending"}
Still(j) == worker[j] # "alive" /\ (At(j, Begins) => task[j].aborted)

\* A definite status of an ended job is the one on disk, or it is a failure: there
\* will be none on disk, or the log was not told which one is.
Agrees(j, status) ==
    \/ status \in {"ambiguous", file[j].status}
    \/ status = "failed" /\ (past[j].thrown \/ (~Finished(j) /\ At(j, {"none", "done"})))

Told(j) == Agrees(j, log.jobs[j])

\* What the log says of a job, whoever is in control
Recorded(j) ==
    /\ Fresh(j) => task[j] = NoTask /\ worker[j] = "none" /\ past[j].spawns = 0
    /\ log.jobs[j] = "none" => file[j] = NoFile
    /\ j \in missed => (task[j].zombie \/ At(j, {"none"})) /\ ~Fresh(j)
    /\ j \notin missed /\ (Finished(j) \/ log.jobs[j] \in Terminal) => Still(j)
    /\ j \notin missed /\ log.jobs[j] \in Terminal => Told(j)

\* What an owner knows of its jobs: a job that runs in the log has a task of its
\* own, whose end nobody else records, and is waited for until it is past its start.
Controlled(j) ==
    /\ Controller /\ log.jobs[j] = "pending" => ctl.pc = "start" /\ ctl.cur = j /\ file[j] = NoFile
    /\ Controller /\ log.jobs[j] = "running" =>
            ~task[j].zombie /\ ~At(j, {"none"}) /\ (Finished(j) => At(j, {"done"}) /\ Explained(j))
    /\ ctl.pc = "settle" => (log.jobs[j] \in Unfinished => j \in ctl.todo)
                            /\ (j \in ctl.todo /\ Live(j) => task[j].aborted)
    /\ ctl.active[j] # "no" => ctl.pc \in {"dispatch", "start", "wait"} /\ ~Fresh(j)
    /\ ctl.active[j] = "start" => ctl.pc # "wait"
    /\ ctl.active[j] \in {"start", "await"} => ~task[j].zombie /\ ~At(j, {"none"})
    /\ ctl.active[j] = "await" => ~At(j, Begins) /\ task[j].out # "refused"
    /\ ctl.active[j] = "file" /\ log.jobs[j] = "running" => At(j, {"done"})
    /\ Controller /\ ctl.pc # "settle" /\ log.jobs[j] = "running" /\ ctl.active[j] # "start" => ~At(j, Begins)

\* What is left of a job when there is no owner, and what the calls know that
\* settle it then
Unowned(j) ==
    /\ ~Controller /\ ~task[j].zombie /\ ~At(j, {"none"}) => log.jobs[j] \in Terminal
    /\ ctl.pc = "reconcile" /\ j \in ctl.todo =>
            /\ log.jobs[j] \in Unfinished
            /\ ~task[j].zombie => file[j] = ctl.snap[j]
            /\ ctl.snap[j].status \in Terminal => file[j].status = ctl.snap[j].status
    /\ ctl.pc \in {"cancelRun", "cancelJob"} /\ j \in ctl.todo =>
            log.jobs[j] \in Unfinished /\ (~task[j].zombie => ~SeenAlive(j, file[j]))

JobInv(j) == Shaped(j) /\ Recorded(j) /\ Controlled(j) /\ Unowned(j)

Starting == ctl.pc = "start" => ctl.cur \in Jobs /\ log.jobs[ctl.cur] = "pending"

JobsInv == JobsTypeOK /\ (\A j \in Jobs : JobInv(j)) /\ Starting

\* A job that may have a worker, as far as the log can know
Occupies(j) ==
    /\ j \notin missed /\ log.jobs[j] = "running"
    /\ ~At(j, {"done"}) /\ (At(j, {"none"}) => worker[j] = "alive")

\* A step that keeps the invariant and lets no further job have a worker
Keeps == JobsInv' /\ \A k \in Jobs : Occupies(k)' => Occupies(k)

LEMMA Initially == JobsInit /\ left \in Nat => JobsInv
<1> SUFFICES ASSUME JobsInit, left \in Nat PROVE JobsInv
  OBVIOUS
<1> USE DEF JobsInit, SupervisorInit
<1>1. SupervisorTypeOK
  BY DEF SupervisorTypeOK, File, Task, Past, NoFile, NoTask
<1>2. log \in Log /\ requests \in [run : BOOLEAN, jobs : SUBSET Jobs] /\ ctl \in Control /\ missed \subseteq Jobs
  BY LimitsAssumption DEF Log, Control, Down, None, NoFile, File
<1>3. \A j \in Jobs : JobInv(j)
  BY DEF JobInv, Shaped, Recorded, Controlled, Unowned, Down, Fresh, Still, At, Controller, Controlling, Terminal,
         NoTask, NoFile, Begins, Spawned, Finished
<1> QED BY <1>1, <1>2, <1>3 DEF JobsInv, JobsTypeOK, Starting, Down

LEMMA SuperviseKeeps ==
    ASSUME JobsInv, UNCHANGED dispatchVars,
           NEW j \in Jobs, TaskStep(j) \/ WorkerEnds(j) \/ ProgressFails(j)
    PROVE  Keeps
<1> USE DEF dispatchVars
<1>1. /\ SupervisorTypeOK' /\ Shaped(j)' /\ Advances(j)
      /\ \A k \in Jobs \ {j} : Same(k)
  BY SupervisorSteps DEF JobsInv, JobInv, JobsTypeOK
<1>2. /\ log' = log /\ requests' = requests /\ ctl' = ctl /\ missed' = missed
      /\ JobInv(j) /\ task[j] \in Task
  BY DEF JobsInv, JobsTypeOK, SupervisorTypeOK
<1>3. ASSUME NEW k \in Jobs \ {j} PROVE JobInv(k)' /\ (Occupies(k)' => Occupies(k))
  <2>1. Same(k) /\ JobInv(k)
    BY <1>1, <1>3 DEF JobsInv
  <2> QED BY <2>1, <1>2 DEF Same, JobInv, Shaped, Recorded, Controlled, Explained, Unowned, Fresh, Still, Told,
        Agrees, At, Live, Finished,
         Controller, SeenAlive, Occupies
<1>4. Recorded(j)'
  BY <1>1, <1>2 DEF JobInv, Shaped, Recorded, Advances, Fresh, Still, Told, Agrees, At, Finished, NoTask, Begins,
        Spawned, Terminal
<1>5. Controlled(j)'
  BY <1>1, <1>2 DEF JobInv, Shaped, Recorded, Controlled, Explained, Advances, Fresh, At, Finished, NoTask, Live,
        Begins, Terminal,
            Unfinished, Controller, Controlling
<1>6. Unowned(j)'
  BY <1>1, <1>2 DEF JobInv, Unowned, Recorded, Advances, At, Finished, Controller, Controlling, SeenAlive, Terminal,
        Unfinished
<1>7. Occupies(j)' => Occupies(j)
  BY <1>1, <1>2 DEF JobInv, Occupies, Advances, At
<1> QED
  BY <1>1, <1>2, <1>3, <1>4, <1>5, <1>6, <1>7 DEF Keeps, JobsInv, JobsTypeOK, JobInv, Starting

-----------------------------------------------------------------------------
(* Steps that leave the log of the jobs alone                              *)

\* Tasks at most hear an abort.
Hushes ==
    /\ task' \in [Jobs -> Task] /\ UNCHANGED <<file, worker, past>>
    /\ \A k \in Jobs :
        /\ task'[k].at = task[k].at /\ task'[k].out = task[k].out /\ task'[k].zombie = task[k].zombie
        /\ task[k].aborted => task'[k].aborted
        /\ At(k, {"none"}) => task'[k] = task[k]

LEMMA CancelledHushes ==
    ASSUME JobsInv, UNCHANGED <<file, worker, past>>, NEW js \in SUBSET Jobs, task' = Cancelled(js)
    PROVE  Hushes /\ \A k \in js : Live(k) => task'[k].aborted
<1>1. task \in [Jobs -> Task]
  BY DEF JobsInv, JobsTypeOK, SupervisorTypeOK
<1>2. ASSUME NEW k \in Jobs
      PROVE  /\ task'[k] \in Task
             /\ task'[k].at = task[k].at /\ task'[k].out = task[k].out /\ task'[k].zombie = task[k].zombie
             /\ task[k].aborted => task'[k].aborted
             /\ At(k, {"none"}) => task'[k] = task[k]
             /\ k \in js /\ Live(k) => task'[k].aborted
  BY <1>1 DEF Cancelled, Task, At, Live
<1> QED BY <1>1, <1>2 DEF Cancelled, Hushes

LEMMA UnchangedHushes == JobsInv /\ UNCHANGED <<file, task, worker, past>> => Hushes
BY DEF JobsInv, JobsTypeOK, SupervisorTypeOK, Hushes

\* Such a step keeps all that does not depend on who is in control.
LEMMA HushKeeps ==
    ASSUME JobsInv, Hushes, log' \in Log, log'.jobs = log.jobs, missed' = missed, left' \in Nat
    PROVE  /\ SupervisorTypeOK'
           /\ \A k \in Jobs : Shaped(k)' /\ Recorded(k)' /\ (Occupies(k)' => Occupies(k))
<1>1. SupervisorTypeOK'
  BY DEF JobsInv, JobsTypeOK, SupervisorTypeOK, Hushes
<1>2. ASSUME NEW k \in Jobs PROVE Shaped(k)' /\ Recorded(k)' /\ (Occupies(k)' => Occupies(k))
  <2>1. Shaped(k) /\ Recorded(k)
    BY DEF JobsInv, JobInv
  <2>2. /\ task'[k].at = task[k].at /\ task'[k].out = task[k].out /\ task'[k].zombie = task[k].zombie
        /\ task[k].aborted => task'[k].aborted
        /\ At(k, {"none"}) => task'[k] = task[k]
        /\ file' = file /\ worker' = worker /\ past' = past
    BY DEF Hushes
  <2>3. Shaped(k)'
    BY <2>1, <2>2 DEF Shaped, At
  <2>4. Recorded(k)'
    BY <2>1, <2>2 DEF Recorded, Fresh, Still, Told, Agrees, At, Finished, NoTask
  <2>5. Occupies(k)' => Occupies(k)
    BY <2>2 DEF Occupies, At
  <2> QED BY <2>3, <2>4, <2>5
<1> QED BY <1>1, <1>2

LEMMA DownIsControl == Down \in Control
BY LimitsAssumption DEF Control, Down, None, NoFile, File

\* No owner: what must be shown is that every task that is nobody's has ended.
LEMMA DownKeeps ==
    ASSUME JobsInv, Hushes, log' \in Log, log'.jobs = log.jobs, missed' = missed, left' \in Nat,
           requests' = requests, ctl' = Down,
           \/ ~Controller
           \/ Unsettled = {}
           \/ ctl.pc = "settle" /\ ctl.todo = {}
    PROVE  Keeps
<1>1. SupervisorTypeOK' /\ \A k \in Jobs : Shaped(k)' /\ Recorded(k)' /\ (Occupies(k)' => Occupies(k))
  BY HushKeeps
<1>2. ctl' \in Control /\ Starting'
  BY LimitsAssumption DEF Control, Down, None, NoFile, File, Starting
<1>3. ASSUME NEW k \in Jobs PROVE Controlled(k)' /\ Unowned(k)'
  <2>1. JobInv(k) /\ log.jobs[k] \in {"none"} \cup Unfinished \cup Terminal
    BY DEF JobsInv, JobsTypeOK, Log
  <2>2. ~task[k].zombie /\ ~At(k, {"none"}) => log.jobs[k] \in Terminal
    BY <2>1 DEF JobInv, Unowned, Recorded, Controlled, Fresh, NoTask, At, Unsettled, Unfinished
  <2>3. task'[k].at = task[k].at /\ task'[k].zombie = task[k].zombie
    BY DEF Hushes
  <2>4. Controlled(k)'
    BY DEF Controlled, Down, Controller, Controlling
  <2> QED BY <2>2, <2>3, <2>4 DEF Unowned, Down, At
<1> QED BY <1>1, <1>2, <1>3 DEF Keeps, JobsInv, JobsTypeOK, JobInv

\* The abort that precedes settling
LEMMA FailingKeeps ==
    ASSUME JobsInv, UNCHANGED <<file, worker, past, log, requests, missed>>, left' \in Nat, Controller, ctl.pc # "start",
           NEW sig \in {"none", "cancelled", "failed"}, Failing(sig)
    PROVE  Keeps
<1>1. Hushes /\ (Unsettled # {} => \A k \in Jobs : Live(k) => task'[k].aborted)
  <2>1. CASE task' = task
    BY <2>1, UnchangedHushes, CancelledHushes DEF Failing
  <2>2. CASE task' = Cancelled(Jobs)
    BY <2>2, CancelledHushes
  <2> QED BY <2>1, <2>2 DEF Failing
<1>2. log' \in Log /\ log'.jobs = log.jobs
  BY DEF JobsInv, JobsTypeOK
<1>3. SupervisorTypeOK' /\ \A k \in Jobs : Shaped(k)' /\ Recorded(k)' /\ (Occupies(k)' => Occupies(k))
  BY <1>1, <1>2, HushKeeps
<1>4. /\ ctl'.pc = "settle" /\ ctl'.todo = Unsettled /\ ctl'.active = [j \in Jobs |-> "no"]
      /\ ctl' \in Control
  <2>1. Unsettled \in SUBSET Jobs /\ ctl.seen \in SUBSET Jobs
    BY DEF Unsettled, JobsInv, JobsTypeOK, Control
  <2>2. ctl' = [Down EXCEPT !.pc = "settle", !.todo = Unsettled, !.sig = sig, !.seen = ctl.seen]
    BY DEF Failing
  <2>3. Down \in Control
    BY DownIsControl
  <2>4. ctl' \in Control
    BY <2>1, <2>2, <2>3 DEF Control, Controlling
  <2> QED BY <2>2, <2>4 DEF Down
<1>5. ASSUME NEW k \in Jobs PROVE Controlled(k)' /\ Unowned(k)'
  <2>1. JobInv(k)
    BY DEF JobsInv
  <2>2. task'[k].at = task[k].at /\ task'[k].zombie = task[k].zombie /\ task'[k].out = task[k].out /\ file' = file
    BY <1>1 DEF Hushes
  <2>3. ~(log.jobs[k] = "pending" /\ ctl.pc # "start")
    BY <2>1 DEF JobInv, Controlled
  <2> QED BY <1>1, <1>4, <2>1, <2>2, <2>3 DEF JobInv, Controlled, Explained, Unowned, Controller, Controlling, At,
        Live, Unsettled, Finished
<1> QED BY <1>2, <1>3, <1>4, <1>5 DEF Keeps, JobsInv, JobsTypeOK, JobInv, Starting

\* The control is where it was: somebody asks for a cancellation, or it is heard.
LEMMA HearingKeeps ==
    ASSUME JobsInv, Hushes, UNCHANGED <<log, missed>>, left' \in Nat,
           requests' \in [run : BOOLEAN, jobs : SUBSET Jobs],
           NEW sig \in {"none", "cancelled", "failed"}, NEW seen \in SUBSET Jobs,
           ctl' = [ctl EXCEPT !.sig = sig, !.seen = seen]
    PROVE  Keeps
<1>1. SupervisorTypeOK' /\ \A k \in Jobs : Shaped(k)' /\ Recorded(k)' /\ (Occupies(k)' => Occupies(k))
  BY HushKeeps DEF JobsInv, JobsTypeOK
<1>2. /\ ctl' \in Control
      /\ ctl'.pc = ctl.pc /\ ctl'.todo = ctl.todo /\ ctl'.cur = ctl.cur /\ ctl'.active = ctl.active /\ ctl'.snap = ctl.snap
  BY DEF JobsInv, JobsTypeOK, Control
<1>3. ASSUME NEW k \in Jobs PROVE Controlled(k)' /\ Unowned(k)'
  <2>1. JobInv(k)
    BY DEF JobsInv
  <2>2. /\ task'[k].at = task[k].at /\ task'[k].zombie = task[k].zombie /\ task'[k].out = task[k].out
        /\ task[k].aborted => task'[k].aborted
        /\ file' = file /\ worker' = worker /\ past' = past
    BY DEF Hushes
  <2>3. Controlled(k)'
    <3>1. (Controller' <=> Controller) /\ (Live(k)' <=> Live(k)) /\ (Finished(k)' <=> Finished(k))
      BY <1>2, <2>2 DEF Controller, Live, Finished, At
    <3>2. log' = log /\ Controlled(k)
      BY <2>1 DEF JobInv
    <3> QED BY <1>2, <2>2, <3>1, <3>2 DEF Controlled, Explained, At, Fresh
  <2>4. Unowned(k)'
    BY <1>2, <2>1, <2>2 DEF JobInv, Unowned, Controller, At, SeenAlive
  <2> QED BY <2>3, <2>4
<1>4. missed' \subseteq Jobs /\ log' \in Log /\ Starting'
  BY <1>2 DEF JobsInv, JobsTypeOK, Starting
<1> QED BY <1>1, <1>2, <1>3, <1>4 DEF Keeps, JobsInv, JobsTypeOK, JobInv

\* The owner goes on to a step that waits for no job.
LEMMA IdleKeeps ==
    ASSUME JobsInv, UNCHANGED <<supervisor, left, requests, missed>>, log' \in Log, log'.jobs = log.jobs,
           \/ Controller /\ ctl.pc \notin {"settle", "start"} /\ \A k \in Jobs : ctl.active[k] # "start"
           \/ ~Controller /\ Unsettled = {},
           ctl' \in Control, ctl'.pc \in {"loop", "executed", "complete", "inspect"},
           \A k \in Jobs : ctl'.active[k] = "no"
    PROVE  Keeps
<1>1. Hushes /\ left' \in Nat /\ UNCHANGED <<file, task, past>>
  BY UnchangedHushes DEF supervisor, JobsInv, JobsTypeOK, SupervisorTypeOK
<1>2. SupervisorTypeOK' /\ \A k \in Jobs : Shaped(k)' /\ Recorded(k)' /\ (Occupies(k)' => Occupies(k))
  BY <1>1, HushKeeps
<1>3. ASSUME NEW k \in Jobs PROVE Controlled(k)' /\ Unowned(k)'
  <2>1. JobInv(k) /\ (~Controller => log.jobs[k] \notin Unfinished)
    BY DEF JobsInv, Unsettled
  <2> QED BY <1>1, <2>1 DEF JobInv, Controlled, Explained, Unowned, Controller, Controlling, At, Live, Finished, Unfinished
<1>4. missed' \subseteq Jobs /\ requests' \in [run : BOOLEAN, jobs : SUBSET Jobs] /\ Starting'
  BY DEF JobsInv, JobsTypeOK, Starting
<1> QED BY <1>2, <1>3, <1>4 DEF Keeps, JobsInv, JobsTypeOK, JobInv

LEMMA BegunIs ==
    ASSUME JobsInv, NEW c \in Commands
    PROVE  /\ Begun(c, "none") \in Control /\ Begun(c, "none").pc = c.action
           /\ c.action \in {"dispatch", "wait", "inspect", "complete"} /\ c.jobs \in Seq(Jobs)
           /\ Begun(c, "none").active = IF c.action \in {"dispatch", "wait"} THEN RunningNow ELSE Down.active
           /\ c.action = "dispatch" => Begun(c, "none").queue = c.jobs /\ Begun(c, "none").limit = GlobalLimit(c.jobs)
<1>1. c.action \in {"dispatch", "wait", "inspect", "complete"} /\ c.jobs \in Seq(Jobs)
  BY CommandsAssumption
<1>2. /\ Down \in Control /\ RunningNow \in [Jobs -> {"no", "start", "await", "file"}]
      /\ GlobalLimit(c.jobs) \in 0..MaxConcurrency
      /\ {j \in Jobs : log.jobs[j] # "none"} \in SUBSET Jobs /\ ctl.seen \in SUBSET Jobs
  BY DownIsControl, LimitsAssumption DEF RunningNow, Waiting, GlobalLimit, JobsInv, JobsTypeOK, Control
<1> DEFINE base == [Down EXCEPT !.pc = c.action, !.sig = "none", !.seen = ctl.seen]
<1>3. base \in Control /\ base.pc = c.action /\ base.active = Down.active
  BY <1>1, <1>2 DEF Control, Controlling
<1> HIDE DEF base
<1>4. Begun(c, "none") = CASE c.action = "dispatch" ->
                [base EXCEPT !.queue = c.jobs, !.active = RunningNow, !.limit = GlobalLimit(c.jobs)]
         [] c.action = "wait" -> [base EXCEPT !.active = RunningNow]
         [] c.action = "inspect" -> [base EXCEPT !.todo = {j \in Jobs : log.jobs[j] # "none"}]
         [] OTHER -> base
  BY DEF Begun, base
<1>5. CASE c.action = "dispatch"
  <2>1. Begun(c, "none") = [base EXCEPT !.queue = c.jobs, !.active = RunningNow, !.limit = GlobalLimit(c.jobs)]
    BY <1>4, <1>5
  <2> QED BY <1>1, <1>2, <1>3, <1>5, <2>1 DEF Control
<1>6. CASE c.action = "wait"
  BY <1>1, <1>2, <1>3, <1>4, <1>6 DEF Control
<1>7. CASE c.action = "inspect"
  BY <1>1, <1>2, <1>3, <1>4, <1>7 DEF Control
<1>8. CASE c.action = "complete"
  BY <1>1, <1>2, <1>3, <1>4, <1>8
<1> QED BY <1>1, <1>5, <1>6, <1>7, <1>8

\* A command is taken up by a loop that waits for nothing, or by a new owner of
\* a run whose jobs have all ended.
LEMMA BegunKeeps ==
    ASSUME JobsInv, UNCHANGED <<supervisor, left, requests, missed>>, log' \in Log, log'.jobs = log.jobs,
           ctl.pc = "loop" \/ (~Controller /\ Unsettled = {}),
           NEW c \in Commands, ctl' = Begun(c, "none")
    PROVE  Keeps
<1>1. /\ ctl' \in Control /\ ctl'.pc = c.action /\ c.action \in {"dispatch", "wait", "inspect", "complete"}
      /\ ctl'.active = IF c.action \in {"dispatch", "wait"} THEN RunningNow ELSE Down.active
  BY BegunIs
<1>2. ASSUME NEW k \in Jobs
      PROVE  /\ ctl.active[k] # "start"
             /\ log.jobs[k] = "running" => ~At(k, Begins \cup {"none"}) /\ ~task[k].zombie
             /\ log.jobs[k] # "pending"
  BY DEF JobsInv, JobInv, Controlled, Controller, Controlling, Unsettled, Unfinished, At
<1>3. CASE c.action \in {"inspect", "complete"}
  BY <1>1, <1>2, <1>3, IdleKeeps DEF Controller, Controlling, Down
<1>4. CASE c.action \in {"dispatch", "wait"}
  <2>1. Hushes /\ left' \in Nat /\ UNCHANGED <<file, task, past>>
    BY UnchangedHushes DEF supervisor, JobsInv, JobsTypeOK, SupervisorTypeOK
  <2>2. SupervisorTypeOK' /\ \A k \in Jobs : Shaped(k)' /\ Recorded(k)' /\ (Occupies(k)' => Occupies(k))
    BY <2>1, HushKeeps
  <2>3. ASSUME NEW k \in Jobs PROVE Controlled(k)' /\ Unowned(k)'
    <3>1. JobInv(k) /\ (~Controller => log.jobs[k] \notin Unfinished) /\ task[k] \in Task
      BY DEF JobsInv, JobsTypeOK, SupervisorTypeOK, Unsettled, Controller, Controlling
    <3>2. /\ ctl'.active[k] = IF log.jobs[k] = "running" THEN (IF Awaitable(k) THEN "await" ELSE "file") ELSE "no"
          /\ log.jobs[k] = "running" => (Awaitable(k) <=> ~At(k, {"done"}))
      BY <1>1, <1>2, <1>4 DEF RunningNow, Waiting, Awaitable, Live, At, Begins
    <3>3. Awaitable(k) => task[k].out # "refused"
      BY <3>1 DEF Awaitable, Live, JobInv, Shaped, At
    <3>4. ctl'.pc \in {"dispatch", "wait"} /\ ctl.pc \notin {"settle", "start"}
      BY <1>1, <1>4 DEF Controller, Controlling
    <3>5. Controlled(k)'
      BY <1>2, <2>1, <3>1, <3>2, <3>3, <3>4 DEF JobInv, Controlled, Explained, Recorded, Controller, Controlling, At,
            Finished, Fresh,
          Unfinished
    <3>6. Unowned(k)'
      BY <3>4 DEF Unowned, Controller, Controlling
    <3> QED BY <3>5, <3>6
  <2>4. missed' \subseteq Jobs /\ requests' \in [run : BOOLEAN, jobs : SUBSET Jobs] /\ Starting'
    BY <1>1, <1>4 DEF JobsInv, JobsTypeOK, Starting
  <2> QED BY <1>1, <2>2, <2>3, <2>4 DEF Keeps, JobsInv, JobsTypeOK, JobInv
<1> QED BY <1>1, <1>3, <1>4

-----------------------------------------------------------------------------
(* The steps of an owner that leave the log of the jobs alone              *)

LEMMA AcceptKeeps == JobsInv /\ Accept => Keeps
<1> SUFFICES ASSUME JobsInv, Accept PROVE Keeps
  OBVIOUS
<1>1. PICK c \in Commands : /\ log' = [log EXCEPT !.command = c, !.used = @ + 1]
                            /\ ctl' = Begun(c, "none")
  BY DEF Accept
<1>2. log' \in Log /\ log'.jobs = log.jobs
  <2>1. log \in Log /\ log.used + 1 \in 0..MaxCommands
    BY LimitsAssumption DEF Accept, JobsInv, JobsTypeOK, Log
  <2> QED BY <1>1, <2>1 DEF Log
<1> QED BY <1>1, <1>2, BegunKeeps DEF Accept

LEMMA ContinueKeeps == JobsInv /\ Continue => Keeps
<1> SUFFICES ASSUME JobsInv, Continue PROVE Keeps
  OBVIOUS
<1>1. log' \in Log /\ log'.jobs = log.jobs /\ ~Controller
  BY DEF Continue, JobsInv, JobsTypeOK, Log, Controller, Controlling
<1>2. CASE log.command = NoCommand
  <2>1. ctl' = [Down EXCEPT !.pc = "loop"] /\ Down \in Control
    BY <1>2, DownIsControl DEF Continue
  <2>2. ctl' \in Control /\ ctl'.pc = "loop" /\ ctl'.active = Down.active
    BY <2>1 DEF Control, Controlling
  <2> QED BY <1>1, <2>2, IdleKeeps DEF Continue, Down
<1>3. CASE log.command # NoCommand
  <2>1. log.command \in Commands
    BY <1>3 DEF JobsInv, JobsTypeOK, Log
  <2> QED BY <1>1, <1>3, <2>1, BegunKeeps DEF Continue
<1> QED BY <1>2, <1>3

LEMMA OwnerGoesOn ==
    JobsInv /\ (Dispatched \/ Complete \/ Executed) => Keeps
<1> SUFFICES ASSUME JobsInv, Dispatched \/ Complete \/ Executed PROVE Keeps
  OBVIOUS
<1>0. ctl \in Control /\ ctl.sig \in {"none", "cancelled", "failed"} /\ log \in Log /\ left \in Nat
  BY DEF JobsInv, JobsTypeOK, SupervisorTypeOK, Control
<1>1. ASSUME NEW pc \in {"loop", "executed"}, Goto(pc), UNCHANGED <<supervisor, left, requests, missed>>,
             log' \in Log, log'.jobs = log.jobs, Controller, ctl.pc \notin {"settle", "start"},
             ActiveJobs = {}
      PROVE  Keeps
  <2>1. \A k \in Jobs : ctl.active[k] = "no"
    BY <1>1 DEF ActiveJobs
  <2>2. ctl' \in Control /\ ctl'.pc = pc /\ ctl'.active = ctl.active
    BY <1>0, <1>1 DEF Goto, Control, Controlling
  <2> QED BY <1>1, <2>1, <2>2, IdleKeeps
<1>2. CASE Dispatched
  <2>1. CASE ctl.sig # "none"
    BY <1>0, <1>2, <2>1, FailingKeeps DEF Dispatched, Controller, Controlling
  <2>2. CASE ctl.sig = "none"
    BY <1>0, <1>1, <1>2, <2>2 DEF Dispatched, Controller, Controlling, supervisor
  <2> QED BY <2>1, <2>2
<1>3. ActiveJobs = {} \/ ctl.pc \in {"dispatch", "start", "wait"}
  BY DEF JobsInv, JobInv, Controlled, ActiveJobs
<1>4. CASE Complete
  <2>1. CASE MayComplete
    <3>1. log' \in Log /\ log'.jobs = log.jobs
      BY <1>0, <1>4, <2>1 DEF Complete, Log
    <3>2. Hushes
      BY <1>4, UnchangedHushes DEF Complete, supervisor
    <3> QED BY <1>0, <1>4, <2>1, <3>1, <3>2, DownKeeps DEF Complete, MayComplete
  <2>2. CASE ~MayComplete
    BY <1>0, <1>1, <1>3, <1>4, <2>2 DEF Complete, Controller, Controlling
  <2> QED BY <2>1, <2>2
<1>5. CASE Executed
  <2>1. log' \in Log /\ log'.jobs = log.jobs
    BY <1>0, <1>5 DEF Executed, Log
  <2> QED BY <1>1, <1>3, <1>5, <2>1 DEF Executed, Controller, Controlling
<1> QED BY <1>2, <1>4, <1>5

LEMMA LoopFailsKeeps == JobsInv /\ LoopFails => Keeps
<1> SUFFICES ASSUME JobsInv, LoopFails PROVE Keeps
  OBVIOUS
<1>1. ctl.sig \in {"none", "cancelled", "failed"} /\ left' \in Nat
  BY DEF JobsInv, JobsTypeOK, SupervisorTypeOK, Control, LoopFails, Trouble
<1> QED BY <1>1, FailingKeeps DEF LoopFails, Controller, Controlling

LEMMA ReleasesKeep == JobsInv /\ (Stop \/ Reconciled \/ CancelDone) => Keeps
<1> SUFFICES ASSUME JobsInv, Stop \/ Reconciled \/ CancelDone PROVE Keeps
  OBVIOUS
<1>1. log' \in Log /\ log'.jobs = log.jobs
  BY DEF JobsInv, JobsTypeOK, Log, Stop, Reconciled, CancelDone
<1>2. left' \in Nat /\ missed' = missed /\ requests' = requests /\ ctl' = Down
      /\ UNCHANGED <<file, task, worker, past>>
  BY DEF Stop, Reconciled, CancelDone, JobsInv, JobsTypeOK, SupervisorTypeOK, supervisor
<1>3. ~Controller \/ (ctl.pc = "settle" /\ ctl.todo = {})
  BY DEF Stop, Reconciled, CancelDone, Controller, Controlling
<1> QED BY <1>1, <1>2, <1>3, UnchangedHushes, DownKeeps

LEMMA HearingsKeep ==
    JobsInv /\ (RequestRun \/ Abort \/ ZombieStops \/ \E j \in Jobs : RequestJob(j) \/ SeeJobRequest(j)) => Keeps
<1> SUFFICES ASSUME JobsInv, RequestRun \/ Abort \/ ZombieStops \/ \E j \in Jobs : RequestJob(j) \/ SeeJobRequest(j)
             PROVE  Keeps
  OBVIOUS
<1>1. /\ ctl \in Control /\ left \in Nat /\ requests \in [run : BOOLEAN, jobs : SUBSET Jobs]
      /\ ctl.sig \in {"none", "cancelled", "failed"} /\ ctl.seen \in SUBSET Jobs
      /\ ctl = [ctl EXCEPT !.sig = ctl.sig, !.seen = ctl.seen] /\ task \in [Jobs -> Task]
  BY DEF JobsInv, JobsTypeOK, SupervisorTypeOK, Control
<1>2. CASE RequestRun \/ \E j \in Jobs : RequestJob(j)
  <2>1. requests' \in [run : BOOLEAN, jobs : SUBSET Jobs]
    <3>1. CASE RequestRun
      BY <1>1, <3>1 DEF RequestRun
    <3>2. CASE \E j \in Jobs : RequestJob(j)
      <4>1. PICK j \in Jobs : requests' = [requests EXCEPT !.jobs = @ \cup {j}]
        BY <3>2 DEF RequestJob
      <4> QED BY <1>1, <4>1
    <3> QED BY <1>2, <3>1, <3>2
  <2>2. ctl' = ctl /\ left' = left /\ UNCHANGED <<file, task, worker, past, log, missed>>
    BY <1>2 DEF RequestRun, RequestJob, supervisor
  <2> QED BY <1>1, <2>1, <2>2, UnchangedHushes, HearingKeeps
<1>3. CASE Abort
  <2>1. PICK sig \in {"cancelled", "failed"} : ctl' = [ctl EXCEPT !.sig = sig]
    BY <1>3 DEF Abort
  <2>2. ctl' = [ctl EXCEPT !.sig = sig, !.seen = ctl.seen]
    BY <1>1, <2>1 DEF Control
  <2>4. left' \in Nat
    BY <1>1, <1>3 DEF Abort, Trouble
  <2>3. Hushes
    BY <1>3, CancelledHushes DEF Abort
  <2> QED BY <1>1, <1>3, <2>2, <2>3, <2>4, HearingKeeps DEF Abort
<1>4. CASE ZombieStops
  <2>1. ctl' = ctl /\ left' = left /\ requests' = requests /\ UNCHANGED <<file, worker, past, log, missed>>
        /\ task' = [j \in Jobs |-> IF task[j].zombie THEN [task[j] EXCEPT !.aborted = TRUE] ELSE task[j]]
    BY <1>4 DEF ZombieStops, dispatchVars
  <2>2. ASSUME NEW k \in Jobs
        PROVE  /\ task'[k] \in Task
               /\ task'[k].at = task[k].at /\ task'[k].out = task[k].out /\ task'[k].zombie = task[k].zombie
               /\ task[k].aborted => task'[k].aborted
               /\ At(k, {"none"}) => task'[k] = task[k]
    <3>1. task[k] \in Task /\ (At(k, {"none"}) => ~task[k].zombie)
      BY <1>1 DEF JobsInv, JobInv, Shaped, NoTask
    <3> QED BY <2>1, <3>1 DEF Task
  <2>3. Hushes
    BY <2>1, <2>2 DEF Hushes
  <2> QED BY <1>1, <2>1, <2>3, HearingKeeps
<1>5. CASE \E j \in Jobs : SeeJobRequest(j)
  <2>1. PICK j \in Jobs : SeeJobRequest(j)
    BY <1>5
  <2>2. ctl' = [ctl EXCEPT !.sig = ctl.sig, !.seen = ctl.seen \cup {j}] /\ ctl.seen \cup {j} \in SUBSET Jobs
    BY <1>1, <2>1 DEF Control, SeeJobRequest
  <2>3. Hushes
    BY <2>1, CancelledHushes, {j} \in SUBSET Jobs DEF SeeJobRequest
  <2> QED BY <1>1, <2>1, <2>2, <2>3, HearingKeeps DEF SeeJobRequest
<1> QED BY <1>2, <1>3, <1>4, <1>5

-----------------------------------------------------------------------------
(* The steps of an owner that put the status of a job on record            *)

\* A status may be put on record when it is true.
LEMMA ObserveKeeps ==
    ASSUME JobsInv, UNCHANGED <<file, task, worker, past>>, left' \in Nat,
           NEW j \in Jobs, NEW status \in {"running"} \cup Terminal, Observe(j, status),
           missed' = missed \/ (missed' = missed \cup {j} /\ (task[j].zombie \/ At(j, {"none"}))),
           status = "running" => ~Fresh(j),
           /\ log.jobs[j] \notin Terminal /\ status \in Terminal /\ j \notin missed'
           => Still(j) /\ Agrees(j, status)
    PROVE  /\ SupervisorTypeOK' /\ log' \in Log /\ missed' \subseteq Jobs
           /\ \A k \in Jobs : Shaped(k)' /\ Recorded(k)' /\ (Occupies(k)' => Occupies(k))
           /\ log'.jobs[j] = IF log.jobs[j] \in Terminal THEN log.jobs[j] ELSE status
           /\ \A k \in Jobs \ {j} : log'.jobs[k] = log.jobs[k]
<1>1. log \in Log /\ missed \subseteq Jobs
  BY DEF JobsInv, JobsTypeOK
<1>2. /\ log' \in Log
      /\ log'.jobs[j] = IF log.jobs[j] \in Terminal THEN log.jobs[j] ELSE status
      /\ \A k \in Jobs \ {j} : log'.jobs[k] = log.jobs[k]
  <2>1. CASE log.jobs[j] \in Terminal
    BY <1>1, <2>1 DEF Observe
  <2>2. CASE log.jobs[j] \notin Terminal
    BY <1>1, <2>2 DEF Observe, Log, Unfinished
  <2> QED BY <2>1, <2>2
<1>3. SupervisorTypeOK' /\ missed' \subseteq Jobs
  BY <1>1 DEF JobsInv, JobsTypeOK, SupervisorTypeOK
<1>4. ASSUME NEW k \in Jobs PROVE Shaped(k)' /\ Recorded(k)' /\ (Occupies(k)' => Occupies(k))
  <2>1. Shaped(k) /\ Recorded(k) /\ (k # j => (k \in missed' <=> k \in missed))
    BY DEF JobsInv, JobInv
  <2>2. Shaped(k)'
    BY <2>1 DEF Shaped, At
  <2>3. CASE k # j
    BY <1>2, <2>1, <2>2, <2>3 DEF Recorded, Occupies, Fresh, Still, Told, Agrees, At, Finished
  <2>4. CASE k = j
    <3>1. Recorded(j)'
      BY <1>2, <2>1, <2>4 DEF Recorded, Fresh, Still, Told, Agrees, At, Finished, Terminal
    <3>2. Occupies(j)' => Occupies(j)
      BY <1>1, <1>2, <2>1, <2>4 DEF Occupies, Fresh, At, Terminal, Log, Unfinished
    <3> QED BY <3>1, <3>2, <2>2, <2>4
  <2> QED BY <2>3, <2>4
<1> QED BY <1>2, <1>3, <1>4

\* What a settled promise says of a job that runs in the log
LEMMA StatusIsKnown ==
    ASSUME JobsInv, NEW j \in Jobs, ctl.active[j] # "no", Settled(j), log.jobs[j] = "running"
    PROVE  /\ StatusOf(j) \in {"running"} \cup Terminal
           /\ StatusOf(j) \in Terminal =>
                Still(j) /\ Agrees(j, StatusOf(j))
           /\ StatusOf(j) = "running" =>
                \/ ctl.active[j] = "file" /\ At(j, {"done"})
                \/ j \in Background /\ ctl.active[j] = "start" /\ ~At(j, Begins)
           /\ Controller /\ ~task[j].zombie /\ ~At(j, {"none"})
<1>1. JobInv(j) /\ Controller /\ task[j] \in Task /\ file[j] \in File
      /\ ctl.active[j] \in {"start", "await", "file"}
  BY DEF JobsInv, JobInv, Controlled, JobsTypeOK, SupervisorTypeOK, Control, Controller, Controlling
<1>2. ~task[j].zombie /\ ~At(j, {"none"}) /\ (Finished(j) => At(j, {"done"}) /\ Explained(j))
  BY <1>1 DEF JobInv, Controlled
<1>3. At(j, {"done"}) => /\ worker[j] # "alive" /\ Still(j) /\ task[j].out \in {"refused", "rejected"} \cup Terminal
                         /\ task[j].out \in Terminal => file[j].status = task[j].out
                         /\ task[j].out = "refused" => ~Finished(j)
                         /\ task[j].out = "rejected" => past[j].thrown \/ ~Finished(j)
  BY <1>1, <1>2 DEF Explained, JobInv, Shaped, Still, At, Begins, Spawned, Task, Terminal
<1>4. CASE ctl.active[j] = "file"
  <2>1. At(j, {"done"})
    BY <1>1, <1>4 DEF JobInv, Controlled
  <2>2. StatusOf(j) = IF file[j] = NoFile THEN "failed" ELSE file[j].status
    <3>1. Rejected(j) <=> file[j] = NoFile
      BY <1>4 DEF Rejected
    <3> QED BY <1>4, <3>1 DEF StatusOf
  <2>3. file[j] # NoFile => file[j].status \in {"running"} \cup Terminal
    BY <1>1 DEF JobInv, Shaped, File
  <2>4. file[j] = NoFile => ~Finished(j)
    BY DEF NoFile, Finished, Terminal
  <2> QED BY <1>1, <1>2, <1>3, <1>4, <2>1, <2>2, <2>3, <2>4 DEF Terminal, Agrees, At
<1>5. CASE ctl.active[j] = "await"
  <2>1. At(j, {"done"}) /\ task[j].out # "refused"
    BY <1>1, <1>5 DEF Settled, JobInv, Controlled
  <2>2. StatusOf(j) = IF task[j].out = "rejected" THEN "failed" ELSE task[j].out
    <3>1. Rejected(j) <=> task[j].out = "rejected"
      BY <1>5 DEF Rejected
    <3> QED BY <1>5, <3>1 DEF StatusOf
  <2> QED BY <1>1, <1>2, <1>3, <1>5, <2>1, <2>2 DEF Terminal, Agrees, Explained, At
<1>6. CASE ctl.active[j] = "start"
  <2>1. At(j, {"done"}) \/ (j \in Background /\ ~At(j, Begins))
    BY <1>6 DEF Settled, Begins
  <2>2. StatusOf(j) = IF task[j].out = "refused" \/ (j \notin Background /\ task[j].out = "rejected") THEN "failed"
                      ELSE IF j \in Background THEN "running" ELSE task[j].out
    <3>1. Rejected(j) <=> task[j].out = "refused" \/ (j \notin Background /\ task[j].out = "rejected")
      BY <1>6 DEF Rejected
    <3> QED BY <1>6, <3>1 DEF StatusOf
  <2>3. task[j].out \in {"refused", "rejected"} => At(j, {"done"})
    BY <1>1 DEF JobInv, Shaped
  <2> QED BY <1>1, <1>2, <1>3, <1>6, <2>1, <2>2, <2>3 DEF Terminal, Agrees, Explained, At, Begins
<1> QED BY <1>1, <1>4, <1>5, <1>6

\* The owner is where it was, but for what it waits for.
LEMMA WaitingLess ==
    ASSUME JobsInv, NEW active \in [Jobs -> {"no", "start", "await", "file"}], ctl' = [ctl EXCEPT !.active = active]
    PROVE  /\ ctl' \in Control /\ ctl'.pc = ctl.pc /\ ctl'.cur = ctl.cur /\ ctl'.todo = ctl.todo /\ ctl'.snap = ctl.snap
           /\ ctl'.active = active /\ ctl'.queue = ctl.queue /\ ctl'.limit = ctl.limit
BY DEF JobsInv, JobsTypeOK, Control

LEMMA ReleaseKeeps == JobsInv /\ Release => Keeps
<1> SUFFICES ASSUME JobsInv, Release PROVE Keeps
  OBVIOUS
<1> DEFINE active == [j \in Jobs |-> IF j \in Handed THEN "no" ELSE ctl.active[j]]
<1>1. active \in [Jobs -> {"no", "start", "await", "file"}] /\ ctl' = [ctl EXCEPT !.active = active]
  BY DEF Release, JobsInv, JobsTypeOK, Control
<1>2. ASSUME NEW k \in Jobs PROVE active[k] = ctl.active[k] \/ (active[k] = "no" /\ ctl.active[k] # "start")
  BY DEF Handed
<1> HIDE DEF active
<1>3. /\ ctl' \in Control /\ ctl'.pc = ctl.pc /\ ctl'.cur = ctl.cur /\ ctl'.todo = ctl.todo /\ ctl'.snap = ctl.snap
      /\ ctl'.active = active
  BY <1>1, WaitingLess
<1>4. Hushes /\ left' \in Nat /\ UNCHANGED <<file, task, worker, past, log, requests, missed>> /\ ctl.pc = "dispatch"
  BY UnchangedHushes DEF Release, supervisor, JobsInv, JobsTypeOK, SupervisorTypeOK
<1>5. log' \in Log /\ SupervisorTypeOK' /\ \A k \in Jobs : Shaped(k)' /\ Recorded(k)' /\ (Occupies(k)' => Occupies(k))
  BY <1>4, HushKeeps DEF JobsInv, JobsTypeOK
<1>6. ASSUME NEW k \in Jobs PROVE Controlled(k)' /\ Unowned(k)'
  <2>1. Controlled(k)
    BY DEF JobsInv, JobInv
  <2>2. Controlled(k)'
    BY <1>2, <1>3, <1>4, <2>1 DEF Controlled, Explained, Controller, At, Live, Finished, Fresh
  <2> QED BY <1>3, <1>4, <2>2 DEF Unowned, Controller, Controlling
<1> QED BY <1>3, <1>4, <1>5, <1>6 DEF Keeps, JobsInv, JobsTypeOK, JobInv, Starting

\* A settled job is put on record.
LEMMA SettledKeeps ==
    ASSUME JobsInv, UNCHANGED <<supervisor, left, requests, missed>>, ctl.pc \in {"dispatch", "wait"},
           NEW j \in Jobs, ctl.active[j] # "no", Settled(j), Observe(j, StatusOf(j)),
           NEW waits \in {"no", Waiting(j)}, ctl' = [ctl EXCEPT !.active[j] = waits]
    PROVE  Keeps
<1> DEFINE active == [ctl.active EXCEPT ![j] = waits]
<1>1. active \in [Jobs -> {"no", "start", "await", "file"}] /\ ctl' = [ctl EXCEPT !.active = active]
      /\ active[j] = waits /\ \A k \in Jobs \ {j} : active[k] = ctl.active[k]
  BY DEF JobsInv, JobsTypeOK, Control, Waiting
<1> HIDE DEF active
<1>2. /\ ctl' \in Control /\ ctl'.pc = ctl.pc /\ ctl'.cur = ctl.cur /\ ctl'.todo = ctl.todo /\ ctl'.snap = ctl.snap
      /\ ctl'.active = active
  BY <1>1, WaitingLess
<1>3. /\ Hushes /\ left' \in Nat /\ UNCHANGED <<file, task, worker, past>>
      /\ JobInv(j) /\ task[j] \in Task /\ log.jobs[j] \in {"running"} \cup Terminal
  BY UnchangedHushes DEF supervisor, JobsInv, JobsTypeOK, SupervisorTypeOK, JobInv, Controlled, Fresh, Log, Unfinished
<1>4. /\ SupervisorTypeOK' /\ log' \in Log
      /\ \A k \in Jobs : Shaped(k)' /\ Recorded(k)' /\ (Occupies(k)' => Occupies(k))
      /\ \A k \in Jobs \ {j} : log'.jobs[k] = log.jobs[k]
      /\ log'.jobs[j] \in {"running"} \cup Terminal
      /\ log'.jobs[j] = "running" => log.jobs[j] = "running" /\ StatusOf(j) = "running"
  <2>1. CASE log.jobs[j] = "running"
    <3>1. /\ StatusOf(j) \in {"running"} \cup Terminal
          /\ StatusOf(j) \in Terminal =>
               Still(j) /\ Agrees(j, StatusOf(j))
      BY <2>1, StatusIsKnown
    <3> DEFINE status == StatusOf(j)
    <3> HIDE DEF status
    <3>2. /\ SupervisorTypeOK' /\ log' \in Log
          /\ \A k \in Jobs : Shaped(k)' /\ Recorded(k)' /\ (Occupies(k)' => Occupies(k))
          /\ log'.jobs[j] = IF log.jobs[j] \in Terminal THEN log.jobs[j] ELSE status
          /\ \A k \in Jobs \ {j} : log'.jobs[k] = log.jobs[k]
      BY <1>3, <2>1, <3>1, ObserveKeeps DEF Fresh, Terminal, status
    <3> QED BY <2>1, <3>1, <3>2 DEF status, Terminal
  <2>2. CASE log.jobs[j] \in Terminal
    BY <1>3, <2>2, HushKeeps DEF Observe, JobsInv, JobsTypeOK, Terminal
  <2> QED BY <1>3, <2>1, <2>2
<1>5. waits # "no" => /\ waits = IF Awaitable(j) THEN "await" ELSE "file"
                      /\ Awaitable(j) => ~task[j].zombie /\ ~At(j, Begins \cup {"none"}) /\ task[j].out # "refused"
  BY <1>3 DEF Waiting, Awaitable, Live, JobInv, Shaped, At, Begins
<1>6. log'.jobs[j] = "running" => ~At(j, Begins) /\ ~At(j, {"none"}) /\ ~task[j].zombie
                                  /\ (~Awaitable(j) => At(j, {"done"}))
  BY <1>3, <1>4, StatusIsKnown DEF Awaitable, Live, At, Begins
<1>7. ASSUME NEW k \in Jobs PROVE Controlled(k)' /\ Unowned(k)'
  <2>1. Controlled(k) /\ Controlled(j)
    BY DEF JobsInv, JobInv
  <2>2. CASE k # j
    BY <1>1, <1>2, <1>3, <1>4, <2>1, <2>2 DEF Controlled, Explained, Controller, Controlling, At, Live, Finished,
          Fresh, Unowned
  <2>3. CASE k = j
    <3>1. Controlled(j)'
      BY <1>1, <1>2, <1>3, <1>4, <1>5, <1>6, <2>1 DEF Controlled, Explained, Controller, Controlling, At, Begins,
            Finished, Fresh, Terminal
    <3> QED BY <1>2, <2>3, <3>1 DEF Unowned, Controller, Controlling
  <2> QED BY <2>2, <2>3
<1> QED BY <1>2, <1>3, <1>4, <1>7 DEF Keeps, JobsInv, JobsTypeOK, JobInv, Starting

LEMMA RaceKeeps == JobsInv /\ (\E j \in Jobs : Race(j)) => Keeps
<1> SUFFICES ASSUME JobsInv, NEW j \in Jobs, Race(j) PROVE Keeps
  OBVIOUS
<1>1. ctl.active[j] # "no" /\ ctl.pc = "dispatch"
  BY DEF Race, ActiveJobs
<1>2. CASE HoldsPlace(j)
  BY <1>1, <1>2, SettledKeeps DEF Race
<1>3. CASE ~HoldsPlace(j)
  BY <1>1, <1>3, SettledKeeps DEF Race
<1> QED BY <1>2, <1>3

LEMMA CollectKeeps == JobsInv /\ (\E j \in Jobs : Collect(j)) => Keeps
<1> SUFFICES ASSUME JobsInv, NEW j \in Jobs, Collect(j) PROVE Keeps
  OBVIOUS
<1>1. ctl.active[j] # "no" /\ ctl.pc = "wait" /\ ctl.sig \in {"none", "cancelled", "failed"} /\ left \in Nat
  BY DEF Collect, ActiveJobs, JobsInv, JobsTypeOK, SupervisorTypeOK, Control
<1>2. CASE Failing(ctl.sig) /\ UNCHANGED log
  BY <1>1, <1>2, FailingKeeps DEF Collect, Controller, Controlling
<1>3. CASE Observe(j, StatusOf(j)) /\ ctl' = [ctl EXCEPT !.active[j] = "no"] /\ UNCHANGED task
  BY <1>1, <1>3, SettledKeeps DEF Collect, supervisor
<1> QED BY <1>2, <1>3 DEF Collect

LEMMA InspectKeeps == JobsInv /\ (\E j \in Jobs : Inspect(j)) => Keeps
<1> SUFFICES ASSUME JobsInv, NEW j \in Jobs, Inspect(j) PROVE Keeps
  OBVIOUS
<1>1. /\ Hushes /\ left' \in Nat /\ UNCHANGED <<file, task, worker, past, requests, missed>> /\ ctl.pc = "inspect"
      /\ JobInv(j) /\ file[j] \in File
  BY UnchangedHushes DEF Inspect, supervisor, JobsInv, JobsTypeOK, SupervisorTypeOK
<1>2. /\ ctl' \in Control /\ ctl'.pc = ctl.pc /\ ctl'.cur = ctl.cur /\ ctl'.active = ctl.active
  BY DEF Inspect, JobsInv, JobsTypeOK, Control
<1>3. /\ SupervisorTypeOK' /\ log' \in Log
      /\ \A k \in Jobs : Shaped(k)' /\ Recorded(k)' /\ (Occupies(k)' => Occupies(k))
      /\ \A k \in Jobs : log'.jobs[k] = log.jobs[k] \/ log'.jobs[k] \in Terminal
  <2>1. CASE file[j] = NoFile
    BY <1>1, <2>1, HushKeeps DEF Inspect, JobsInv, JobsTypeOK
  <2>2. CASE file[j] # NoFile
    <3>1. /\ Observe(j, file[j].status) /\ file[j].status \in {"running"} \cup Terminal
          /\ log.jobs[j] \in {"running"} \cup Terminal
      BY <1>1, <2>2 DEF Inspect, JobInv, Shaped, File, Recorded, Controlled, Controller, Controlling, JobsInv, JobsTypeOK,
          Log, Unfinished
    <3>2. file[j].status \in Terminal /\ j \notin missed => Still(j)
      BY <1>1 DEF JobInv, Recorded, Finished
    <3> QED BY <1>1, <3>1, <3>2, ObserveKeeps DEF Fresh, Terminal, Agrees
  <2> QED BY <2>1, <2>2
<1>4. ASSUME NEW k \in Jobs PROVE Controlled(k)' /\ Unowned(k)'
  <2>1. Controlled(k)
    BY DEF JobsInv, JobInv
  <2>2. Controlled(k)'
    BY <1>1, <1>2, <1>3, <2>1 DEF Controlled, Explained, Controller, At, Live, Finished, Fresh, Terminal
  <2> QED BY <1>1, <1>2, <2>2 DEF Unowned, Controller, Controlling
<1> QED BY <1>1, <1>2, <1>3, <1>4 DEF Keeps, JobsInv, JobsTypeOK, JobInv, Starting

LEMMA SettleKeeps == JobsInv /\ (\E j \in Jobs : Settle(j)) => Keeps
<1> SUFFICES ASSUME JobsInv, NEW j \in Jobs, Settle(j) PROVE Keeps
  OBVIOUS
<1>1. /\ left' \in Nat /\ UNCHANGED <<file, task, worker, past, requests, missed>> /\ ctl.pc = "settle" /\ j \in ctl.todo
      /\ JobInv(j) /\ log \in Log /\ log.jobs[j] \in {"none"} \cup Unfinished \cup Terminal
  BY DEF Settle, supervisor, JobsInv, JobsTypeOK, SupervisorTypeOK, Log
<1>2. CASE Awaitable(j)
  <2>1. ctl' = [ctl EXCEPT !.cur = j] /\ UNCHANGED log
    BY <1>2 DEF Settle
  <2>2. /\ ctl' \in Control /\ ctl'.pc = ctl.pc /\ ctl'.todo = ctl.todo /\ ctl'.active = ctl.active
    BY <2>1 DEF JobsInv, JobsTypeOK, Control
  <2>3. Hushes
    BY <1>1, UnchangedHushes
  <2>4. SupervisorTypeOK' /\ \A k \in Jobs : Shaped(k)' /\ Recorded(k)' /\ (Occupies(k)' => Occupies(k))
    BY <1>1, <2>1, <2>3, HushKeeps
  <2>5. ASSUME NEW k \in Jobs PROVE Controlled(k)' /\ Unowned(k)'
    <3>1. Controlled(k)
      BY DEF JobsInv, JobInv
    <3>2. Controlled(k)'
      BY <1>1, <2>1, <2>2, <3>1 DEF Controlled, Explained, Controller, At, Live, Finished, Fresh
    <3> QED BY <1>1, <2>2, <3>2 DEF Unowned, Controller, Controlling
  <2> QED BY <1>1, <2>1, <2>2, <2>4, <2>5 DEF Keeps, JobsInv, JobsTypeOK, JobInv, Starting
<1>3. CASE ~Awaitable(j)
  <2>1. Observe(j, SettledStatus(j)) /\ ctl' = [ctl EXCEPT !.cur = None, !.todo = @ \ {j}]
    BY <1>3 DEF Settle
  <2>2. /\ ctl' \in Control /\ ctl'.pc = ctl.pc /\ ctl'.active = ctl.active /\ ctl'.todo = ctl.todo \ {j}
    BY <2>1 DEF JobsInv, JobsTypeOK, Control
  <2>3. SettledStatus(j) \in Terminal /\ Agrees(j, SettledStatus(j))
    BY DEF SettledStatus, Agrees, Finished, Terminal
  <2>4. log.jobs[j] \notin Terminal /\ j \notin missed => Still(j)
    <3>1. CASE log.jobs[j] \in {"none", "pending"}
      BY <1>1, <3>1 DEF JobInv, Recorded, Fresh, Still, At, NoTask, Begins
    <3>2. CASE log.jobs[j] = "running"
      <4>1. ~task[j].zombie /\ ~At(j, {"none"}) /\ (Live(j) => task[j].aborted)
        BY <1>1, <3>2 DEF JobInv, Controlled, Controller, Controlling
      <4>2. At(j, {"done"} \cup Begins)
        BY <1>3, <4>1 DEF Awaitable, Live, At, Begins
      <4> QED BY <1>1, <4>1, <4>2 DEF JobInv, Shaped, Still, Live, At, Begins, Spawned
    <3> QED BY <1>1, <3>1, <3>2 DEF Unfinished
  <2> DEFINE status == SettledStatus(j)
  <2> HIDE DEF status
  <2>5. /\ SupervisorTypeOK' /\ log' \in Log
        /\ \A k \in Jobs : Shaped(k)' /\ Recorded(k)' /\ (Occupies(k)' => Occupies(k))
        /\ \A k \in Jobs \ {j} : log'.jobs[k] = log.jobs[k]
        /\ log'.jobs[j] \in Terminal
    <3>1. status \in Terminal /\ Observe(j, status) /\ Agrees(j, status)
      BY <2>1, <2>3 DEF status
    <3> QED BY <1>1, <2>4, <3>1, ObserveKeeps DEF Terminal
  <2>6. ASSUME NEW k \in Jobs PROVE Controlled(k)' /\ Unowned(k)'
    <3>1. Controlled(k)
      BY DEF JobsInv, JobInv
    <3>2. Controlled(k)'
      BY <1>1, <2>2, <2>5, <3>1 DEF Controlled, Explained, Controller, At, Live, Finished, Fresh, Terminal, Unfinished
    <3> QED BY <1>1, <2>2, <3>2 DEF Unowned, Controller, Controlling
  <2> QED BY <1>1, <2>2, <2>5, <2>6 DEF Keeps, JobsInv, JobsTypeOK, JobInv, Starting
<1> QED BY <1>2, <1>3

-----------------------------------------------------------------------------
(* Dispatching: a job is put on record, and then its task is started       *)

LEMMA NextInQueue ==
    ASSUME JobsInv, Startable # {}
    PROVE  \E i \in Startable :
             /\ i = CHOOSE k \in Startable : \A m \in Startable : k <= m
             /\ ctl.queue[i] \in Jobs /\ ctl.queue[i] \in Range(ctl.queue) /\ ctl.queue # <<>>
             /\ RemoveAt(ctl.queue, i) \in Seq(Jobs) /\ Range(RemoveAt(ctl.queue, i)) \subseteq Range(ctl.queue)
             /\ Cardinality(ActiveJobs) < ctl.limit
             /\ Cardinality(LaneActive(LaneOf[ctl.queue[i]])) < LaneLimit
<1>1. ctl.queue \in Seq(Jobs)
  BY DEF JobsInv, JobsTypeOK, Control
<1>2. Startable \in SUBSET Nat
  BY <1>1 DEF Startable
<1> DEFINE i == CHOOSE k \in Startable : \A m \in Startable : k <= m
<1>3. i \in Startable
  BY <1>2, LeastIndex
<1> HIDE DEF i
<1>4. /\ i \in DOMAIN ctl.queue /\ Cardinality(ActiveJobs) < ctl.limit
      /\ Cardinality(LaneActive(LaneOf[ctl.queue[i]])) < LaneLimit
  BY <1>3 DEF Startable
<1>5. ctl.queue # <<>>
  BY <1>4
<1>6. /\ RemoveAt(ctl.queue, i) \in Seq(Jobs) /\ Range(RemoveAt(ctl.queue, i)) \subseteq Range(ctl.queue)
      /\ ctl.queue[i] \in Jobs /\ ctl.queue[i] \in Range(ctl.queue)
  BY <1>1, <1>4, Removed
<1> QED BY <1>3, <1>4, <1>5, <1>6 DEF i

LEMMA StartNextKeeps ==
    ASSUME JobsInv, StartNext
    PROVE  Keeps
<1>1. PICK i \in Startable :
             /\ i = CHOOSE k \in Startable : \A m \in Startable : k <= m
             /\ ctl.queue[i] \in Jobs /\ RemoveAt(ctl.queue, i) \in Seq(Jobs)
  BY NextInQueue DEF StartNext
<1>0. PICK j \in Jobs : j = ctl.queue[i]
  BY <1>1
<1> DEFINE rest == [ctl EXCEPT !.queue = RemoveAt(@, i)]
<1>2. /\ ctl.pc = "dispatch" /\ UNCHANGED <<file, worker, past, left, requests, missed>>
      /\ \/ ctl.sig # "none" /\ Failing(ctl.sig) /\ UNCHANGED log
         \/ ctl' = rest /\ UNCHANGED <<log, task>>
         \/ /\ ~Registered(j) /\ log' = [log EXCEPT !.jobs[j] = "pending"]
            /\ ctl' = [rest EXCEPT !.pc = "start", !.cur = j] /\ UNCHANGED task
  BY <1>0, <1>1 DEF StartNext
<1>3. /\ ctl \in Control /\ log \in Log /\ left' \in Nat /\ j \in Jobs
      /\ rest \in Control /\ rest.pc = ctl.pc /\ rest.cur = ctl.cur /\ rest.todo = ctl.todo /\ rest.active = ctl.active
  BY <1>1, <1>2 DEF JobsInv, JobsTypeOK, SupervisorTypeOK, Control
<1> HIDE DEF rest
<1>4. CASE Failing(ctl.sig) /\ UNCHANGED log
  BY <1>2, <1>3, <1>4, FailingKeeps DEF Controller, Controlling, Control
<1>5. CASE ctl' = rest /\ UNCHANGED <<log, task>>
  <2>1. Hushes
    BY <1>2, <1>5, UnchangedHushes
  <2>2. SupervisorTypeOK' /\ \A k \in Jobs : Shaped(k)' /\ Recorded(k)' /\ (Occupies(k)' => Occupies(k))
    BY <1>2, <1>3, <1>5, <2>1, HushKeeps
  <2>3. ASSUME NEW k \in Jobs PROVE Controlled(k)' /\ Unowned(k)'
    <3>1. Controlled(k)
      BY DEF JobsInv, JobInv
    <3>2. Controlled(k)'
      BY <1>2, <1>3, <1>5, <3>1 DEF Controlled, Explained, Controller, At, Live, Finished, Fresh
    <3> QED BY <1>2, <1>3, <1>5, <3>2 DEF Unowned, Controller, Controlling
  <2> QED BY <1>2, <1>3, <1>5, <2>2, <2>3 DEF Keeps, JobsInv, JobsTypeOK, JobInv, Starting
<1>6. CASE /\ ~Registered(j) /\ log' = [log EXCEPT !.jobs[j] = "pending"]
           /\ ctl' = [rest EXCEPT !.pc = "start", !.cur = j] /\ UNCHANGED task
  <2>1. /\ log' \in Log /\ log'.jobs[j] = "pending" /\ \A k \in Jobs \ {j} : log'.jobs[k] = log.jobs[k]
    BY <1>3, <1>6 DEF Log, Unfinished
  <2>2. /\ ctl' \in Control /\ ctl'.pc = "start" /\ ctl'.cur = j /\ ctl'.todo = ctl.todo /\ ctl'.active = ctl.active
    BY <1>3, <1>6 DEF Control, Controlling
  <2>3. \A k \in Jobs : JobInv(k) /\ log.jobs[k] # "pending"
    BY <1>2 DEF JobsInv, JobInv, Controlled, Controller, Controlling
  <2>4. /\ log.jobs[j] = "none" /\ Fresh(j) /\ file[j] = NoFile /\ task[j] = NoTask /\ worker[j] = "none" /\ past[j].spawns = 0
        /\ j \notin missed /\ ctl.active[j] = "no"
    BY <1>3, <1>6, <2>3 DEF Registered, JobInv, Recorded, Controlled, Fresh
  <2>5. SupervisorTypeOK' /\ UNCHANGED <<file, task, worker, past, missed>>
    BY <1>2, <1>3, <1>6 DEF JobsInv, JobsTypeOK, SupervisorTypeOK
  <2>6. ASSUME NEW k \in Jobs PROVE JobInv(k)' /\ (Occupies(k)' => Occupies(k))
    <3>1. JobInv(k)
      BY <2>3
    <3>2. CASE k # j
      BY <1>2, <2>1, <2>2, <2>3, <2>5, <3>1, <3>2 DEF JobInv, Shaped, Recorded, Controlled, Explained, Unowned,
            Occupies, Controller,
            Controlling, At, Live, Finished, Fresh, Still, Told, Agrees
    <3>3. CASE k = j
      <4>1. Shaped(j)'
        BY <2>5, <3>1, <3>3 DEF JobInv, Shaped, At
      <4>2. Recorded(j)'
        BY <2>1, <2>4, <2>5 DEF Recorded, Fresh, Still, At, Finished, NoFile, NoTask, Terminal, Begins
      <4>3. Controlled(j)'
        BY <2>1, <2>2, <2>4, <2>5 DEF Controlled, Controller, Controlling
      <4>4. Unowned(j)' /\ ~Occupies(j)'
        BY <2>1, <2>2 DEF Unowned, Controller, Controlling, Occupies
      <4> QED BY <3>3, <4>1, <4>2, <4>3, <4>4 DEF JobInv
    <3> QED BY <3>2, <3>3
  <2> QED BY <1>2, <1>3, <2>1, <2>2, <2>5, <2>6 DEF Keeps, JobsInv, JobsTypeOK, Starting
<1> QED BY <1>2, <1>4, <1>5, <1>6

\* Of the steps of an owner, only this one lets a further job have a worker.
LEMMA MarkRunningKeeps ==
    ASSUME JobsInv, MarkRunning
    PROVE  JobsInv' /\ \A k \in Jobs : Occupies(k)' => Occupies(k) \/ k = ctl.cur
<1>0. PICK j \in Jobs : j = ctl.cur
  BY DEF MarkRunning, JobsInv, Starting
<1>1. /\ ctl.pc = "start" /\ UNCHANGED <<file, worker, past, requests, missed>> /\ j \in Jobs /\ log.jobs[j] = "pending"
      /\ ctl \in Control /\ log \in Log /\ left \in Nat /\ task \in [Jobs -> Task]
  BY <1>0 DEF MarkRunning, JobsInv, JobsTypeOK, SupervisorTypeOK, Starting
<1>2. /\ file[j] = NoFile /\ task[j] = NoTask /\ worker[j] = "none" /\ past[j].spawns = 0
      /\ j \notin missed /\ ctl.active[j] = "no" /\ Fresh(j)
  BY <1>0, <1>1 DEF JobsInv, JobInv, Recorded, Controlled, Fresh, Controller, Controlling
<1>3. ASSUME NEW k \in Jobs \ {j} PROVE JobInv(k) /\ log.jobs[k] # "pending"
  BY <1>0, <1>1 DEF JobsInv, JobInv, Controlled, Controller, Controlling
<1>4. CASE /\ Observe(j, "running") /\ task' = Started(j, ctl.sig # "none") /\ UNCHANGED left
           /\ ctl' = [ctl EXCEPT !.pc = "dispatch", !.cur = None, !.active[j] = "start"]
  <2>1. log' \in Log /\ log'.jobs[j] = "running" /\ \A k \in Jobs \ {j} : log'.jobs[k] = log.jobs[k]
    BY <1>1, <1>4 DEF Observe, Log, Unfinished, Terminal
  <2>2. /\ task' \in [Jobs -> Task] /\ \A k \in Jobs \ {j} : task'[k] = task[k]
        /\ task'[j].at = "writing" /\ ~task'[j].zombie /\ task'[j].out = "none"
    BY <1>1, <1>4 DEF Started, NoTask, Task
  <2>3. /\ ctl' \in Control /\ ctl'.pc = "dispatch" /\ ctl'.todo = ctl.todo /\ ctl'.active[j] = "start"
        /\ \A k \in Jobs \ {j} : ctl'.active[k] = ctl.active[k]
    BY <1>1, <1>4 DEF Control, Controlling
  <2>4. SupervisorTypeOK'
    BY <1>1, <1>4, <2>2 DEF JobsInv, JobsTypeOK, SupervisorTypeOK
  <2>5. ASSUME NEW k \in Jobs PROVE JobInv(k)' /\ (Occupies(k)' => Occupies(k) \/ k = j)
    <3>1. CASE k # j
      BY <1>1, <1>3, <2>1, <2>2, <2>3, <3>1 DEF JobInv, Shaped, Recorded, Controlled, Explained, Unowned, Occupies,
            Controller,
            Controlling, At, Live, Finished, Fresh, Still, Told, Agrees
    <3>2. CASE k = j
      <4>1. Shaped(j)'
        BY <1>1, <1>2, <2>2 DEF Shaped, At, Begins, Spawned, NoFile, Terminal
      <4>2. Recorded(j)'
        BY <1>1, <1>2, <2>1 DEF Recorded, Fresh, Finished, NoFile, Terminal
      <4>3. Controlled(j)'
        BY <1>0, <1>1, <1>2, <2>1, <2>2, <2>3 DEF Controlled, Fresh, At, Begins, Finished, NoFile, Terminal
      <4>4. Unowned(j)'
        BY <2>3 DEF Unowned, Controller, Controlling
      <4> QED BY <3>2, <4>1, <4>2, <4>3, <4>4 DEF JobInv
    <3> QED BY <3>1, <3>2
  <2> QED BY <1>0, <1>1, <2>1, <2>3, <2>4, <2>5 DEF JobsInv, JobsTypeOK, Starting
<1>5. CASE /\ Trouble("runner") /\ Observe(j, "failed") /\ UNCHANGED task
           /\ ctl' = [ctl EXCEPT !.pc = "dispatch", !.cur = None]
  <2>1. left' \in Nat /\ Still(j) /\ ~Finished(j) /\ At(j, {"none", "done"})
    BY <1>1, <1>2, <1>5 DEF Trouble, Still, Finished, At, NoTask, NoFile, Terminal, Begins
  <2>2. /\ SupervisorTypeOK' /\ log' \in Log
        /\ \A k \in Jobs : Shaped(k)' /\ Recorded(k)' /\ (Occupies(k)' => Occupies(k))
        /\ log'.jobs[j] = "failed" /\ \A k \in Jobs \ {j} : log'.jobs[k] = log.jobs[k]
    BY <1>1, <1>5, <2>1, ObserveKeeps DEF Terminal, Agrees
  <2>3. /\ ctl' \in Control /\ ctl'.pc = "dispatch" /\ ctl'.todo = ctl.todo /\ ctl'.active = ctl.active
    BY <1>1, <1>5 DEF Control, Controlling
  <2>4. ASSUME NEW k \in Jobs PROVE Controlled(k)' /\ Unowned(k)'
    <3>1. Controlled(k)
      BY DEF JobsInv, JobInv
    <3>2. Controlled(k)'
      BY <1>0, <1>1, <1>2, <1>3, <1>5, <2>2, <2>3, <3>1 DEF Controlled, Explained, Controller, Controlling, At, Live,
            Finished, Fresh
    <3> QED BY <2>3, <3>2 DEF Unowned, Controller, Controlling
  <2> QED BY <1>0, <1>1, <2>2, <2>3, <2>4 DEF JobsInv, JobsTypeOK, JobInv, Starting
<1> QED BY <1>0, <1>4, <1>5 DEF MarkRunning

-----------------------------------------------------------------------------
(* The owner is lost                                                       *)

LEMMA LossKeeps == JobsInv /\ (Crash \/ Takeover) => Keeps
<1> SUFFICES ASSUME JobsInv, Crash \/ Takeover PROVE Keeps
  OBVIOUS
<1>1. /\ ctl' = Down /\ UNCHANGED <<file, worker, past, log, requests, missed>> /\ left' \in Nat
      /\ task \in [Jobs -> Task] /\ log \in Log /\ missed \subseteq Jobs
  BY DEF Crash, Takeover, Trouble, JobsInv, JobsTypeOK, SupervisorTypeOK
<1>2. ASSUME NEW k \in Jobs
      PROVE  \/ task'[k] = task[k] /\ task[k].zombie
             \/ task'[k] = [task[k] EXCEPT !.zombie = TRUE] /\ ~At(k, {"none"})
             \/ task'[k] = NoTask /\ (worker[k] = "alive" => ~At(k, {"done"}))
  <2>1. worker[k] = "alive" => ~At(k, {"done"})
    BY DEF JobsInv, JobInv, Shaped, At, Spawned
  <2>2. task[k].zombie => ~At(k, {"none"})
    BY DEF JobsInv, JobInv, Shaped, NoTask
  <2>3. CASE Crash
    BY <2>1, <2>3 DEF Crash, Owned
  <2>4. CASE Takeover
    BY <2>1, <2>2, <2>4 DEF Takeover, Live, At
  <2> QED BY <2>3, <2>4
<1>3. task' \in [Jobs -> Task]
  <2>1. NoTask \in Task
    BY DEF NoTask, Task
  <2>2. ASSUME NEW k \in Jobs PROVE task'[k] \in Task
    BY <1>1, <1>2, <2>1 DEF Task
  <2>3. task' = [k \in Jobs |-> task'[k]]
    BY DEF Crash, Takeover
  <2> QED BY <2>2, <2>3
<1>4. ASSUME NEW k \in Jobs PROVE JobInv(k)' /\ (Occupies(k)' => Occupies(k))
  <2>1. JobInv(k) /\ task[k] \in Task
    BY <1>1 DEF JobsInv
  <2>2. Controlled(k)'
    BY <1>1 DEF Controlled, Down, Controller, Controlling
  <2>3. CASE task'[k] = task[k] /\ task[k].zombie
    BY <1>1, <2>1, <2>2, <2>3 DEF JobInv, Shaped, Recorded, Unowned, Occupies, Down, At, Finished, Fresh, Still, Told, Agrees
  <2>4. CASE task'[k] = [task[k] EXCEPT !.zombie = TRUE] /\ ~At(k, {"none"})
    <3>1. /\ task'[k].at = task[k].at /\ task'[k].aborted = task[k].aborted /\ task'[k].out = task[k].out
          /\ task'[k].zombie /\ ~At(k, {"none"})
      BY <2>1, <2>4 DEF Task, Live, At
    <3> QED BY <1>1, <2>1, <2>2, <3>1 DEF JobInv, Shaped, Recorded, Unowned, Occupies, Down, At, Finished, Fresh,
          Still, Told, Agrees,
              NoTask
  <2>5. CASE task'[k] = NoTask /\ (worker[k] = "alive" => ~At(k, {"done"}))
    <3>1. task'[k].at = "none" /\ task'[k].out = "none"
      BY <2>5 DEF NoTask
    <3>2. Shaped(k)'
      BY <1>1, <2>1, <2>5, <3>1 DEF JobInv, Shaped, At, Begins, Spawned, Terminal
    <3>3. Recorded(k)'
      BY <1>1, <2>1, <2>5, <3>1 DEF JobInv, Recorded, At, Begins, Finished, Fresh, Still, Told, Agrees
    <3>4. Unowned(k)' /\ (Occupies(k)' => Occupies(k))
      BY <1>1, <2>5, <3>1 DEF Unowned, Occupies, Down, At
    <3> QED BY <2>2, <3>2, <3>3, <3>4 DEF JobInv
  <2> QED BY <1>2, <2>3, <2>4, <2>5
<1>5. SupervisorTypeOK' /\ ctl' \in Control /\ Starting'
  BY <1>1, <1>3, DownIsControl DEF JobsInv, JobsTypeOK, SupervisorTypeOK, Starting, Down
<1> QED BY <1>1, <1>4, <1>5 DEF Keeps, JobsInv, JobsTypeOK

-----------------------------------------------------------------------------
(* The calls that find no owner                                            *)

LEMMA OwnerlessBegins == JobsInv /\ (Reconcile \/ CancelWithoutOwner) => Keeps
<1> SUFFICES ASSUME JobsInv, Reconcile \/ CancelWithoutOwner PROVE Keeps
  OBVIOUS
<1>1. /\ UNCHANGED <<file, task, worker, past, left, log, requests, missed>> /\ ctl.pc = "down"
      /\ log \in Log /\ left \in Nat /\ file \in [Jobs -> File] /\ Down \in Control
  BY DownIsControl DEF Reconcile, CancelWithoutOwner, supervisor, JobsInv, JobsTypeOK, SupervisorTypeOK
<1>2. SupervisorTypeOK' /\ \A k \in Jobs : Shaped(k)' /\ Recorded(k)' /\ (Occupies(k)' => Occupies(k))
  BY <1>1, UnchangedHushes, HushKeeps
<1>3. ASSUME NEW k \in Jobs PROVE ~task[k].zombie /\ ~At(k, {"none"}) => log.jobs[k] \in Terminal
  BY <1>1 DEF JobsInv, JobInv, Unowned, Controller, Controlling
<1>4. CASE Reconcile
  <2>1. ctl' = [Down EXCEPT !.pc = "reconcile", !.todo = Unsettled, !.snap = file] /\ Unsettled \in SUBSET Jobs
    BY <1>4 DEF Reconcile, Unsettled
  <2>2. ctl' \in Control /\ ctl'.pc = "reconcile" /\ ctl'.todo = Unsettled /\ ctl'.snap = file /\ ctl'.active = Down.active
    BY <1>1, <2>1 DEF Control, Recovering
  <2>3. ASSUME NEW k \in Jobs PROVE Controlled(k)' /\ Unowned(k)'
    BY <1>1, <1>3, <2>2 DEF Controlled, Unowned, Down, Controller, Controlling, Unsettled, At
  <2> QED BY <1>1, <1>2, <2>2, <2>3 DEF Keeps, JobsInv, JobsTypeOK, JobInv, Starting
<1>5. CASE CancelWithoutOwner
  <2>1. PICK pc \in {"cancelRun", "cancelJob"}, todo \in SUBSET Unsettled :
            /\ ctl' = [Down EXCEPT !.pc = pc, !.todo = todo]
            /\ \A j \in todo : ~SeenAlive(j, file[j])
    <3>1. CASE /\ \A j \in Unsettled : ~SeenAlive(j, file[j])
               /\ ctl' = [Down EXCEPT !.pc = "cancelRun", !.todo = Unsettled]
      BY <3>1
    <3>2. CASE \E j \in requests.jobs \cap Unsettled :
                  ~SeenAlive(j, file[j]) /\ ctl' = [Down EXCEPT !.pc = "cancelJob", !.todo = {j}]
      <4>1. PICK j \in requests.jobs \cap Unsettled :
                  ~SeenAlive(j, file[j]) /\ ctl' = [Down EXCEPT !.pc = "cancelJob", !.todo = {j}]
        BY <3>2
      <4>2. {j} \in SUBSET Unsettled
        OBVIOUS
      <4> QED BY <4>1, <4>2
    <3> QED BY <1>5, <3>1, <3>2 DEF CancelWithoutOwner
  <2>2. todo \in SUBSET Jobs
    BY DEF Unsettled
  <2>3. ctl' \in Control /\ ctl'.pc = pc /\ ctl'.todo = todo /\ ctl'.active = Down.active
    BY <1>1, <2>1, <2>2 DEF Control, Recovering
  <2>4. ASSUME NEW k \in Jobs PROVE Controlled(k)' /\ Unowned(k)'
    BY <1>1, <1>3, <2>1, <2>3 DEF Controlled, Unowned, Down, Controller, Controlling, Unsettled, At, SeenAlive
  <2> QED BY <1>1, <1>2, <2>3, <2>4 DEF Keeps, JobsInv, JobsTypeOK, JobInv, Starting
<1> QED BY <1>4, <1>5

LEMMA ReconcileJobKeeps == JobsInv /\ (\E j \in Jobs : ReconcileJob(j)) => Keeps
<1> SUFFICES ASSUME JobsInv, NEW j \in Jobs, ReconcileJob(j) PROVE Keeps
  OBVIOUS
<1>1. /\ UNCHANGED <<file, task, worker, past, left, requests>> /\ ctl.pc = "reconcile" /\ j \in ctl.todo
      /\ ~SeenAlive(j, ctl.snap[j]) /\ ctl' = [ctl EXCEPT !.todo = @ \ {j}]
      /\ ctl \in Control /\ left \in Nat /\ JobInv(j) /\ log \in Log
  BY DEF ReconcileJob, Survives, supervisor, JobsInv, JobsTypeOK, SupervisorTypeOK
<1>2. /\ ctl' \in Control /\ ctl'.pc = ctl.pc /\ ctl'.todo = ctl.todo \ {j} /\ ctl'.active = ctl.active
      /\ ctl'.snap = ctl.snap
  BY <1>1 DEF Control
<1>3. /\ log.jobs[j] \in Unfinished
      /\ ~task[j].zombie => file[j] = ctl.snap[j] /\ At(j, {"none"})
      /\ ctl.snap[j].status \in Terminal => file[j].status = ctl.snap[j].status
  BY <1>1 DEF JobInv, Unowned, Controller, Controlling, Unfinished, Terminal
<1>4. CASE ctl.snap[j].status \in Terminal /\ Observe(j, ctl.snap[j].status) /\ UNCHANGED missed
  <2>1. j \notin missed => Still(j)
    BY <1>1, <1>3, <1>4 DEF JobInv, Recorded, Finished
  <2> QED
    <3>1. /\ SupervisorTypeOK' /\ log' \in Log /\ missed' \subseteq Jobs
          /\ \A k \in Jobs : Shaped(k)' /\ Recorded(k)' /\ (Occupies(k)' => Occupies(k))
          /\ \A k \in Jobs \ {j} : log'.jobs[k] = log.jobs[k]
          /\ log'.jobs[j] \in Terminal
      BY <1>1, <1>3, <1>4, <2>1, ObserveKeeps DEF Terminal, Agrees
    <3>2. ASSUME NEW k \in Jobs PROVE Controlled(k)' /\ Unowned(k)'
      <4>1. JobInv(k)
        BY DEF JobsInv
      <4> QED BY <1>1, <1>2, <3>1, <4>1 DEF JobInv, Controlled, Unowned, Controller, Controlling, At, Live, Finished, Fresh,
                SeenAlive, Terminal
    <3> QED BY <1>1, <1>2, <3>1, <3>2 DEF Keeps, JobsInv, JobsTypeOK, JobInv, Starting
<1>5. CASE /\ ctl.snap[j].status \notin Terminal /\ Observe(j, IF j \in Work THEN "ambiguous" ELSE "failed")
           /\ missed' = IF Untold(j, ctl.snap[j]) THEN missed \cup {j} ELSE missed
  <2>1. Untold(j, ctl.snap[j]) => task[j].zombie \/ At(j, {"none"})
    BY <1>3
  <2>2. ~Untold(j, ctl.snap[j]) => /\ worker[j] # "alive" /\ At(j, {"none"}) /\ ~Finished(j)
    BY <1>1, <1>3, <1>5 DEF Untold, SeenAlive, Finished
  <2>3. j \notin missed' => Still(j) /\ ~Finished(j) /\ At(j, {"none", "done"})
    BY <1>5, <2>2 DEF Still, At, Begins
  <2>4. /\ SupervisorTypeOK' /\ log' \in Log /\ missed' \subseteq Jobs
        /\ \A k \in Jobs : Shaped(k)' /\ Recorded(k)' /\ (Occupies(k)' => Occupies(k))
        /\ \A k \in Jobs \ {j} : log'.jobs[k] = log.jobs[k]
        /\ log'.jobs[j] \in Terminal
    <3>1. PICK status \in {"ambiguous", "failed"} : Observe(j, status)
      BY <1>5
    <3>2. missed' = missed \/ (missed' = missed \cup {j} /\ (task[j].zombie \/ At(j, {"none"})))
      BY <1>5, <2>1
    <3> QED BY <1>1, <2>3, <3>1, <3>2, ObserveKeeps DEF Terminal, Agrees
  <2>5. ASSUME NEW k \in Jobs PROVE Controlled(k)' /\ Unowned(k)'
    <3>1. JobInv(k)
      BY DEF JobsInv
    <3> QED BY <1>1, <1>2, <2>4, <3>1 DEF JobInv, Controlled, Unowned, Controller, Controlling, At, Live, Finished, Fresh,
              SeenAlive, Terminal
  <2> QED BY <1>1, <1>2, <2>4, <2>5 DEF Keeps, JobsInv, JobsTypeOK, JobInv, Starting
<1> QED BY <1>4, <1>5 DEF ReconcileJob

\* A terminal status is written for a job that has none on disk.
LEMMA CancelJobKeeps == JobsInv /\ (\E j \in Jobs : CancelJob(j)) => Keeps
<1> SUFFICES ASSUME JobsInv, NEW j \in Jobs, CancelJob(j) PROVE Keeps
  OBVIOUS
<1>1. /\ UNCHANGED <<task, worker, past, left, requests>> /\ ctl.pc \in {"cancelRun", "cancelJob"} /\ j \in ctl.todo
      /\ ctl \in Control /\ left \in Nat /\ JobInv(j) /\ log \in Log /\ file[j] \in File
  BY DEF CancelJob, JobsInv, JobsTypeOK, SupervisorTypeOK
<1>2. /\ log.jobs[j] \in Unfinished
      /\ ~task[j].zombie => ~SeenAlive(j, file[j]) /\ At(j, {"none"})
  BY <1>1 DEF JobInv, Unowned, Controller, Controlling, Unfinished, Terminal
<1>3. CASE Finished(j)
  <2>1. /\ Observe(j, file[j].status) /\ UNCHANGED <<file, missed>>
        /\ ctl' \in Control /\ ctl'.pc = ctl.pc /\ ctl'.todo = ctl.todo \ {j} /\ ctl'.active = ctl.active
    BY <1>1, <1>3 DEF CancelJob, Control
  <2>2. file[j].status \in Terminal /\ (j \notin missed => Still(j))
    BY <1>1, <1>3 DEF JobInv, Recorded, Finished
  <2>3. /\ SupervisorTypeOK' /\ log' \in Log /\ missed' \subseteq Jobs
        /\ \A k \in Jobs : Shaped(k)' /\ Recorded(k)' /\ (Occupies(k)' => Occupies(k))
        /\ \A k \in Jobs \ {j} : log'.jobs[k] = log.jobs[k]
        /\ log'.jobs[j] \in Terminal
    BY <1>1, <2>1, <2>2, ObserveKeeps DEF Terminal, Agrees
  <2>4. ASSUME NEW k \in Jobs PROVE Controlled(k)' /\ Unowned(k)'
    <3>1. JobInv(k)
      BY DEF JobsInv
    <3> QED BY <1>1, <2>1, <2>3, <3>1 DEF JobInv, Controlled, Unowned, Controller, Controlling, At, Live, Finished, Fresh,
              SeenAlive, Terminal
  <2> QED BY <1>1, <2>1, <2>3, <2>4 DEF Keeps, JobsInv, JobsTypeOK, JobInv, Starting
<1>4. CASE ~Finished(j)
  <2>1. /\ Store(j, "ambiguous", file[j].pid) /\ UNCHANGED log
        /\ missed' = IF Untold(j, file[j]) THEN missed \cup {j} ELSE missed
        /\ ctl' \in Control /\ ctl'.pc = ctl.pc /\ ctl'.todo = ctl.todo /\ ctl'.active = ctl.active
    BY <1>1, <1>4 DEF CancelJob, Control
  <2>2. FileOf(j, "ambiguous", file[j].pid)
    BY <1>1, <2>1, Stores DEF JobsInv, JobsTypeOK, File, Terminal
  <2>3. /\ Untold(j, file[j]) => (task[j].zombie \/ At(j, {"none"})) /\ ~Fresh(j)
        /\ ~Untold(j, file[j]) => Still(j)
    BY <1>1, <1>2 DEF Untold, SeenAlive, Still, At, Begins, JobInv, Recorded, Fresh, NoTask
  <2>4. SupervisorTypeOK' /\ missed' \subseteq Jobs
    BY <1>1, <2>1, <2>2 DEF JobsInv, JobsTypeOK, SupervisorTypeOK, FileOf
  <2>5. ASSUME NEW k \in Jobs PROVE JobInv(k)' /\ (Occupies(k)' => Occupies(k))
    <3>1. JobInv(k)
      BY DEF JobsInv
    <3>2. CASE k # j
      <4>1. file'[k] = file[k] /\ (k \in missed' <=> k \in missed)
        BY <2>1, <2>2, <3>2 DEF FileOf
      <4> QED BY <1>1, <2>1, <3>1, <4>1 DEF JobInv, Shaped, Recorded, Controlled, Unowned, Occupies, Controller, Controlling,
                At, Live, Finished, Fresh, Still, Told, Agrees, SeenAlive
    <3>3. CASE k = j
      <4>0. file'[j].status = "ambiguous" /\ file'[j].pid = file[j].pid
        BY <2>2 DEF FileOf
      <4>1. Shaped(j)'
        BY <1>1, <1>4, <4>0 DEF JobInv, Shaped, At, Finished
      <4>2. Recorded(j)'
        BY <1>1, <1>2, <2>1, <2>3, <4>0 DEF JobInv, Recorded, At, Finished, Fresh, Still, Unfinished, Terminal
      <4>3. Controlled(j)'
        BY <1>1, <2>1 DEF JobInv, Controlled, Controller, Controlling, Fresh
      <4>4. Unowned(j)' /\ (Occupies(j)' => Occupies(j))
        BY <1>1, <2>1, <4>0 DEF JobInv, Unowned, Occupies, Controller, Controlling, At, SeenAlive
      <4> QED BY <3>3, <4>1, <4>2, <4>3, <4>4 DEF JobInv
    <3> QED BY <3>2, <3>3
  <2> QED BY <1>1, <2>1, <2>4, <2>5 DEF Keeps, JobsInv, JobsTypeOK, Starting
<1> QED BY <1>3, <1>4

LEMMA RepairKeeps == JobsInv /\ (\E j \in Jobs : Repair(j)) => Keeps
<1> SUFFICES ASSUME JobsInv, NEW j \in Jobs, Repair(j) PROVE Keeps
  OBVIOUS
<1>1. /\ UNCHANGED <<task, worker, past, left, log, requests, ctl, missed>> /\ ~Finished(j)
      /\ log.jobs[j] \in {"cancelled", "ambiguous"} /\ Store(j, log.jobs[j], file[j].pid)
      /\ JobInv(j) /\ file[j] \in File
  BY DEF Repair, dispatchVars, JobsInv, JobsTypeOK, SupervisorTypeOK
<1>2. FileOf(j, log.jobs[j], file[j].pid)
  BY <1>1, Stores DEF JobsInv, JobsTypeOK, File, Terminal
<1>3. SupervisorTypeOK'
  BY <1>1, <1>2 DEF JobsInv, JobsTypeOK, SupervisorTypeOK, FileOf
<1>4. ASSUME NEW k \in Jobs PROVE JobInv(k)' /\ (Occupies(k)' => Occupies(k))
  <2>1. JobInv(k)
    BY DEF JobsInv
  <2>2. CASE k # j
    <3>1. file'[k] = file[k]
      BY <1>2, <2>2 DEF FileOf
    <3> QED BY <1>1, <2>1, <3>1 DEF JobInv, Shaped, Recorded, Controlled, Explained, Unowned, Occupies, Controller,
              At, Live, Finished, Fresh, Still, Told, Agrees, SeenAlive
  <2>3. CASE k = j
    <3>1. file'[j].status = log.jobs[j] /\ file'[j].pid = file[j].pid
      BY <1>2 DEF FileOf
    <3>2. Shaped(j)'
      BY <1>1, <3>1 DEF JobInv, Shaped, At, Finished, Terminal
    <3>3. Recorded(j)'
      BY <1>1, <3>1 DEF JobInv, Recorded, Fresh, Still, Told, Agrees, Terminal, At
    <3>4. Controlled(j)' /\ Unowned(j)' /\ (Occupies(j)' => Occupies(j))
      BY <1>1, <3>1 DEF JobInv, Controlled, Unowned, Occupies, Controller, At, Live, Fresh, Unfinished, Terminal
    <3> QED BY <2>3, <3>2, <3>3, <3>4 DEF JobInv
  <2> QED BY <2>2, <2>3
<1> QED BY <1>1, <1>3, <1>4 DEF Keeps, JobsInv, JobsTypeOK, Starting

-----------------------------------------------------------------------------
(* The limits                                                              *)

\* What the limits allow to run at the same time
Admissible(S) ==
    /\ S \cap Work # {} => Cardinality(S) <= 1
    /\ Cardinality(S) <= MaxConcurrency
    /\ \A j \in S : Cardinality({k \in S : LaneOf[k] = LaneOf[j]}) <= LaneLimit

Occupied == {j \in Jobs : Occupies(j)}

\* The jobs in the way of the one that is about to start
Mates == {j \in ActiveJobs : LaneOf[j] = LaneOf[ctl.cur]}

\* While jobs are queued, every job that may have a worker is counted; the next
\* one was admitted on that count; and with work about, only one at a time.
Limits ==
    /\ Admissible(Occupied)
    /\ ctl.pc = "start" \/ (ctl.pc = "dispatch" /\ ctl.queue # <<>>) =>
            \A j \in Jobs : log.jobs[j] = "running" /\ ~At(j, {"done"}) => ctl.active[j] # "no"
    /\ ctl.pc = "start" => /\ Cardinality(ActiveJobs) < ctl.limit
                           /\ Cardinality(Mates) < LaneLimit
    /\ ctl.pc \in {"dispatch", "start"} =>
            \A j \in Work : \/ j \in Range(ctl.queue) \/ log.jobs[j] = "running"
                            \/ (ctl.pc = "start" /\ j = ctl.cur)
                            => ctl.limit = 1

LEMMA FewerAdmissible ==
    ASSUME NEW S, NEW T \in SUBSET Jobs, S \subseteq T, Admissible(T)
    PROVE  Admissible(S)
<1>1. IsFiniteSet(T) /\ IsFiniteSet(S) /\ Cardinality(S) <= Cardinality(T)
      /\ Cardinality(S) \in Nat /\ Cardinality(T) \in Nat
  BY CommandsAssumption, FS_Subset, FS_CardinalityType
<1>2. ASSUME NEW j \in S
      PROVE  Cardinality({k \in S : LaneOf[k] = LaneOf[j]}) <= LaneLimit
  <2> DEFINE A == {k \in S : LaneOf[k] = LaneOf[j]}
             B == {k \in T : LaneOf[k] = LaneOf[j]}
  <2>1. A \subseteq B /\ IsFiniteSet(B)
    BY <1>1, FS_Subset
  <2>2. Cardinality(B) <= LaneLimit
    BY DEF Admissible
  <2> HIDE DEF A, B
  <2>3. Cardinality(A) <= Cardinality(B) /\ Cardinality(A) \in Nat /\ Cardinality(B) \in Nat
    BY <2>1, FS_Subset, FS_CardinalityType
  <2>4. Cardinality(A) <= LaneLimit
    BY <2>2, <2>3, LimitsAssumption
  <2> QED BY <2>4 DEF A
<1> QED BY <1>1, <1>2, LimitsAssumption DEF Admissible

LEMMA StillAdmissible == Limits /\ (\A k \in Jobs : Occupies(k)' => Occupies(k)) => Admissible(Occupied')
<1> SUFFICES ASSUME Limits, \A k \in Jobs : Occupies(k)' => Occupies(k) PROVE Admissible(Occupied')
  OBVIOUS
<1>1. Occupied' \subseteq Occupied /\ Occupied \in SUBSET Jobs /\ Admissible(Occupied)
  BY DEF Occupied, Limits
<1> DEFINE S == Occupied'
           T == Occupied
<1> HIDE DEF S, T
<1>2. S \subseteq T /\ T \in SUBSET Jobs /\ Admissible(T)
  BY <1>1 DEF S, T
<1>3. Admissible(S)
  BY <1>2, FewerAdmissible
<1> QED BY <1>3 DEF S

\* The owner is not dispatching, or its queue and its limits are as they were.
LEMMA LimitsStay ==
    ASSUME Limits, \A k \in Jobs : Occupies(k)' => Occupies(k),
           \/ ctl'.pc \notin {"dispatch", "start"}
           \/ /\ ctl'.pc = ctl.pc /\ ctl'.queue = ctl.queue /\ ctl'.limit = ctl.limit /\ ctl'.cur = ctl.cur
              /\ ctl'.active = ctl.active
              /\ \A k \in Jobs : /\ log'.jobs[k] = "running" => log.jobs[k] = "running"
                                 /\ At(k, {"done"}) => task'[k].at = "done"
    PROVE  Limits'
<1>1. Admissible(Occupied')
  BY StillAdmissible
<1>2. CASE ctl'.pc \notin {"dispatch", "start"}
  BY <1>1, <1>2 DEF Limits
<1>3. CASE /\ ctl'.pc = ctl.pc /\ ctl'.queue = ctl.queue /\ ctl'.limit = ctl.limit /\ ctl'.cur = ctl.cur
           /\ ctl'.active = ctl.active
           /\ \A k \in Jobs : /\ log'.jobs[k] = "running" => log.jobs[k] = "running"
                              /\ At(k, {"done"}) => task'[k].at = "done"
  <2>1. ActiveJobs' = ActiveJobs /\ Mates' = Mates
    BY <1>3 DEF ActiveJobs, Mates
  <2>2. ctl'.pc = "start" => /\ Cardinality(ActiveJobs') < ctl'.limit
                             /\ Cardinality(Mates') < LaneLimit
    BY <1>3, <2>1 DEF Limits
  <2>4. ctl'.pc = "start" \/ (ctl'.pc = "dispatch" /\ ctl'.queue # <<>>) =>
            \A j \in Jobs : log'.jobs[j] = "running" /\ ~At(j, {"done"})' => ctl'.active[j] # "no"
    BY <1>3 DEF Limits, At
  <2>5. ctl'.pc \in {"dispatch", "start"} =>
            \A j \in Work : \/ j \in Range(ctl'.queue) \/ log'.jobs[j] = "running"
                            \/ (ctl'.pc = "start" /\ j = ctl'.cur)
                            => ctl'.limit = 1
    BY <1>3, JobsAssumption DEF Limits
  <2> QED BY <1>1, <1>3, <2>1, <2>2, <2>4, <2>5 DEF Limits
<1> QED BY <1>2, <1>3

LEMMA BegunLimits ==
    ASSUME JobsInv, Limits, Keeps, log'.jobs = log.jobs, NEW c \in Commands, ctl' = Begun(c, "none")
    PROVE  Limits'
<1>1. \A k \in Jobs : Occupies(k)' => Occupies(k)
  BY DEF Keeps
<1>2. CASE c.action # "dispatch"
  BY <1>1, <1>2, BegunIs, LimitsStay
<1>3. CASE c.action = "dispatch"
  <2>1. /\ ctl'.pc = "dispatch" /\ ctl'.active = RunningNow
        /\ ctl'.queue = c.jobs /\ ctl'.limit = GlobalLimit(c.jobs)
    BY <1>3, BegunIs
  <2>2. \A j \in Jobs : log.jobs[j] = "running" => ctl'.active[j] # "no"
    BY <2>1 DEF RunningNow, Waiting
  <2>3. \A j \in Work : j \in Range(c.jobs) \/ log.jobs[j] = "running" => ctl'.limit = 1
    BY <2>1, JobsAssumption DEF GlobalLimit
  <2>4. Admissible(Occupied')
    BY <1>1, StillAdmissible
  <2> QED BY <2>1, <2>2, <2>3, <2>4 DEF Limits
<1> QED BY <1>2, <1>3

LEMMA StartNextLimits == JobsInv /\ Limits /\ Keeps /\ StartNext => Limits'
<1> SUFFICES ASSUME JobsInv, Limits, Keeps, StartNext PROVE Limits'
  OBVIOUS
<1>1. PICK i \in Startable :
             /\ i = CHOOSE k \in Startable : \A m \in Startable : k <= m
             /\ ctl.queue[i] \in Jobs /\ ctl.queue[i] \in Range(ctl.queue) /\ ctl.queue # <<>>
             /\ RemoveAt(ctl.queue, i) \in Seq(Jobs) /\ Range(RemoveAt(ctl.queue, i)) \subseteq Range(ctl.queue)
             /\ Cardinality(ActiveJobs) < ctl.limit
             /\ Cardinality(LaneActive(LaneOf[ctl.queue[i]])) < LaneLimit
  BY NextInQueue DEF StartNext
<1>2. PICK j \in Jobs : j = ctl.queue[i]
  BY <1>1
<1>3. PICK queue \in Seq(Jobs) : queue = RemoveAt(ctl.queue, i)
  BY <1>1
<1>4. Range(queue) \subseteq Range(ctl.queue)
  BY <1>1, <1>3
<1>5. /\ ctl.pc = "dispatch" /\ UNCHANGED <<file, worker, past, left, requests, missed>> /\ ctl \in Control /\ log \in Log
      /\ \/ Failing(ctl.sig)
         \/ ctl' = [ctl EXCEPT !.queue = queue] /\ UNCHANGED <<log, task>>
         \/ /\ log' = [log EXCEPT !.jobs[j] = "pending"] /\ UNCHANGED task
            /\ ctl' = [ctl EXCEPT !.queue = queue, !.pc = "start", !.cur = j]
  BY <1>1, <1>2, <1>3 DEF StartNext, JobsInv, JobsTypeOK
<1>6. \A k \in Jobs : Occupies(k)' => Occupies(k)
  BY DEF Keeps
<1>7. Admissible(Occupied')
  BY <1>6, StillAdmissible
<1>8. CASE Failing(ctl.sig)
  BY <1>6, <1>8, LimitsStay DEF Failing, Down
<1>9. CASE ctl' = [ctl EXCEPT !.queue = queue] /\ UNCHANGED <<log, task>>
  <2>1. ctl'.pc = "dispatch" /\ ctl'.queue = queue /\ ctl'.active = ctl.active /\ ctl'.limit = ctl.limit
    BY <1>5, <1>9 DEF Control
  <2>2. \A k \in Jobs : log'.jobs[k] = "running" /\ ~At(k, {"done"})' => ctl'.active[k] # "no"
    BY <1>1, <1>5, <1>9, <2>1 DEF Limits, At
  <2>3. \A k \in Work : k \in Range(ctl'.queue) \/ log'.jobs[k] = "running" => ctl'.limit = 1
    BY <1>4, <1>5, <1>9, <2>1 DEF Limits
  <2> QED BY <1>7, <2>1, <2>2, <2>3 DEF Limits
<1>10. CASE /\ log' = [log EXCEPT !.jobs[j] = "pending"] /\ UNCHANGED task
            /\ ctl' = [ctl EXCEPT !.queue = queue, !.pc = "start", !.cur = j]
  <2>1. /\ ctl'.pc = "start" /\ ctl'.queue = queue /\ ctl'.active = ctl.active /\ ctl'.limit = ctl.limit /\ ctl'.cur = j
    BY <1>5, <1>10 DEF Control
  <2>2. \A k \in Jobs : log'.jobs[k] = "running" => log.jobs[k] = "running"
    BY <1>5, <1>10 DEF Log
  <2>3. \A k \in Jobs : log'.jobs[k] = "running" /\ ~At(k, {"done"})' => ctl'.active[k] # "no"
    BY <1>1, <1>5, <1>10, <2>1, <2>2 DEF Limits, At
  <2>4. \A k \in Work : k \in Range(ctl'.queue) \/ log'.jobs[k] = "running" \/ k = j => ctl'.limit = 1
    BY <1>1, <1>2, <1>4, <1>5, <2>1, <2>2, JobsAssumption DEF Limits
  <2>5. Cardinality(ActiveJobs') < ctl'.limit /\ Cardinality(Mates') < LaneLimit
    BY <1>1, <1>2, <2>1 DEF ActiveJobs, LaneActive, Mates
  <2> QED BY <1>7, <2>1, <2>3, <2>4, <2>5 DEF Limits
<1> QED BY <1>5, <1>8, <1>9, <1>10

LEMMA OneMore ==
    ASSUME NEW S, IsFiniteSet(S), NEW x
    PROVE  /\ IsFiniteSet(S \cup {x}) /\ Cardinality(S \cup {x}) \in Nat
           /\ Cardinality(S \cup {x}) <= Cardinality(S) + 1
<1>1. IsFiniteSet(S \cup {x}) /\ Cardinality(S \cup {x}) = IF x \in S THEN Cardinality(S) ELSE Cardinality(S) + 1
  BY FS_AddElement
<1>2. Cardinality(S) \in Nat /\ Cardinality(S \cup {x}) \in Nat
  BY <1>1, FS_CardinalityType
<1> QED BY <1>1, <1>2

LEMMA MarkRunningLimits == JobsInv /\ Limits /\ MarkRunning => Limits'
<1> SUFFICES ASSUME JobsInv, Limits, MarkRunning PROVE Limits'
  OBVIOUS
<1>1. PICK j \in Jobs : j = ctl.cur
  BY DEF MarkRunning, JobsInv, Starting
<1>2. /\ ctl.pc = "start" /\ UNCHANGED <<file, worker, past, requests, missed>> /\ ctl \in Control /\ log \in Log
      /\ log.jobs[j] = "pending" /\ ctl.limit \in Nat /\ ctl.limit <= MaxConcurrency /\ task \in [Jobs -> Task]
  BY <1>1, LimitsAssumption DEF MarkRunning, JobsInv, JobsTypeOK, SupervisorTypeOK, Control, Starting
<1>3. \A k \in Jobs : Occupies(k)' => Occupies(k) \/ k = j
  BY <1>1, MarkRunningKeeps
<1>4. /\ \A k \in Jobs : Occupies(k) => k \in ActiveJobs
      /\ Cardinality(ActiveJobs) < ctl.limit /\ Cardinality(Mates) < LaneLimit
  BY <1>2 DEF Limits, Occupies, ActiveJobs
<1>5. /\ IsFiniteSet(ActiveJobs) /\ IsFiniteSet(Mates) /\ Cardinality(ActiveJobs) \in Nat /\ Cardinality(Mates) \in Nat
      /\ ActiveJobs \in SUBSET Jobs
  BY CommandsAssumption, FS_Subset, FS_CardinalityType DEF ActiveJobs, Mates
<1>6. CASE /\ Observe(j, "running") /\ task' = Started(j, ctl.sig # "none")
           /\ ctl' = [ctl EXCEPT !.pc = "dispatch", !.cur = None, !.active[j] = "start"]
  <2>1. log'.jobs[j] = "running" /\ \A k \in Jobs \ {j} : log'.jobs[k] = log.jobs[k] /\ task'[k] = task[k]
    BY <1>2, <1>6 DEF Observe, Log, Terminal, Started
  <2>2. /\ ctl'.pc = "dispatch" /\ ctl'.limit = ctl.limit /\ ctl'.queue = ctl.queue /\ ctl'.active[j] = "start"
        /\ \A k \in Jobs \ {j} : ctl'.active[k] = ctl.active[k]
    BY <1>2, <1>6 DEF Control
  <2>3. \A k \in Jobs : log'.jobs[k] = "running" /\ ~At(k, {"done"})' => ctl'.active[k] # "no"
    BY <1>2, <2>1, <2>2 DEF Limits, At
  <2>4. \A k \in Work : k \in Range(ctl'.queue) \/ log'.jobs[k] = "running" => ctl'.limit = 1
    BY <1>1, <1>2, <2>1, <2>2, JobsAssumption DEF Limits
  <2> DEFINE S == Occupied'
             T == ActiveJobs \cup {j}
  <2>5. S \subseteq T /\ IsFiniteSet(T) /\ IsFiniteSet(S) /\ Cardinality(T) <= Cardinality(ActiveJobs) + 1
        /\ Cardinality(T) \in Nat /\ Cardinality(S) \in Nat /\ Cardinality(S) <= Cardinality(T)
    <3>1. S \subseteq T
      BY <1>3, <1>4 DEF Occupied
    <3>2. IsFiniteSet(T) /\ Cardinality(T) <= Cardinality(ActiveJobs) + 1
      BY <1>5, OneMore
    <3> HIDE DEF S, T
    <3> QED BY <3>1, <3>2, FS_Subset, FS_CardinalityType
  <2>6. Cardinality(S) <= MaxConcurrency
    BY <1>2, <1>4, <1>5, <2>5, LimitsAssumption
  <2>7. ASSUME S \cap Work # {} PROVE Cardinality(S) <= 1
    <3>1. PICK w \in Work : Occupies(w)'
      BY <2>7 DEF Occupied
    <3>2. log'.jobs[w] = "running"
      BY <3>1 DEF Occupies
    <3>3. ctl.limit = 1
      BY <2>2, <2>4, <3>2
    <3> QED BY <1>2, <1>4, <1>5, <2>5, <3>3
  <2>8. ASSUME NEW k \in S PROVE Cardinality({m \in S : LaneOf[m] = LaneOf[k]}) <= LaneLimit
    <3> DEFINE A == {m \in S : LaneOf[m] = LaneOf[k]}
    <3>1. CASE LaneOf[k] = LaneOf[j]
      <4>1. A \subseteq Mates \cup {j}
        BY <1>1, <1>3, <1>4, <3>1 DEF Mates, Occupied
      <4>2. IsFiniteSet(Mates \cup {j}) /\ Cardinality(Mates \cup {j}) <= Cardinality(Mates) + 1
        BY <1>5, OneMore
      <4> HIDE DEF A
      <4>3. Cardinality(A) <= Cardinality(Mates \cup {j}) /\ Cardinality(A) \in Nat /\ Cardinality(Mates \cup {j}) \in Nat
        BY <4>1, <4>2, FS_Subset, FS_CardinalityType
      <4>4. Cardinality(A) <= LaneLimit
        BY <1>4, <1>5, <4>2, <4>3, LimitsAssumption
      <4> QED BY <4>4 DEF A
    <3>2. CASE LaneOf[k] # LaneOf[j]
      <4>1. k \in Occupied /\ A \subseteq {m \in Occupied : LaneOf[m] = LaneOf[k]}
        BY <1>3, <3>2 DEF Occupied
      <4> DEFINE B == {m \in Occupied : LaneOf[m] = LaneOf[k]}
      <4>2. Cardinality(B) <= LaneLimit
        BY <4>1 DEF Limits, Admissible
      <4>3. IsFiniteSet(B)
        BY CommandsAssumption, FS_Subset DEF Occupied
      <4>4. A \subseteq B
        BY <4>1
      <4> HIDE DEF A, B
      <4>5. Cardinality(A) <= Cardinality(B) /\ Cardinality(A) \in Nat /\ Cardinality(B) \in Nat
        BY <4>3, <4>4, FS_Subset, FS_CardinalityType
      <4>6. Cardinality(A) <= LaneLimit
        BY <4>2, <4>5, LimitsAssumption
      <4> QED BY <4>6 DEF A
    <3> QED BY <3>1, <3>2
  <2>9. Admissible(S)
    BY <2>6, <2>7, <2>8 DEF Admissible
  <2> QED BY <2>2, <2>3, <2>4, <2>9 DEF Limits
<1>7. CASE /\ Observe(j, "failed") /\ UNCHANGED task
           /\ ctl' = [ctl EXCEPT !.pc = "dispatch", !.cur = None]
  <2>1. log'.jobs[j] = "failed" /\ \A k \in Jobs \ {j} : log'.jobs[k] = log.jobs[k]
    BY <1>2, <1>7 DEF Observe, Log, Terminal
  <2>2. ctl'.pc = "dispatch" /\ ctl'.limit = ctl.limit /\ ctl'.queue = ctl.queue /\ ctl'.active = ctl.active
    BY <1>2, <1>7 DEF Control
  <2>3. \A k \in Jobs : log'.jobs[k] = "running" /\ ~At(k, {"done"})' => ctl'.active[k] # "no"
    BY <1>2, <1>7, <2>1, <2>2 DEF Limits, At
  <2>4. \A k \in Work : k \in Range(ctl'.queue) \/ log'.jobs[k] = "running" => ctl'.limit = 1
    BY <1>1, <1>2, <2>1, <2>2, JobsAssumption DEF Limits
  <2>5. \A k \in Jobs : Occupies(k)' => Occupies(k)
    BY <1>3, <2>1 DEF Occupies
  <2>6. Admissible(Occupied')
    BY <2>5, StillAdmissible
  <2> QED BY <2>2, <2>3, <2>4, <2>6 DEF Limits
<1> QED BY <1>1, <1>6, <1>7 DEF MarkRunning

LEMMA ReleaseLimits == JobsInv /\ Limits /\ Keeps /\ Release => Limits'
<1> SUFFICES ASSUME JobsInv, Limits, Keeps, Release PROVE Limits'
  OBVIOUS
<1>1. ctl' = [ctl EXCEPT !.active = [j \in Jobs |-> IF j \in Handed THEN "no" ELSE @[j]]] /\ ctl \in Control
  BY DEF Release, JobsInv, JobsTypeOK
<1>2. /\ ctl'.pc = ctl.pc /\ ctl'.queue = <<>> /\ ctl'.limit = ctl.limit /\ ctl.pc = "dispatch" /\ ctl.queue = <<>>
      /\ log' = log
  BY <1>1 DEF Release, Control
<1>3. Admissible(Occupied')
  BY StillAdmissible DEF Keeps
<1>4. \A k \in Work : k \in Range(ctl'.queue) \/ log'.jobs[k] = "running" => ctl'.limit = 1
  BY <1>2 DEF Limits
<1> QED BY <1>2, <1>3, <1>4 DEF Limits

\* A job that was put on record and may still have a worker keeps its place.
LEMMA RaceLimits == JobsInv /\ Limits /\ Keeps /\ (\E j \in Jobs : Race(j)) => Limits'
<1> SUFFICES ASSUME JobsInv, Limits, Keeps, NEW j \in Jobs, Race(j) PROVE Limits'
  OBVIOUS
<1>1. /\ ctl.pc = "dispatch" /\ ctl.active[j] # "no" /\ Settled(j) /\ Observe(j, StatusOf(j))
      /\ ctl \in Control /\ log \in Log /\ task' = task
  BY DEF Race, ActiveJobs, JobsInv, JobsTypeOK, supervisor
<1>2. PICK waits \in {"no", "await", "file"} :
         ctl' = [ctl EXCEPT !.active[j] = waits] /\ (HoldsPlace(j) => waits # "no")
  BY DEF Race, Waiting
<1>3. /\ ctl'.pc = "dispatch" /\ ctl'.queue = ctl.queue /\ ctl'.limit = ctl.limit /\ ctl'.active[j] = waits
      /\ \A k \in Jobs \ {j} : ctl'.active[k] = ctl.active[k]
  BY <1>1, <1>2 DEF Control
<1>4. /\ log.jobs[j] \in {"running"} \cup Terminal
      /\ log'.jobs[j] = "running" => log.jobs[j] = "running" /\ StatusOf(j) = "running"
      /\ \A k \in Jobs \ {j} : log'.jobs[k] = log.jobs[k]
  BY <1>1 DEF Observe, Log, JobsInv, JobInv, Controlled, Fresh, Unfinished, Terminal
<1>5. log'.jobs[j] = "running" /\ ~At(j, {"done"}) /\ ctl.queue # <<>> => waits # "no"
  BY <1>1, <1>2, <1>4, StatusIsKnown DEF HoldsPlace
<1>6. ctl'.queue # <<>> => \A k \in Jobs : log'.jobs[k] = "running" /\ ~At(k, {"done"})' => ctl'.active[k] # "no"
  BY <1>1, <1>3, <1>4, <1>5 DEF Limits, At
<1>7. \A k \in Work : k \in Range(ctl'.queue) \/ log'.jobs[k] = "running" => ctl'.limit = 1
  BY <1>1, <1>3, <1>4, JobsAssumption DEF Limits
<1>8. Admissible(Occupied')
  BY StillAdmissible DEF Keeps
<1> QED BY <1>3, <1>6, <1>7, <1>8 DEF Limits

-----------------------------------------------------------------------------
(* Every step keeps the invariant and the limits                           *)

LEMMA LimitsNext == JobsInv /\ Limits /\ [JobsNext]_jobVars => JobsInv' /\ Limits'
<1> SUFFICES ASSUME JobsInv, Limits, [JobsNext]_jobVars PROVE JobsInv' /\ Limits'
  OBVIOUS
<1>1. ASSUME Keeps PROVE JobsInv' /\ \A k \in Jobs : Occupies(k)' => Occupies(k)
  BY <1>1 DEF Keeps
<1>2. ASSUME Keeps, ctl'.pc \notin {"dispatch", "start"} PROVE JobsInv' /\ Limits'
  BY <1>1, <1>2, LimitsStay
<1>3. ASSUME Keeps,
             ctl'.pc = ctl.pc, ctl'.queue = ctl.queue, ctl'.limit = ctl.limit, ctl'.cur = ctl.cur, ctl'.active = ctl.active,
             log' = log, \A k \in Jobs : At(k, {"done"}) => task'[k].at = "done"
      PROVE  JobsInv' /\ Limits'
  BY <1>1, <1>3, LimitsStay
<1>4. ctl \in Control /\ log \in Log /\ (\A k \in Jobs : Shaped(k)) /\ SupervisorTypeOK
  BY DEF JobsInv, JobsTypeOK, JobInv
<1>5. CASE Accept
  <2>1. Keeps
    BY <1>5, AcceptKeeps
  <2>2. PICK c \in Commands : log' = [log EXCEPT !.command = c, !.used = @ + 1] /\ ctl' = Begun(c, "none")
    BY <1>5 DEF Accept
  <2>3. log'.jobs = log.jobs
    BY <1>4, <2>2 DEF Log
  <2> QED BY <1>1, <2>1, <2>2, <2>3, BegunLimits
<1>6. CASE Continue
  <2>1. Keeps
    BY <1>6, ContinueKeeps
  <2>2. log' = [log EXCEPT !.run = "running"]
    BY <1>6 DEF Continue
  <2>3. log'.jobs = log.jobs /\ log.command \in Commands \cup {NoCommand}
    BY <1>4, <2>2 DEF Log
  <2>4. ctl' = [Down EXCEPT !.pc = "loop"] \/ (log.command \in Commands /\ ctl' = Begun(log.command, "none"))
    BY <1>6, <2>3 DEF Continue
  <2>5. CASE ctl' = [Down EXCEPT !.pc = "loop"]
    BY <1>2, <2>1, <2>5 DEF Down
  <2>6. CASE log.command \in Commands /\ ctl' = Begun(log.command, "none")
    BY <1>1, <2>1, <2>3, <2>6, BegunLimits
  <2> QED BY <2>4, <2>5, <2>6
<1>7. CASE StartNext
  BY <1>1, <1>7, StartNextKeeps, StartNextLimits
<1>8. CASE MarkRunning
  BY <1>8, MarkRunningKeeps, MarkRunningLimits
<1>9. CASE Release
  BY <1>1, <1>9, ReleaseKeeps, ReleaseLimits
<1>10. CASE \E j \in Jobs : Race(j)
  BY <1>1, <1>10, RaceKeeps, RaceLimits
<1>11. CASE Dispatched \/ Complete \/ Executed
  <2>1. ctl'.pc \notin {"dispatch", "start"}
    <3>1. CASE Dispatched
      BY <1>4, <3>1 DEF Dispatched, Goto, Failing, Down, Control
    <3>2. CASE Complete
      BY <1>4, <3>2 DEF Complete, Goto, Down, Control
    <3>3. CASE Executed
      BY <1>4, <3>3 DEF Executed, Goto, Control
    <3> QED BY <1>11, <3>1, <3>2, <3>3
  <2> QED BY <1>2, <1>11, <2>1, OwnerGoesOn
<1>12. CASE LoopFails
  BY <1>2, <1>12, LoopFailsKeeps DEF LoopFails, Failing, Down
<1>13. CASE Stop \/ Reconciled \/ CancelDone
  BY <1>2, <1>13, ReleasesKeep DEF Stop, Reconciled, CancelDone, Down
<1>14. CASE Crash \/ Takeover
  BY <1>2, <1>14, LossKeeps DEF Crash, Takeover, Down
<1>15. CASE Reconcile \/ CancelWithoutOwner
  BY <1>2, <1>15, OwnerlessBegins DEF Reconcile, CancelWithoutOwner, Down
<1>16. CASE \E j \in Jobs : Collect(j)
  <2>1. PICK j \in Jobs : Collect(j)
    BY <1>16
  <2>2. ctl'.pc \notin {"dispatch", "start"}
    BY <1>4, <2>1 DEF Collect, Failing, Down, Control
  <2> QED BY <1>2, <1>16, <2>2, CollectKeeps
<1>17. CASE \E j \in Jobs : Inspect(j)
  <2>1. PICK j \in Jobs : Inspect(j)
    BY <1>17
  <2>2. ctl'.pc \notin {"dispatch", "start"}
    BY <1>4, <2>1 DEF Inspect, Control
  <2> QED BY <1>2, <1>17, <2>2, InspectKeeps
<1>18. CASE \E j \in Jobs : Settle(j)
  <2>1. PICK j \in Jobs : Settle(j)
    BY <1>18
  <2>2. ctl'.pc \notin {"dispatch", "start"}
    BY <1>4, <2>1 DEF Settle, Control
  <2> QED BY <1>2, <1>18, <2>2, SettleKeeps
<1>19. CASE \E j \in Jobs : ReconcileJob(j)
  <2>1. PICK j \in Jobs : ReconcileJob(j)
    BY <1>19
  <2>2. ctl'.pc \notin {"dispatch", "start"}
    BY <1>4, <2>1 DEF ReconcileJob, Control
  <2> QED BY <1>2, <1>19, <2>2, ReconcileJobKeeps
<1>20. CASE \E j \in Jobs : CancelJob(j)
  <2>1. PICK j \in Jobs : CancelJob(j)
    BY <1>20
  <2>2. ctl'.pc \notin {"dispatch", "start"}
    BY <1>4, <2>1 DEF CancelJob, Control
  <2> QED BY <1>2, <1>20, <2>2, CancelJobKeeps
<1>21. CASE \E j \in Jobs : Repair(j)
  <2>1. PICK j \in Jobs : Repair(j)
    BY <1>21
  <2>2. UNCHANGED <<log, ctl, task>>
    BY <2>1 DEF Repair, dispatchVars
  <2>3. \A k \in Jobs : At(k, {"done"}) => task'[k].at = "done"
    BY <2>2 DEF At
  <2> QED BY <1>3, <1>21, <2>2, <2>3, RepairKeeps
<1>22. CASE RequestRun \/ Abort \/ ZombieStops \/ \E j \in Jobs : RequestJob(j) \/ SeeJobRequest(j)
  <2>1. Keeps
    BY <1>22, HearingsKeep
  <2>2. log' = log
    BY <1>22 DEF RequestRun, Abort, ZombieStops, RequestJob, SeeJobRequest, dispatchVars
  <2>3. /\ ctl'.pc = ctl.pc /\ ctl'.queue = ctl.queue /\ ctl'.limit = ctl.limit
        /\ ctl'.cur = ctl.cur /\ ctl'.active = ctl.active
    BY <1>4, <1>22 DEF RequestRun, Abort, ZombieStops, RequestJob, SeeJobRequest, dispatchVars, Control
  <2>4. \A k \in Jobs : At(k, {"done"}) => task'[k].at = "done"
    <3>1. task \in [Jobs -> Task]
      BY <1>4 DEF SupervisorTypeOK
    <3>2. CASE RequestRun \/ \E j \in Jobs : RequestJob(j)
      BY <3>2 DEF RequestRun, RequestJob, supervisor, At
    <3>3. CASE Abort \/ \E j \in Jobs : SeeJobRequest(j)
      <4>1. PICK js \in SUBSET Jobs : task' = Cancelled(js)
        BY <3>3 DEF Abort, SeeJobRequest
      <4> QED BY <3>1, <4>1 DEF Cancelled, At, Task
    <3>4. CASE ZombieStops
      BY <3>1, <3>4 DEF ZombieStops, At, Task
    <3> QED BY <1>22, <3>2, <3>3, <3>4
  <2> QED BY <1>3, <2>1, <2>2, <2>3, <2>4
<1>23. CASE \E j \in Jobs : (Supervise(j) \/ (ProgressFails(j) /\ UNCHANGED dispatchVars))
  <2>1. PICK j \in Jobs : TaskStep(j) \/ WorkerEnds(j) \/ ProgressFails(j)
    BY <1>23 DEF Supervise
  <2>2. UNCHANGED dispatchVars
    BY <1>23 DEF Supervise
  <2>3. ctl' = ctl /\ log' = log
    BY <2>2 DEF dispatchVars
  <2>4. Advances(j) /\ \A k \in Jobs \ {j} : Same(k)
    BY <1>4, <2>1, SupervisorSteps
  <2>5. \A k \in Jobs : At(k, {"done"}) => task'[k].at = "done"
    BY <2>4 DEF Advances, Same, At
  <2> QED BY <1>3, <2>1, <2>2, <2>3, <2>5, SuperviseKeeps
<1>24. CASE UNCHANGED jobVars
  BY <1>4, <1>24 DEF jobVars, supervisor, dispatchVars, JobsInv, Limits, JobsTypeOK, SupervisorTypeOK, JobInv,
     Shaped, Recorded, Controlled, Explained, Unowned, Starting, Fresh, Still, Told, Agrees, At, Live, Finished,
           Controller, SeenAlive, Occupies,
     Admissible, Occupied, ActiveJobs, Mates
<1> QED
  BY <1>5, <1>6, <1>7, <1>8, <1>9, <1>10, <1>11, <1>12, <1>13, <1>14, <1>15, <1>16, <1>17, <1>18, <1>19, <1>20, <1>21,
     <1>22, <1>23, <1>24
  DEF JobsNext, ControlStep

LEMMA InitialLimits == JobsInit => Limits
<1> SUFFICES ASSUME JobsInit PROVE Limits
  OBVIOUS
<1>1. Occupied = {} /\ ctl.pc = "down"
  BY DEF JobsInit, Occupied, Occupies, Down
<1> QED BY <1>1, FS_EmptySet, LimitsAssumption DEF Limits, Admissible

LEMMA Inductive == JobsSpec => [](JobsInv /\ Limits)
<1>1. JobsInit /\ left \in Nat => JobsInv /\ Limits
  BY Initially, InitialLimits
<1>2. JobsInv /\ Limits /\ [JobsNext]_jobVars => (JobsInv /\ Limits)'
  BY LimitsNext
<1> QED BY <1>1, <1>2, PTL DEF JobsSpec

-----------------------------------------------------------------------------
(* The theorems                                                            *)

\* The log, the requests, the control of the owner and every task and file of the
\* supervisor stay of their types; no job is started twice (past.spawns).
THEOREM JobsTyped == JobsSpec => []JobsTypeOK
<1>1. JobsInv => JobsTypeOK
  BY DEF JobsInv
<1> QED BY <1>1, Inductive, PTL

\* An ended job of the log has no worker, and what the log says of it is on disk,
\* unless it is "ambiguous", or a failure of which nothing is on disk or whose write
\* threw (startDispatchedJob, settleCancelledJobs, reconcileCueLineRuntime); jobs
\* whose worker could run unrecorded when they were given up (missed) are excepted.
THEOREM EndedJobsAreTrue == JobsSpec => []LogTellsTheTruth
<1>1. ASSUME JobsInv, NEW j \in Jobs \ missed, log.jobs[j] \in Terminal
      PROVE  /\ worker[j] # "alive"
             /\ \/ log.jobs[j] \in {"ambiguous", file[j].status}
                \/ log.jobs[j] = "failed" /\ (past[j].thrown \/ ~Finished(j))
  BY <1>1 DEF JobsInv, JobInv, Recorded, Still, Told, Agrees
<1>2. JobsInv => LogTellsTheTruth
  BY <1>1 DEF LogTellsTheTruth
<1> QED BY <1>2, Inductive, PTL

\* When no owner holds the lease, every job it had a task for has ended in the log
\* and has no worker (handleControllerFailure, the guard of complete).
THEOREM ReleaseIsQuiet == JobsSpec => []QuietAfterRelease
<1>1. ASSUME JobsInv, ctl.pc = "down", NEW j \in Jobs, task[j].at # "none" /\ ~task[j].zombie
      PROVE  worker[j] # "alive" /\ log.jobs[j] \in Terminal
  BY <1>1 DEF JobsInv, JobInv, Recorded, Unowned, Still, At, Controller, Controlling
<1>2. JobsInv => QuietAfterRelease
  BY <1>1 DEF QuietAfterRelease
<1> QED BY <1>2, Inductive, PTL

\* Never more workers than the lane and global limits allow, and a work job alone,
\* across commands, resumed commands, and owners (executeProcessDispatch).
THEOREM LimitsHold == JobsSpec => []WithinLimits
<1>1. ASSUME JobsInv, Limits PROVE WithinLimits
  <2> DEFINE S == {j \in Jobs \ missed : worker[j] = "alive"}
  <2>1. ASSUME NEW j \in S PROVE Occupies(j)
    <3>1. JobInv(j) /\ j \in Jobs /\ j \notin missed /\ worker[j] = "alive" /\ log \in Log
      BY <1>1, <2>1 DEF JobsInv, JobsTypeOK
    <3> HIDE DEF S
    <3>2. log.jobs[j] \in {"none", "pending", "running"} \cup Terminal
      BY <3>1 DEF Log, Unfinished
    <3>3. log.jobs[j] = "running"
      BY <3>1, <3>2 DEF JobInv, Recorded, Fresh, Still
    <3> QED BY <3>1, <3>3 DEF JobInv, Shaped, Occupies, At, Spawned
  <2>2. S \subseteq Occupied /\ Occupied \in SUBSET Jobs
    BY <2>1 DEF Occupied
  <2>3. IsFiniteSet(S) /\ Cardinality(S) \in Nat
    BY CommandsAssumption, FS_Subset, FS_CardinalityType
  <2> HIDE DEF S
  <2>4. Admissible(S)
    BY <1>1, <2>2, FewerAdmissible DEF Limits
  <2>5. S \cap Work # {} => Cardinality(S) = 1
    BY <2>3, <2>4, FS_EmptySet DEF Admissible
  <2>6. WithinLimits <=> /\ S \cap Work # {} => Cardinality(S) = 1
                         /\ Cardinality(S) <= MaxConcurrency
                         /\ \A j \in S : Cardinality({k \in S : LaneOf[k] = LaneOf[j]}) <= LaneLimit
    BY DEF WithinLimits, S
  <2> QED BY <2>4, <2>5, <2>6 DEF Admissible
<1> QED BY <1>1, Inductive, PTL


-----------------------------------------------------------------------------
(* The lane: its types                                                     *)

\* Every step of a daemon keeps the types.
LEMMA DaemonTypes ==
    ASSUME LaneTypeOK, NEW d \in Daemons, DaemonStep(d)
    PROVE  LaneTypeOK'
<1> USE DEF LaneTypeOK, lockVars, daemonVars, fileVars, callVars, hostVars, Goes
<1>1. CASE Create(d)
  BY <1>1 DEF Create
<1>2. CASE WriteLock(d)
  BY <1>2 DEF WriteLock
<1>3. CASE ReadLock(d)
  BY <1>3 DEF ReadLock
<1>4. CASE RemoveLock(d)
  BY <1>4 DEF RemoveLock, Removes
<1>5. CASE Sweep(d)
  BY <1>5 DEF Sweep
<1>6. CASE ReadOwn(d)
  BY <1>6 DEF ReadOwn
<1>7. CASE EraseOwn(d)
  BY <1>7 DEF EraseOwn, Removes
<1>8. CASE Leave(d)
  BY <1>8 DEF Leave
<1>9. CASE EndLane(d)
  BY <1>9 DEF EndLane
<1>10. CASE Signal(d)
  BY <1>10 DEF Signal
<1>11. CASE SignalReads(d)
  BY <1>11 DEF SignalReads
<1>12. CASE SignalErases(d)
  BY <1>12 DEF SignalErases, Removes
<1>13. CASE SignalExits(d)
  BY <1>13 DEF SignalExits
<1>14. CASE CrashDaemon(d)
  BY <1>14, LaneAssumption DEF CrashDaemon
<1>15. ASSUME NEW r \in Requests, Publish(d, r)
       PROVE  LaneTypeOK'
  <2>1. of' \in [Requests -> Requests \cup {NoRequest}] /\ retries' \in [Daemons -> 0..MaxRetries]
    <3>1. CASE LastCall(d) = "returned"
      BY <1>15, <3>1, LaneAssumption DEF Publish
    <3>2. CASE LastCall(d) # "returned"
      <4>1. last[d] \in Requests
        BY <3>2 DEF LastCall
      <4>2. of' = [of EXCEPT ![r] = of[last[d]]]
        BY <1>15, <3>2 DEF Publish
      <4>3. retries' = [retries EXCEPT ![d] = retries[d] + 1] /\ retries[d] < MaxRetries
        BY <1>15, <3>2 DEF Publish
      <4>4. retries[d] + 1 \in 0..MaxRetries
        BY <4>3, LaneAssumption
      <4> QED
        BY <4>1, <4>2, <4>3, <4>4
    <3> QED
      BY <3>1, <3>2
  <2> QED
    BY <1>15, <2>1 DEF Publish, Polling
<1> QED
  BY <1>1, <1>2, <1>3, <1>4, <1>5, <1>6, <1>7, <1>8, <1>9, <1>10, <1>11, <1>12, <1>13, <1>14, <1>15
  DEF DaemonStep

\* Every step of a call keeps the types.
LEMMA CallTypes ==
    ASSUME LaneTypeOK, NEW r \in Requests, CallStep(r)
    PROVE  LaneTypeOK'
<1> USE DEF LaneTypeOK, lockVars, daemonVars, fileVars, callVars, hostVars, Turns, Claimed, Polling
<1>1. CASE ReadResponse(r)
  <2>1. place' \in [Requests -> {"none", "requests", "inflight", "expired"}]
    BY <1>1 DEF ReadResponse
  <2>2. answer' \in [Requests -> BOOLEAN]
    BY <1>1 DEF ReadResponse
  <2>3. call' \in [Requests -> {"none", "returned", "unclaimed", "unknown"} \cup Polling]
    BY <1>1 DEF ReadResponse
  <2> QED
    BY <1>1, <2>1, <2>2, <2>3 DEF ReadResponse
<1>2. CASE ReadInflight(r)
  <2>1. call' \in [Requests -> {"none", "returned", "unclaimed", "unknown"} \cup Polling]
    BY <1>2 DEF ReadInflight
  <2>2. claimed' \in [Requests -> BOOLEAN]
    BY <1>2 DEF ReadInflight
  <2> QED
    BY <1>2, <2>1, <2>2 DEF ReadInflight
<1>3. CASE ReadRequest(r)
  <2>1. call' \in [Requests -> {"none", "returned", "unclaimed", "unknown"} \cup Polling]
    BY <1>3 DEF ReadRequest
  <2>2. claimed' \in [Requests -> BOOLEAN]
    BY <1>3 DEF ReadRequest
  <2> QED
    BY <1>3, <2>1, <2>2 DEF ReadRequest
<1>4. CASE Deadline(r)
  BY <1>4 DEF Deadline
<1>5. CASE Withdraw(r)
  <2>1. place' \in [Requests -> {"none", "requests", "inflight", "expired"}]
    BY <1>5 DEF Withdraw
  <2>2. call' \in [Requests -> {"none", "returned", "unclaimed", "unknown"} \cup Polling]
    BY <1>5 DEF Withdraw
  <2>3. claimed' \in [Requests -> BOOLEAN]
    BY <1>5 DEF Withdraw
  <2> QED
    BY <1>5, <2>1, <2>2, <2>3 DEF Withdraw
<1>6. CASE Expire(r)
  BY <1>6 DEF Expire
<1> QED
  BY <1>1, <1>2, <1>3, <1>4, <1>5, <1>6 DEF CallStep

\* A host that is not idle holds a request.
Holding == \A h \in Hosts : host[h] # "idle" => hold[h] \in Requests

\* Every step of a host keeps the types.
LEMMA HostTypes ==
    ASSUME LaneTypeOK, Holding, NEW h \in Hosts, HostStep(h)
    PROVE  LaneTypeOK' /\ Holding'
<1> USE DEF LaneTypeOK, Holding, lockVars, daemonVars, fileVars, callVars, hostVars, Turn
<1>1. CASE HostExpires(h)
  BY <1>1 DEF HostExpires
<1>2. CASE Claim(h)
  BY <1>2 DEF Claim
<1>3. CASE Act(h)
  BY <1>3 DEF Act
<1>4. CASE Respond(h)
  BY <1>4 DEF Respond
<1>5. CASE CrashHost(h)
  BY <1>5, LaneAssumption DEF CrashHost
<1>6. ASSUME NEW r \in Requests, Peek(h, r)
      PROVE  LaneTypeOK' /\ Holding'
  BY <1>6 DEF Peek
<1> QED
  BY <1>1, <1>2, <1>3, <1>4, <1>5, <1>6 DEF HostStep

Typed == LaneTypeOK /\ Holding

\* A step of a daemon or of a call leaves the hosts alone.
LEMMA HostsUntouched ==
    ASSUME (\E d \in Daemons : DaemonStep(d)) \/ (\E r \in Requests : CallStep(r))
    PROVE  UNCHANGED hostVars
BY DEF DaemonStep, CallStep, Create, WriteLock, ReadLock, RemoveLock, Sweep, ReadOwn, EraseOwn, Leave,
       EndLane, Signal, SignalReads, SignalErases, SignalExits, CrashDaemon, Publish, ReadResponse,
       ReadInflight, ReadRequest, Deadline, Withdraw, Expire, hostVars

\* The types hold at first.
LEMMA TypedInit == LaneInit => Typed
<1> SUFFICES ASSUME LaneInit PROVE Typed
  OBVIOUS
<1> USE DEF LaneInit
<1>0. written \in BOOLEAN /\ undercut \in BOOLEAN
  OBVIOUS
<1>1. lock \in Daemons \cup {Nobody} /\ late \subseteq Requests /\ crashes \in 0..MaxCrashes
  BY LaneAssumption
<1>2. /\ found \in [Daemons -> Daemons \cup {Nobody}]
      /\ last \in [Daemons -> Requests \cup {NoRequest}] /\ retries \in [Daemons -> 0..MaxRetries]
  BY LaneAssumption
<1>3. /\ by \in [Requests -> Daemons \cup {Nobody}] /\ of \in [Requests -> Requests \cup {NoRequest}]
      /\ acted \in [Requests -> Nat] /\ hold \in [Hosts -> Requests \cup {NoRequest}]
  OBVIOUS
<1>4. Holding
  BY DEF Holding
<1> QED
  BY <1>0, <1>1, <1>2, <1>3, <1>4 DEF Typed, LaneTypeOK

\* Every step of the lane keeps the types.
LEMMA TypedStep == Typed /\ [LaneNext]_laneVars => Typed'
<1> SUFFICES ASSUME Typed, [LaneNext]_laneVars PROVE Typed'
  OBVIOUS
<1>1. ASSUME NEW d \in Daemons, DaemonStep(d) PROVE Typed'
  BY <1>1, DaemonTypes, HostsUntouched DEF Typed, Holding, hostVars
<1>2. ASSUME NEW r \in Requests, CallStep(r) PROVE Typed'
  BY <1>2, CallTypes, HostsUntouched DEF Typed, Holding, hostVars
<1>3. ASSUME NEW h \in Hosts, HostStep(h) PROVE Typed'
  BY <1>3, HostTypes DEF Typed
<1>4. CASE UNCHANGED laneVars
  BY <1>4 DEF Typed, LaneTypeOK, Holding, laneVars, lockVars, daemonVars, fileVars, callVars, hostVars
<1> QED
  BY <1>1, <1>2, <1>3, <1>4 DEF LaneNext

\* The lane keeps its types: in particular a request that nobody claimed is
\* repeated at most MaxRetries times in a row (lane-runner.ts).
THEOREM LaneTypeCorrect == LaneSpec => []LaneTypeOK
<1>1. LaneInit => Typed
  BY TypedInit
<1>2. Typed /\ [LaneNext]_laneVars => Typed'
  BY TypedStep
<1>3. Typed => LaneTypeOK
  BY DEF Typed
<1> QED
  BY <1>1, <1>2, <1>3, PTL DEF LaneSpec

-----------------------------------------------------------------------------
(* The lane: its lock                                                      *)

\* Main is between the creation of the lock file and the end of its work, and the
\* handler of a signal has not released the lock.
Owner(d) == daemon[d] \in {"write", "sweep", "work"} /\ signal[d] # "exit"

\* Who created the lock has started; who was found dead stays dead; and unless
\* somebody removed the lock of another one, every owner's lock is in place.
LockInv ==
    /\ lock \in Daemons => daemon[lock] # "off"
    /\ \A d \in Daemons : daemon[d] = "remove" /\ found[d] \in Daemons => daemon[found[d]] = "gone"
    /\ undercut \/ \A d \in Daemons : Owner(d) => lock = d

\* No daemon has a lock at first.
LEMMA LockInit == LaneInit => LockInv
BY LaneAssumption DEF LaneInit, LockInv, Owner

\* A step of a call or of a host does not touch the lock or the daemons.
LEMMA LockUntouched ==
    ASSUME \/ \E r \in Requests : CallStep(r)
           \/ \E h \in Hosts : HostStep(h)
           \/ UNCHANGED laneVars
    PROVE  UNCHANGED <<lockVars, daemonVars>>
BY DEF CallStep, HostStep, ReadResponse, ReadInflight, ReadRequest, Deadline, Withdraw, Expire, HostExpires,
       Claim, Act, Respond, CrashHost, Peek, laneVars, lockVars, daemonVars

\* Every step of a daemon keeps the lock's invariant.
LEMMA LockDaemon ==
    ASSUME Typed, LockInv, NEW d \in Daemons, DaemonStep(d)
    PROVE  LockInv'
<1> USE LaneAssumption DEF Typed, LaneTypeOK, LockInv, Owner, Goes, lockVars
<1>1. CASE Create(d)
  BY <1>1 DEF Create
<1>2. CASE WriteLock(d)
  BY <1>2 DEF WriteLock
<1>3. CASE ReadLock(d)
  BY <1>3 DEF ReadLock, Replaceable, Alive
<1>4. CASE RemoveLock(d)
  <2>1. /\ daemon[d] = "remove" /\ daemon' = [daemon EXCEPT ![d] = "create"]
        /\ found' = [found EXCEPT ![d] = Nobody] /\ signal' = signal
        /\ lock' = Nobody /\ undercut' = (undercut \/ lock \notin {Nobody, found[d]})
    BY <1>4 DEF RemoveLock, Removes
  <2>2. lock' \notin Daemons
    BY <2>1
  <2>3. ASSUME NEW e \in Daemons, daemon'[e] = "remove", found'[e] \in Daemons
        PROVE  daemon'[found'[e]] = "gone"
    <3>1. e # d /\ daemon[e] = "remove" /\ found'[e] = found[e]
      BY <2>1, <2>3
    <3>2. daemon[found[e]] = "gone"
      BY <2>3, <3>1
    <3> QED BY <2>1, <2>3, <3>1, <3>2
  <2>4. ASSUME NEW e \in Daemons, Owner(e)', ~undercut' PROVE FALSE
    <3>1. e # d /\ Owner(e)
      BY <2>1, <2>4
    <3>2. ~undercut /\ lock \in {Nobody, found[d]}
      BY <2>1, <2>4
    <3>3. lock = e
      BY <3>1, <3>2
    <3>4. e # Nobody
      OBVIOUS
    <3>5. e = found[d]
      BY <3>2, <3>3, <3>4
    <3>6. daemon[e] = "gone"
      BY <2>1, <3>5
    <3> QED BY <3>1, <3>6
  <2> QED BY <2>2, <2>3, <2>4
<1>5. CASE Sweep(d)
  BY <1>5 DEF Sweep
<1>6. CASE ReadOwn(d)
  BY <1>6 DEF ReadOwn
<1>7. CASE EraseOwn(d)
  BY <1>7 DEF EraseOwn, Removes
<1>8. CASE Leave(d)
  BY <1>8 DEF Leave
<1>9. CASE EndLane(d)
  BY <1>9 DEF EndLane
<1>10. CASE Signal(d)
  BY <1>10 DEF Signal
<1>11. CASE SignalReads(d)
  BY <1>11 DEF SignalReads
<1>12. CASE SignalErases(d)
  BY <1>12 DEF SignalErases, Removes
<1>13. CASE SignalExits(d)
  BY <1>13 DEF SignalExits, Alive
<1>14. CASE CrashDaemon(d)
  BY <1>14 DEF CrashDaemon, Alive
<1>15. ASSUME NEW r \in Requests, Publish(d, r)
       PROVE  LockInv'
  BY <1>15 DEF Publish
<1> QED
  BY <1>1, <1>2, <1>3, <1>4, <1>5, <1>6, <1>7, <1>8, <1>9, <1>10, <1>11, <1>12, <1>13, <1>14, <1>15
  DEF DaemonStep

\* Every step of the lane keeps the lock's invariant.
LEMMA LockStep == Typed /\ LockInv /\ [LaneNext]_laneVars => LockInv'
<1> SUFFICES ASSUME Typed, LockInv, [LaneNext]_laneVars PROVE LockInv'
  OBVIOUS
<1>1. CASE \E d \in Daemons : DaemonStep(d)
  BY <1>1, LockDaemon
<1>2. CASE \/ \E r \in Requests : CallStep(r)
           \/ \E h \in Hosts : HostStep(h)
           \/ UNCHANGED laneVars
  BY <1>2, LockUntouched DEF LockInv, Owner, lockVars, daemonVars
<1> QED
  BY <1>1, <1>2 DEF LaneNext

\* Two daemons serve at once only after an rm that met another lock than the one
\* it was meant for (acquireClaudeDesktopLaneLock).
THEOREM OneDaemon == LaneSpec => []OneDaemonUnlessUndercut
<1>1. LaneInit => Typed /\ LockInv
  BY TypedInit, LockInit
<1>2. Typed /\ LockInv /\ [LaneNext]_laneVars => (Typed /\ LockInv)'
  BY TypedStep, LockStep
<1>3. LockInv => OneDaemonUnlessUndercut
  BY DEF LockInv, Owner, OneDaemonUnlessUndercut, Serving
<1> QED
  BY <1>1, <1>2, <1>3, PTL DEF LaneSpec

-----------------------------------------------------------------------------
(* The lane: the actions of the hosts                                      *)

Published(r) == call[r] # "none"
Busy(h, r) == host[h] \in {"act", "respond"} /\ hold[h] = r

\* Where the file of a request may be
Placed ==
    \A r \in Requests :
        /\ acted[r] <= 1
        /\ ~Published(r) => place[r] = "none"
        /\ call[r] = "unclaimed" => place[r] = "expired"

\* Nobody acts on a request that no host has renamed, nor has acted on it.
Untaken ==
    \A r \in Requests :
        ~Published(r) \/ place[r] \in {"requests", "expired"} =>
            acted[r] = 0 /\ \A h \in Hosts : ~Busy(h, r)

\* Nobody has acted on the request that a host is about to act on.
Unacted == \A h \in Hosts : host[h] = "act" => acted[hold[h]] = 0

\* Only one host has renamed a request.
Alone == \A g, h \in Hosts : \A r \in Requests : Busy(g, r) /\ Busy(h, r) => g = h

\* A request that no host has renamed was not acted on; whoever renamed it is the
\* only one, and acts once; a request that was withdrawn stays where it is.
ClaimInv == Placed /\ Untaken /\ Unacted /\ Alone

\* The requests of one action come from one daemon, and nobody claimed any of
\* them except, perhaps, the last one.
RetryInv ==
    /\ \A r \in Requests :
        IF Published(r)
        THEN /\ by[r] \in Daemons /\ of[r] \in Requests /\ last[by[r]] \in Requests
             /\ Published(of[r]) /\ by[of[r]] = by[r]
             /\ r # last[by[r]] /\ of[r] = of[last[by[r]]] => call[r] = "unclaimed"
        ELSE of[r] = NoRequest
    /\ \A r, s \in Requests :
        Published(r) /\ Published(s) /\ r # s /\ of[r] = of[s] =>
            call[r] = "unclaimed" \/ call[s] = "unclaimed"
    /\ \A d \in Daemons : last[d] \in Requests => Published(last[d]) /\ by[last[d]] = d

\* No request is published at first.
LEMMA ActionsInit == LaneInit => ClaimInv /\ RetryInv
<1> SUFFICES ASSUME LaneInit PROVE ClaimInv /\ RetryInv
  OBVIOUS
<1> USE LaneAssumption DEF LaneInit, Published
<1>1. ClaimInv
  BY DEF ClaimInv, Placed, Untaken, Unacted, Alone, Busy
<1>2. RetryInv
  BY DEF RetryInv
<1> QED
  BY <1>1, <1>2

\* What a daemon does besides sweeping and publishing does not concern requests.
LEMMA RequestsUntouched ==
    ASSUME NEW d \in Daemons, DaemonStep(d), ~Sweep(d), \A r \in Requests : ~Publish(d, r)
    PROVE  UNCHANGED <<place, callVars, last, hostVars>>
BY DEF DaemonStep, Create, WriteLock, ReadLock, RemoveLock, ReadOwn, EraseOwn, Leave, EndLane, Signal,
       SignalReads, SignalErases, SignalExits, CrashDaemon, fileVars

\* Every step of a daemon keeps both invariants.
LEMMA ActionsDaemon ==
    ASSUME Typed, ClaimInv, RetryInv, NEW d \in Daemons, DaemonStep(d)
    PROVE  ClaimInv' /\ RetryInv'
<1> USE LaneAssumption DEF Typed, LaneTypeOK
<1>1. CASE Sweep(d)
  <2>1. ClaimInv'
    BY <1>1 DEF Sweep, ClaimInv, Placed, Untaken, Unacted, Alone, Published, Busy, hostVars, callVars
  <2>2. RetryInv'
    BY <1>1 DEF Sweep, RetryInv, Published, callVars
  <2> QED
    BY <2>1, <2>2
<1>2. ASSUME NEW r \in Requests, Publish(d, r)
      PROVE  ClaimInv' /\ RetryInv'
  <2>1. /\ call[r] = "none" /\ place' = [place EXCEPT ![r] = "requests"]
        /\ call' = [call EXCEPT ![r] = "response"] /\ by' = [by EXCEPT ![r] = d]
        /\ last' = [last EXCEPT ![d] = r] /\ UNCHANGED hostVars
    BY <1>2 DEF Publish
  <2>2. ClaimInv'
    BY <2>1 DEF ClaimInv, Placed, Untaken, Unacted, Alone, Published, Busy, hostVars
  <2>3. RetryInv'
    <3>1. CASE of' = [of EXCEPT ![r] = r]
      BY <2>1, <3>1 DEF RetryInv, Published
    <3>2. CASE last[d] \in Requests /\ call[last[d]] = "unclaimed" /\ of' = [of EXCEPT ![r] = of[last[d]]]
      <4> DEFINE l == last[d]
      <4>1. l # r /\ Published(l) /\ by[l] = d /\ of[l] \in Requests /\ Published(of[l]) /\ by[of[l]] = d
        BY <2>1, <3>2 DEF RetryInv, Published
      <4>2. \A s \in Requests : Published(s) /\ of[s] = of[l] => call[s] = "unclaimed" /\ by[s] = d
        BY <3>2, <4>1 DEF RetryInv
      <4> QED
        BY <2>1, <3>2, <4>1, <4>2 DEF RetryInv, Published
    <3>3. LastCall(d) = "unclaimed" => last[d] \in Requests /\ call[last[d]] = "unclaimed"
      BY DEF LastCall
    <3> QED
      BY <1>2, <3>1, <3>2, <3>3 DEF Publish
  <2> QED
    BY <2>2, <2>3
<1>3. CASE ~Sweep(d) /\ \A r \in Requests : ~Publish(d, r)
  BY <1>3, RequestsUntouched DEF ClaimInv, Placed, Untaken, Unacted, Alone, RetryInv, Published, Busy, hostVars, callVars
<1> QED
  BY <1>1, <1>2, <1>3

\* Calls that go on without a new one keep what is said of repeated requests.
LEMMA RetryStays ==
    ASSUME RetryInv, by' = by, of' = of, last' = last,
           \A s \in Requests : Published(s)' <=> Published(s),
           \A s \in Requests : call[s] = "unclaimed" => call'[s] = "unclaimed"
    PROVE  RetryInv'
<1>1. ASSUME NEW r \in Requests, Published(r)
      PROVE  /\ by[r] \in Daemons /\ of[r] \in Requests /\ last[by[r]] \in Requests
             /\ Published(of[r])' /\ by[of[r]] = by[r]
             /\ r # last[by[r]] /\ of[r] = of[last[by[r]]] => call'[r] = "unclaimed"
  BY <1>1 DEF RetryInv
<1>2. ASSUME NEW r \in Requests, ~Published(r)
      PROVE  of[r] = NoRequest
  BY <1>2 DEF RetryInv
<1>3. ASSUME NEW r \in Requests, NEW s \in Requests, Published(r), Published(s), r # s, of[r] = of[s]
      PROVE  call'[r] = "unclaimed" \/ call'[s] = "unclaimed"
  BY <1>3 DEF RetryInv
<1>4. ASSUME NEW d \in Daemons, last[d] \in Requests
      PROVE  Published(last[d])' /\ by[last[d]] = d
  BY <1>4 DEF RetryInv
<1> QED
  BY <1>1, <1>2, <1>3, <1>4 DEF RetryInv

\* Every step of a call keeps both invariants.
LEMMA ActionsCall ==
    ASSUME Typed, ClaimInv, RetryInv, NEW r \in Requests, CallStep(r)
    PROVE  ClaimInv' /\ RetryInv'
<1> USE LaneAssumption DEF Typed, LaneTypeOK, Calling, Turns
<1>1. UNCHANGED <<hostVars, by, of, last>>
  BY DEF CallStep, ReadResponse, ReadInflight, ReadRequest, Deadline, Withdraw, Expire, callVars, daemonVars
<1>2. /\ \A s \in Requests : Published(s)' <=> Published(s)
      /\ \A s \in Requests : call[s] = "unclaimed" => call'[s] = "unclaimed"
  BY DEF CallStep, ReadResponse, ReadInflight, ReadRequest, Deadline, Withdraw, Expire, callVars, Published
<1>0. by' = by /\ of' = of /\ last' = last
  BY <1>1
<1>3. RetryInv'
  BY <1>0, <1>2, RetryStays
<1>4. /\ \A s \in Requests : ~Published(s) => place'[s] = place[s]
      /\ \A s \in Requests : place'[s] \in {"requests", "expired"} => place[s] \in {"requests", "expired"}
      /\ \A s \in Requests : place[s] = "expired" => place'[s] = "expired"
  BY DEF CallStep, ReadResponse, ReadInflight, ReadRequest, Deadline, Withdraw, Withdrawable, Expire, fileVars,
         Published
<1>5. \A s \in Requests : call'[s] = "unclaimed" => call[s] = "unclaimed" \/ place'[s] = "expired"
  BY DEF CallStep, ReadResponse, ReadInflight, ReadRequest, Deadline, Withdraw, Withdrawable, Expire, callVars
<1>6. ClaimInv'
  BY <1>1, <1>2, <1>4, <1>5 DEF ClaimInv, Placed, Untaken, Unacted, Alone, Busy, hostVars, Published
<1> QED
  BY <1>3, <1>6

\* A host that turns to no request, or gives its request up, keeps the invariant.
LEMMA HostRests ==
    ASSUME Typed, ClaimInv, NEW h \in Hosts, host' = [host EXCEPT ![h] = "idle"],
           hold' = hold, acted' = acted, call' = call,
           \A r \in Requests : place'[r] = place[r] \/ (place[r] = "requests" /\ place'[r] = "expired")
    PROVE  ClaimInv'
<1> USE DEF Typed, LaneTypeOK, ClaimInv
<1>1. \A g \in Hosts, r \in Requests : Busy(g, r)' => Busy(g, r)
  BY DEF Busy
<1>2. \A r \in Requests : Published(r)' <=> Published(r)
  BY DEF Published
<1>3. Placed'
  BY <1>2 DEF Placed
<1>4. Untaken'
  BY <1>1, <1>2 DEF Untaken
<1>5. Unacted'
  BY DEF Unacted
<1>6. Alone'
  BY <1>1 DEF Alone
<1> QED
  BY <1>3, <1>4, <1>5, <1>6

\* Every step of a host keeps both invariants.
LEMMA ActionsHost ==
    ASSUME Typed, ClaimInv, RetryInv, NEW h \in Hosts, HostStep(h)
    PROVE  ClaimInv' /\ RetryInv'
<1> USE DEF Turn
<1>t. /\ place \in [Requests -> {"none", "requests", "inflight", "expired"}]
      /\ host \in [Hosts -> {"idle", "expire", "claim", "act", "respond"}]
      /\ hold \in [Hosts -> Requests \cup {NoRequest}] /\ acted \in [Requests -> Nat]
      /\ call \in [Requests -> {"none", "returned", "unclaimed", "unknown"} \cup Polling]
      /\ \A g \in Hosts : host[g] # "idle" => hold[g] \in Requests
  BY DEF Typed, LaneTypeOK, Holding
<1>0. call' = call /\ by' = by /\ of' = of /\ last' = last
  BY DEF HostStep, HostExpires, Claim, Act, Respond, CrashHost, Peek, daemonVars, callVars
<1>1. \A r \in Requests : Published(r)' <=> Published(r)
  BY <1>0 DEF Published
<1>2. RetryInv'
  BY <1>0, <1>1, RetryStays
<1> DEFINE q == hold[h]
<1>3. CASE HostExpires(h) \/ Respond(h) \/ CrashHost(h)
  <2>1. /\ hold' = hold /\ acted' = acted /\ host' = [host EXCEPT ![h] = "idle"]
        /\ \A r \in Requests : place'[r] = place[r] \/ (place[r] = "requests" /\ place'[r] = "expired")
    <3>1. CASE HostExpires(h)
      BY <3>1 DEF HostExpires
    <3>2. CASE Respond(h)
      BY <3>2 DEF Respond
    <3>3. CASE CrashHost(h)
      BY <3>3 DEF CrashHost, fileVars
    <3> QED
      BY <1>3, <3>1, <3>2, <3>3
  <2> QED
    BY <1>0, <2>1, <1>2, HostRests
<1>4. CASE Claim(h)
  <2>1. q \in Requests /\ hold' = hold /\ acted' = acted
    BY <1>t, <1>4 DEF Claim
  <2>2. CASE /\ place[q] = "requests" /\ place' = [place EXCEPT ![q] = "inflight"]
             /\ host' = [host EXCEPT ![h] = "act"]
    <3>1. acted[q] = 0 /\ Published(q) /\ call[q] # "unclaimed" /\ \A g \in Hosts : ~Busy(g, q)
      BY <2>1, <2>2 DEF ClaimInv, Placed, Untaken
    <3>2. \A g \in Hosts, r \in Requests : Busy(g, r)' => Busy(g, r) \/ (g = h /\ r = q)
      BY <2>1, <2>2 DEF Busy
    <3>3. Placed'
      BY <1>0, <1>1, <2>1, <2>2, <3>1 DEF ClaimInv, Placed
    <3>4. Untaken'
      BY <1>t, <1>1, <2>1, <2>2, <3>1, <3>2 DEF ClaimInv, Untaken
    <3>5. Unacted'
      BY <2>1, <2>2, <3>1 DEF ClaimInv, Unacted
    <3>6. Alone'
      BY <3>1, <3>2 DEF ClaimInv, Alone
    <3> QED
      BY <3>3, <3>4, <3>5, <3>6, <1>2 DEF ClaimInv
  <2>3. CASE UNCHANGED place /\ host' = [host EXCEPT ![h] = "idle"]
    <3>1. \A r \in Requests : place'[r] = place[r]
      BY <2>3
    <3> QED
      BY <1>0, <1>2, <2>1, <2>3, <3>1, HostRests
  <2> QED
    BY <1>4, <2>2, <2>3 DEF Claim
<1>5. CASE Act(h)
  <2>1. /\ q \in Requests /\ hold' = hold /\ place' = place
        /\ host[h] = "act" /\ acted' = [acted EXCEPT ![q] = acted[q] + 1]
        /\ host' = [host EXCEPT ![h] = "respond"]
    BY <1>t, <1>5 DEF Act, fileVars
  <2>2. acted[q] = 0 /\ Busy(h, q) /\ \A g \in Hosts : Busy(g, q) => g = h
    BY <2>1 DEF ClaimInv, Unacted, Alone, Busy
  <2>3. \A g \in Hosts, r \in Requests : Busy(g, r)' => Busy(g, r)
    BY <2>1 DEF Busy
  <2>4. Placed'
    BY <1>0, <1>1, <2>1, <2>2 DEF ClaimInv, Placed
  <2>5. Untaken'
    BY <1>1, <2>1, <2>2, <2>3 DEF ClaimInv, Untaken
  <2>6. Unacted'
    <3> SUFFICES ASSUME NEW g \in Hosts, host'[g] = "act" PROVE acted'[hold'[g]] = 0
      BY DEF Unacted
    <3>1. g # h /\ host[g] = "act" /\ hold[g] \in Requests /\ acted[hold[g]] = 0
      BY <1>t, <2>1 DEF ClaimInv, Unacted
    <3>2. hold[g] # q
      BY <2>2, <3>1 DEF Busy
    <3> QED
      BY <2>1, <3>1, <3>2
  <2>7. Alone'
    BY <2>3 DEF ClaimInv, Alone
  <2> QED
    BY <2>4, <2>5, <2>6, <2>7, <1>2 DEF ClaimInv
<1>6. ASSUME NEW r \in Requests, Peek(h, r)
      PROVE  ClaimInv'
  <2>1. /\ place' = place /\ acted' = acted /\ hold' = [hold EXCEPT ![h] = r]
        /\ host' = [host EXCEPT ![h] = IF r \in late THEN "expire" ELSE "claim"]
    BY <1>6 DEF Peek, fileVars
  <2>2. \A g \in Hosts, s \in Requests : Busy(g, s)' => Busy(g, s)
    BY <1>t, <2>1 DEF Busy
  <2>3. Placed' /\ Untaken' /\ Alone'
    BY <1>0, <1>1, <2>1, <2>2 DEF ClaimInv, Placed, Untaken, Alone
  <2>4. Unacted'
    BY <1>t, <2>1 DEF ClaimInv, Unacted
  <2> QED
    BY <2>3, <2>4 DEF ClaimInv
<1> QED
  BY <1>2, <1>3, <1>4, <1>5, <1>6 DEF HostStep

\* Every step of the lane keeps both invariants.
LEMMA ActionsStep == Typed /\ ClaimInv /\ RetryInv /\ [LaneNext]_laneVars => ClaimInv' /\ RetryInv'
<1> SUFFICES ASSUME Typed, ClaimInv, RetryInv, [LaneNext]_laneVars PROVE ClaimInv' /\ RetryInv'
  OBVIOUS
<1>1. CASE UNCHANGED laneVars
  BY <1>1 DEF ClaimInv, Placed, Untaken, Unacted, Alone, RetryInv, Published, Busy, laneVars, daemonVars, fileVars,
        callVars, hostVars
<1> QED
  BY <1>1, ActionsDaemon, ActionsCall, ActionsHost DEF LaneNext

\* No browser action happens twice, whichever way withdrawal, expiry and claim of a
\* request interleave, whoever crashes, and however often a lane that is allowed
\* to repeats it (file-bridge.ts, host-mailbox.ts, lane-runner.ts).
THEOREM ActionHappensOnce == LaneSpec => []ActionOnce
<1> DEFINE Inv == Typed /\ ClaimInv /\ RetryInv
<1>1. LaneInit => Inv
  BY TypedInit, ActionsInit
<1>2. Inv /\ [LaneNext]_laneVars => Inv'
  BY TypedStep, ActionsStep
<1>3. Inv => ActionOnce
  <2> SUFFICES ASSUME Inv, NEW r \in Requests, NEW s \in Requests
               PROVE  /\ acted[r] <= 1
                      /\ r # s /\ of[r] = of[s] => acted[r] = 0 \/ acted[s] = 0
    BY DEF ActionOnce
  <2>1. acted[r] <= 1
    BY DEF ClaimInv, Placed, Untaken, Unacted, Alone
  <2>2. ASSUME r # s, of[r] = of[s] PROVE acted[r] = 0 \/ acted[s] = 0
    <3>1. CASE ~Published(r) \/ ~Published(s)
      BY <3>1 DEF ClaimInv, Placed, Untaken, Unacted, Alone
    <3>2. CASE Published(r) /\ Published(s)
      <4>1. call[r] = "unclaimed" \/ call[s] = "unclaimed"
        BY <2>2, <3>2 DEF RetryInv
      <4> QED
        BY <4>1 DEF ClaimInv, Placed, Untaken, Unacted, Alone
    <3> QED
      BY <3>1, <3>2
  <2> QED
    BY <2>1, <2>2
<1> QED
  BY <1>1, <1>2, <1>3, PTL DEF LaneSpec

-----------------------------------------------------------------------------
(* The two components together                                             *)

LEMMA ComponentsInit == ASSUME Init PROVE JobsInit /\ left \in Nat /\ LaneInit
<1>1. \A p \in Runs : p.faults \in Nat
  BY DEF Runs, Instance
<1> QED BY <1>1 DEF Init

\* A step of one leaves the other alone.
LEMMA ComponentsStep == ASSUME [Next]_vars PROVE [JobsNext]_jobVars /\ [LaneNext]_laneVars
<1>1. CASE NextJobs
  BY <1>1 DEF NextJobs
<1>2. CASE NextLane
  BY <1>2 DEF NextLane
<1>3. CASE UNCHANGED vars
  BY <1>3 DEF vars
<1> QED BY <1>1, <1>2, <1>3 DEF Next

\* Whichever component an instance picks, both keep their types.
THEOREM ServicesTyped == FairSpec => []ServicesTypeOK
<1>1. Init => JobsInit /\ left \in Nat /\ LaneInit
  BY ComponentsInit
<1>2. [Next]_vars => [JobsNext]_jobVars /\ [LaneNext]_laneVars
  BY ComponentsStep
<1>3. FairSpec => JobsSpec /\ LaneSpec
  BY <1>1, <1>2, PTL DEF FairSpec, JobsSpec, LaneSpec
<1>4. JobsTypeOK /\ LaneTypeOK => ServicesTypeOK
  BY DEF ServicesTypeOK
<1> QED BY <1>3, <1>4, JobsTyped, LaneTypeCorrect, PTL
=============================================================================
