# CueLine in TLA+

Specifications, model-checking runs and machine-checked proofs for CueLine
(`src/`), which lets a ChatGPT web conversation control local workers through
files that several processes share. All paths below are relative to the
repository; `state/x.ts` stands for `src/src/state/x.ts`.

## 1. The system

### Components, their state and operations

| Component | State it keeps | Operations |
|---|---|---|
| Mutation lock (`state/runtime-lease.ts:150-310, 496-576`) | a directory per run, one owner token in it, the generation in the fence file | acquire, reclaim stale evidence, rotate the fence, run an operation, last check, release |
| Runtime lease (`state/runtime-lease.ts`) | epoch files, the fence that selects one, the in-memory record of the owner | claim, heartbeat, release, takeover, retirement of a dead owner, migration of `runtime.json` |
| Retirement evidence (`state/runtime-retirement.ts`) | `retired_owners` inside the lease, immutable marker files | mirror to markers, stable read of all cutoffs |
| Event log and store (`state/event-log.ts`, `state/store.ts`) | immutable event segments, a fenced legacy JSONL log, a disposable snapshot | create, append with ownership checks, load and replay |
| Reducer (`core/state-machine.ts`) | none: a fold from events to the run state | one case per event type |
| Controller loop (`core/controller-loop.ts`) | the run: phase, round, pending command, evidence, stagnation count | advance a run by rounds until complete, blocked or paused |
| Controller turn (`core/controller-turn.ts`, `core/submitted-turn-recovery.ts`) | the pending turn and its delivery checkpoints | request, stage, submit, observe, abandon, repair |
| Command execution (`core/controller-command-execution.ts`) | pending command, jobs of the run | dispatch, wait, inspect, cancel, complete, block |
| Controller handoff (`api-controller-handoff.ts`) | authorizations, confirmations, results of caller jobs | confirm a manual send, retry once, submit a caller result |
| Caller work (`api-caller-work.ts`, `api-caller-work-lease.ts`) | the claim of a job, in the event log and in the job's status file | claim, start, heartbeat, progress, review, release, expiry |
| Lease registry (`mcp/caller-work-lease-registry.ts`) | live executor leases of one server process | start, stop, settle, close |
| Jobs (`jobs/*.ts`) | replaceable status file and immutable terminal anchor per job, output files, a lock | start, report progress, finish, wait, read |
| Runners (`runners/*.ts`) | one child process group | spawn, abort, time out, escalate signals, settle |
| Cancellation (`state/cancellation.ts`) | one request file per run | request, watch, abort |
| Lifecycle (`api-runtime-lifecycle.ts`) | none of its own | cancel, confirm a takeover, reconcile jobs and turns |
| Claude desktop lane (`browser/claude-desktop/*.ts`) | a mailbox directory (request, inflight, response), a lane lock, a lane status | request, claim, withdraw, answer, expire |
| Browser adapter (`browser/codex-iab/*.ts`) | a page of the ChatGPT site | send at most once, observe, probe, retry a failed delivery |
| Protocol (`protocol/*.ts`) | none | parse, validate and lint a controller command |
| Router (`router/*.ts`) | a configuration | resolve a lane to an available candidate |
| Observation, sweep, prune, verification, diagnostics, CLI, MCP server, Goalbraid | none beyond the files above | reports, removal of old runs, argument handling |

### How they interact

Everything durable is a file in the directory of a run, and every process may
be on another machine that shares that directory. The interaction is:

* **Through files.** The owner of the runtime lease appends events
  (`RunStore.append` inside `withRuntimeLeaseMutation`); other processes load
  the run without a lock (`RunStore.load`), submit results or cancel.
* **Through the lock.** Claim, heartbeat, release, takeover and append all run
  inside `withLeaseMutationLock`.
* **Through callbacks.** The controller loop gives the browser adapter
  callbacks that append checkpoints around the send; the supervisor gives the
  runner callbacks that write progress.
* **Through polling.** A watcher notices a cancellation file, a mailbox bridge
  notices a response, a continuation notices that a job finished.

### What is hard

1. Separate processes interleave between any two file-system calls.
2. A process may die between any two of them, or be suspended for longer than
   the age at which others call its evidence stale.
3. A cutoff, a claim or a terminal status is recorded in two places; a crash
   separates them.
4. A send to the web page cannot be rolled back, and its outcome may be unknown.
5. Timers (heartbeats, deadlines, TTLs) race with the calls they guard.

`PROJECT.json` lists the hazards one by one, each at its line.

### What makes each component correct

* Mutation lock: live calls operate one at a time; overlapping calls hold
  different fence generations; no crash blocks the run for good.
* Runtime lease: an acknowledged event is authoritative for good; the replayed
  history is a succession of owners; an owner that is not retired is the one
  on disk; cutoffs are never forgotten.
* Readers: a load applies every cutoff that was durable when it began, and only
  durable ones.
* Reducer: terminal job and run states are final; a turn is settled once.
* Controller turn: at most one send per request, whatever crashes; a pending
  turn is never dropped.
* Command execution: a job is spawned at most once; concurrency limits hold;
  every accepted command is finally carried out or reported.
* Caller work: one claimant at a time; a fencing token is never used twice; a
  started job ends with one terminal status.
* Jobs: the first terminal status is the last.
* File bridge: a request that was withdrawn is never executed, one that may
  have been is never repeated.
* Cancellation: a request is finally noticed, and never lost by a restart.

## 2. Plan

Modules, in the order in which they were written, most important behaviour first.

| Step | Modules | Composes | State |
|---|---|---|---|
| 1 | `MutationLock`, `MutationLockProofs` | | done |
| 2 | `RuntimeLease`, `OwnedLog`, `RuntimeLeaseProofs`, `LeaseImplements` | a coarser lock, `OwnedLog` as abstract specification | done |
| 3 | `RunReader`, its theorems in `LeaseImplements` | `RuntimeLease` | done |
| 4 | `CallerWork`, `CallerWorkProofs`: claims over two stores, expiry, result submission | reducer cases of caller jobs, status anchor | done |
| 5 | `TurnRecord`, `ControllerTurn`, `ControllerLoop`, `ControllerHandoff`: the exchange with the controller | the reducer, one turn, the loop and the operator, each extending the one before; `Exchange` as abstract specification | done |
| 6 | `JobSupervisor`, `JobDispatch`: worker processes, dispatch, cancellation, reconciliation | the supervisor under the command execution | done |
| 7 | `HostLane`: lane lock, bridge and host over renames | lock, bridge, host and the lane's retry | done |
| 8 | `HandoffProofs`: types, retries within their permission and one archive click | `ControllerHandoff` | done |
| 9 | `ExchangeProofs`: no message is orphaned, the exchange refines `Exchange`, no click comes before its checkpoint | `HandoffProofs` | done |
| 10 | `ServicesProofs`: theorems about the jobs, the lane, and the two together | `MCServices` | done |
| 11 | lease registry with its timers, legacy log and creation of a run, older status files | | open |

`MCServices` checks `JobDispatch` and `HostLane` in one run: they share nothing,
and an initial state picks an instance of one of them.

## 3. How the modules correspond to the code

### `MutationLock`

One actor is one call of `withLeaseMutationLock`. Its `pc` is the next
file-system call: `Mkdir`, `CreateToken`, `Readdir`, `StatStale` or
`StatFresh`, `UnlinkStale`, `RmdirStale`, `ReadFence`, `Rotate`, `Operate`,
`FinalCheck`, `UnlinkOwn`, `RmdirOwn`. The directory, the tokens in it and the
fence generation are the shared state; a directory has an identity, so that
removing *another* directory of the same name is visible. `Step` is their
disjunction; a call may also crash, and calls in `Pausable` may be suspended
until their evidence looks stale. Two history variables name the only ways in
which the protocol goes astray: `undercut` (an rmdir removed a directory made
after the stale look) and `strayed` (a call read or rotated the fence without
holding its token any more).

### `RuntimeLease` and `OwnedLog`

`RuntimeLease` has one action per read or write that another process may see of
claim, heartbeat, release, takeover, retirement and append, all inside the lock,
whose directory and token it takes as one. `fence`, `files`, `markers` and `log`
are the files; `ctx`, `cur`, `pos` and `mem` are the locals of the call and the
`#record` of the `RuntimeLease` object. `acked` holds the events whose `append`
returned. `OwnedLog` is what the lease promises: owners own the log one after
another, append while they own it, and their retirement sets a cutoff that
excludes nothing they were told is stored. `ImplementsOwnedLog` is the refinement;
the run `lease_crash` checks it and `LeaseImplements` proves it. Runtimes in
`Pausable` may be suspended inside a call, so that another reclaims their lock.
`strayed` names the only ways in which the promises are then broken: a call read the
fence, rotated it or put its epoch into it while its token was gone, or read it
while the rotation of another call was still owed.

### `RunReader`

`RunStore.load` of a process without a lock: it reads the events, then lists the
markers between two snapshots of the lease, and each snapshot is a fence, a
lease and a fence again. `Snapshot*` and `ListMarkers` are its steps, the
writers are those of `RuntimeLease`.

### `CallerWork`

One job of one run. A call takes the lease (`Enter`, `withCallerWorkStore`),
loads the run (`Load`), decides (`Decide`) and then performs the steps it has
decided on, one per action. `ClaimPlan`, `StartPlan`, `HeartbeatPlan`,
`ProgressPlan`, `ReviewPlan`, `ReleasePlan`, `ExpirePlan`, `SubmitPlan` and
`CancelPlan` are the bodies of the nine operations: their conditions are the
code's early returns and exceptions, their sequences its writes in order.
`AppendEvent` succeeds only for the owner (what `OwnedLog` promises) and
applies the reducer (`Accepts`, `Effect`); `Look`, `ReplaceFile`,
`CreateTerminal` and `CopyTerminal` are the file operations of
`JobStatusStore.write`, which no lease fences. `TakeOver` leaves the old owner
running: it goes on with its file operations until an append fails.

### `TurnRecord`, `ControllerTurn`, `ControllerLoop`, `ControllerHandoff` and `Exchange`

One run and its controller, a language model behind a web page. `TurnRecord` is
the part of the reducer that turns, their recoveries, rotation and archive depend
on: one operator per event type, from a run record to a run record.
`ControllerTurn` is `requestControllerCommand` with the sending half of the
ChatGPT client: `RequestTurn`, `Compose` and `Stage`, `Target` with the
checkpoint before the click, `Click`, `Acknowledge`, `Wait`, `Receive`,
`Reject`. `todo` is the list of events that the code appends next, one step
each, so a crash falls between any two of them. `ControllerLoop` is
`driveControllerLoop`, `continueControllerLoop` and
`reconcilePendingControllerTurn`: one action per outcome of the observation of a
pending turn (`ObserveAnswer`, `ObserveNotSent`, `ObserveFailure`,
`ObserveTimeout`, `ObservePending`), the guarded click on the page's Retry, the
rotation and the archive. `ControllerHandoff` has the calls of the operator, one
action each, with the evidence each of them asks the page for. The page
(`talks`, `composer`, `strayed`) is the environment: what it may do wrong is a
plan of `Plans`, a group of faults and how many of them one behaviour may have.
`Exchange` is what all this promises: it knows only the messages of the
conversations and the accepted commands. A question is asked only when no message
of an open round waits for an answer or has a good one, and every command is the
answer to a message of its own. `ImplementsExchange` is the refinement.

Of several pending turns the loop takes the one it is told to (`Selected`,
`core/controller-loop.ts:953-994`). The answers of the others are abandoned with
`operator_selected`, so the choice matters: unless the fault `operator` says that his
word may be wrong, the operator names only a turn that is authoritative
(`Authoritative`): the last message is its own and has its command, and no accepted
command has superseded it. `OwnPrompt` says
that the composer holds, at the click, the prompt of the request that is being
sent. It is not a consequence of the code's own check: the client compares the
text of the composer with the hash on record (`chatgpt-client.ts:1333`), and when the
prompt went into an attachment the text is the same for every request. It holds in the
plans of `controller_exchange`, with inline prompts always (`InlinePrompts`), and not
in general: see the first of the other observations. It is no property of a run but a
condition of the theorems.

### `JobSupervisor` and `JobDispatch`

A task is one call of `JobSupervisor.start` and the completion it leaves behind;
`at` is where it is: writing the first status, ready to spawn, storing the pid,
running, closing. `worker` is the process group, which outlives the process that
spawned it; `file` is the status file, whose first terminal status stands (the
protocol of its two files is in `CallerWork`). A write that throws (`StoreThrows`)
took effect or not: `atomicWriteJson` may fail after its rename, and a terminal
status is an anchor and then the status file (`jobs/status.ts:206-231`), of which
readers prefer the first. `Finish` may therefore leave an outcome on disk whose
promise was rejected; `past[j].thrown` remembers it. `Settle` awaits one promise
after the other (`ctl.cur`): one that is rejected while it is awaited makes the job
ambiguous, one that was rejected before leaves what is on disk.
`JobDispatch` adds the run:
`StartNext`, `MarkRunning`, `Race` and `Release` are the loop of
`executeProcessDispatch` at its awaits; `Collect`, `Inspect`, `Complete` and
`Executed` the other commands; `Abort` and `SeeJobRequest` the watcher;
`Failing`, `Settle` and `Stop` are `handleControllerFailure`; `Reconcile*`,
`Cancel*`, `Repair` and `Continue` the calls that find no owner. The owner may
crash, its tasks with it, or be taken over: its tasks become zombies that go on
with files and workers until its heartbeat fails, while its log entries are
refused (that is what `OwnedLog` promises).

### `HostLane`

`Create`, `WriteLock`, `ReadLock`, `RemoveLock`, `ReadOwn`, `EraseOwn` are the
file-system calls of `acquireClaudeDesktopLaneLock` and its `release`; an
exclusive creation and the write of the contents are two steps. `Signal*` is the
handler of SIGTERM and SIGINT, which releases the lock while `main` goes on.
`Publish` to `Withdraw` is `call` of the file bridge at each of its reads, with
the rename at the deadline; `Peek`, `HostExpires`, `Claim`, `Act`, `Respond` are
the host. `of` says which requests are repetitions of one action.

## 4. What the runs check

| Run | Instance | What it shows |
|---|---|---|
| `lock_crash` | 3 calls, crashes | exclusion and a single token outside the undercut window; every call returns |
| `lock_pause` | 3 calls, 1 suspended | overlapping calls differ in their generation, only the newest succeeds |
| `lock_serialized` | 3 calls, crashes | *violated*: the comment of `withRuntimeLeaseMutation` says the calls are serialized |
| `lease_crash` | 2 runtimes, crashes | the five promises of the lease and the refinement of `OwnedLog` |
| `lease_pause` | 2 runtimes, 1 suspended | what remains true when a call is suspended past the stale age |
| `lease_paused_writer` | 2 runtimes, 1 suspended | *violated*: "a paused previous writer can only modify its fenced-off epoch" |
| `reader` | 2 runtimes and a reader | a lock-free load knows every durable cutoff and no other |
| `caller_crash` | 2 callers, 2 processes, a late clock, 1 crash | claims, tokens, replay, submission retries, settlement in the end |
| `caller_takeover` | 1 caller, 2 processes, a late clock, 1 crash, 1 takeover | agreement of the two stores, proven success, one executor |
| `controller_exchange` | 2 rounds, 2 conversations, six plans of 2 to 5 faults | nothing is asked twice, no answer is used twice or left unused, retries and the archive are clicked within their permissions |
| `controller_frozen` | a prompt that differs from the one on record | *violated*: such a change "freezes the run for manual review" |
| `services` | 6 instances of jobs, 5 of the lane | limits, truth of the log, quiet after release, cancellation settles; one action per request, one daemon |

**Bounds.** A race of the lock needs a dead call, the one that reclaims it and
one that comes between, so three calls. The lease needs an owner and its
successor, in `lease_paused_writer` the suspended writer and the one that
removes its token. One or two events and heartbeats per owner are
enough, because the cutoff compares one sequence number. Generations and owner
ids are bounded by their number, not reused. In `CallerWork` a second process
is the one that interferes, two tokens make a release and a second claim, the
clock reaches one time after the last renewal can expire (`MayRenew` names that
bound), and the slow clock is one tick behind, which is enough to see an
expired claim as live and to be behind a heartbeat. `caller_takeover` has one caller
because who the caller is matters only to `TokenNamesOneCaller`, which does not
depend on takeovers, and no progress report, because its writes are those of
the heartbeat of a started claim.

In `controller_exchange` every plan has the faults that one recovery of the
code deals with, in any order and combination: two of them reach a failure
during the recovery from another, the longer plans a re-armed retry and a proof
that was contradicted. Two rounds are enough because a round is compared with
the one before only, two conversations because a rotation looks at the old one
and the new one, and request ids are bounded by `MaxIds`. The run has been checked
as well with all pairs of all faults at once (752,770 states), without an error.
`services` has a job per kind (work, foreground and background advice) and two
jobs of one lane; three commands make a dispatch that meets background advice of
the one before. One fault meets everything, two meet one job (a crash and then a
failing disk). Larger instances were checked as far as they went: three jobs with
all commands and a fault (16 million states, stopped, no error), two daemons, two
hosts and two requests with a crash and signals (10 million states, stopped, no
error). Three daemons are needed for the lock: one that died, and two that
replace it.

**Fairness.** `MutationLock`: weak fairness of every step of a call that has not
crashed (the process runs), and strong fairness of `StatStale`: evidence that
is stale stays stale, and the contender polls, so that it finally looks while
the evidence is there. No crash, suspension or timeout is ever forced.
`CallerWork`: weak fairness of the steps of a call and of the clock, and strong
fairness of a continuation by a process whose clock is right: the host of a run
continues it again and again, and `reconcileExpiredCallerWorkClaims` is the first thing
a continuation does; it is strong because other calls hold the lease in between.

`ControllerHandoff`: weak fairness of the steps of the process, of the answer
(the page answers what it was asked) and of the continuation of a run that
nobody drives (the host continues it); no fault and no operator is forced.
`JobDispatch`: weak fairness of the control loop, of the watcher's abort, of the
steps of each task, and of the end of a worker that was told to stop, which is
killed 250 ms later and whose pipes are given up after another second. A worker
that nobody stops need never end.

**History variables** (`undercut`, `strayed`, `owed`, and in `CallerWork`
`granted`, `began`, `reported`; `retries`, `grants`, `archived` in
`ControllerTurn`, `past` and `missed` in the job modules, `acted` in
`HostLane`) record what happened or what callers were told;
no guard but the input of later calls (a proof is one that was granted) reads
them.

### Findings

1. `lock_serialized`: two contenders see the same empty stale directory. The
   first removes it and makes its own; before it has created its token the
   second's `rmdir` removes that directory too and makes a third one. Both then
   create their tokens in it, and two live calls run their operations at once.
2. `lease_paused_writer`: the fence is read after the token is created and the
   token is not looked at again. A writer suspended between the two resumes
   after the reclaimer rotated the fence, takes the rotated fence as its own
   context, passes the last check, and its append is acknowledged and then
   excluded by the cutoff of the takeover.
3. `controller_frozen`: a turn proven unsent is asked again with the prompt on
   record; if the prompt that would be sent now differs, the code records
   `CONTROLLER_NOT_SENT_PROMPT_MISMATCH`, which
   `docs/state-and-recovery.md:104` says freezes the run. The next continuation
   finds no pending turn and no confirmed recovery and asks the new prompt as
   an ordinary turn.

### Other observations

They contradict no property of a run; a reader of the code may want to know them.

* Of an attachment that it finds in the composer the code knows what the record says.
  `core/controller-loop.ts:902-904` calls the staged record a proof that the attachment
  "is this exact prompt". The record is kept when the attachment is not: the answer
  of a request fails and is rejected, a repair of the request is staged as an
  attachment, the process dies, and a reload empties the composer; the continuation
  records the repair as not sent and dies. The operator, who sees the first message of
  that request, confirms it, and its failure is retried as a second request, whose
  process dies with its attachment in the composer. That retry is given up as not
  sent, which makes the proof of the first request current again
  (`core/state-machine.ts:1376-1383`), and the loop replays that one: the number of messages
  is the recorded one, the hash is that of the prompt on record, and the attachment
  of the second request is sent as that of the first. The page answers the second
  request while the first is awaited, the answer is rejected as a mismatch, and
  the round is asked again beside a valid answer. TLC finds this history against
  `OwnPrompt`, and then against `ImplementsExchange`, with one round, two request
  ids and the plan `[faults |-> {"failed", "crash", "reload"}, left |-> 5]`; no plan of `controller_exchange` allows so many faults of that group.
* `manual_submission_confirmed` brings a turn back without its round
  (`core/state-machine.ts:1517`), so that a run may accept more commands than
  `maxRounds` rounds suggest. For the same reason a round that has its command may be
  asked again, as the retry of a request whose message has its answer in the
  conversation; `UnsentUntilCheckpoint` therefore speaks of the messages whose
  round has no command yet.
* The re-arming of a delivery retry (`core/controller-loop.ts:1334-1357`) is not
  limited to once, although a test is named so
  (`test/integration/delivery-timeout-recovery.test.ts:360`): every further failure
  of the old adapter re-arms it. `RetryWithinGrant` counts a re-arming as a permission.
* A worker whose pid is not on record yet when its owner is lost looks gone to
  reconciliation, and its job is ended while it runs. The same holds for the
  worker of an owner that was taken over and has not noticed. `missed` names
  those jobs, and `WithinLimits` and `LogTellsTheTruth`, and with them the theorems
  `LimitsHold` and `EndedJobsAreTrue`, except them: of a worker that goes on after its
  job was given up they say nothing.
* The log and the disk may end up with two definite outcomes of one job. When the
  anchor of a terminal status exists and the write then fails, `completeOnce` rejects
  (`jobs/supervisor.ts:213-220`) and the dispatch records `failed`
  (`core/controller-command-execution.ts:261-268`), without reading the disk as
  `persistControllerTerminalStatus` does on the other path; the disk says
  `succeeded`, and nothing reconciles the two: the log's status is terminal, and
  `repairOwnerlessTerminalStatus` looks at cancelled and ambiguous jobs only.
  `LogTellsTheTruth` allows exactly this: a `failed` in the log whose write threw.
  It errs on the safe side, a success in the log is always one on disk; but the
  controller may repeat work that was done.
* Background advice whose outcome could not be stored stays running in the log
  until the loop ends or waits for it; a wait then fails the run.
* `resumeExistingPending` of the dispatch is not reached for a process executor:
  unfinished jobs are reconciled before a run continues.
* The lane lock admits two daemons in three ways, which `undercut` names: a lock
  file that was created and not yet written looks unreadable and is removed; two
  daemons that replace a dead one; and the second of the two releases of one
  daemon, by its handler and by `finally`. Also, a lock that disappears between
  the failed creation and the read ends the start with ENOENT
  (`browser/claude-desktop/lane-lock.ts:33`).
* A request that the *host* finds expired is moved away by the host; the bridge
  takes the disappearance for a claim and reports an unknown outcome of an action that
  was never taken. It errs on the safe side: nothing is repeated.

Two histories of `CallerWork` are no violations of anything the repository
says, and worth knowing. A cancellation that dies between the terminal record and
its event leaves a job that is cancelled on disk and pending in the events: it
can still be claimed, and started in the events, until the status file refuses;
expiry then throws `CALLER_JOB_RESULT_CONFLICT` until the cancellation is
repeated (`StartedIsSettled` excepts it). And a success submitted after a review
or an expiry that died in the same place is answered `submitted` while the
stored status is `ambiguous`; `ReportedStands` is about the stored status.

## 5. What is proved

| Module | Theorems | Assumes |
|---|---|---|
| `MutationLockProofs` | `TypeCorrect`, `Fencing`, `OneTokenOnly`, `NewestSucceeds`, `Exclusion` | the constants' assumption; `Exclusion` also `Pausable = {}` |
| `OwnedLog` | `Promise`: owners are not interleaved and cutoffs exclude nothing acknowledged | `Nobody` is not an owner |
| `RuntimeLeaseProofs` | `TypeCorrect`; `AckedKept`, `OwnersSucceed`: the promises with any runtimes suspended, unless a call strayed | the constants' assumption |
| `LeaseImplements` | `Refinement`, `AckedForGood`, `OneOwner`, `OwnerKnows`, `CutoffsKept`; of the reader `ReaderTyped`, `NoCutoffMissed`, `NoCutoffInvented` | `Pausable = {}` |
| `CallerWorkProofs` | `TypeCorrect`, `Agreement`, `OneCallerPerToken`, `OwnersAppendsCount`, `OneBegins`, `ReportsStand`, `SuccessAnnounced`, `NoStaleFile` | the constants' assumption |
| `HandoffProofs` | `TypesHold`, `RetryPermitted`, `ArchivedOnce` | the constants' assumption |
| `ExchangeProofs` | `AgreementKept`, `NothingOrphaned`: every awaited message has its pending turn; `CheckpointBeforeClick`: `UnsentUntilCheckpoint`; `PromiseKept`: the refinement of `Exchange` | the constants' assumptions, `[]OwnPrompt`; a true word of the operator |
| | `InlinePrompts`: `OwnPrompt`; `InlinePromiseKept`: the refinement without `[]OwnPrompt` | no prompt becomes an attachment; `InlinePromiseKept` also a true word |
| `ServicesProofs` | `JobsTyped`, `EndedJobsAreTrue`, `ReleaseIsQuiet`, `LimitsHold`; `LaneTypeCorrect`, `OneDaemon`, `ActionHappensOnce`; `ServicesTyped` | the constants' assumptions |

All of them hold for any number of calls, runtimes, processes, claims, events,
generations, rounds, faults, jobs, commands, daemons, hosts and requests.

*Lock.* `Exclusion` rests on `LockInv`: a call between its token and its unlink
has a token (`TokensAreHeld`), whoever is about to unlink a token saw that of a
dead call (`VictimIsDead`), and outside an undercut there is one token and
nobody about to create another (`Alone`). Without `VictimIsDead` a reclaimer
could remove the token of a live call. `Fencing` rests on `FenceInv`: every
generation in use has been published, and an operating call still has its
token, or a rotation is owed, or the fence has moved on (`Covered`).

*Lease.* `LeaseInv` is a conjunction of named parts: `Locked` (inside a call
means holding the lock), `FitsOp` (the step belongs to the operation), `Fenced`
(the context is the fence, except while the call changes it), `Current` (what was read
in this call is still what the files say), `Remembers` (the `#record` of the
owner that the selected lease names carries its cutoffs), `Unused` (a runtime
without a lease has left no trace), `KnowsIt` (an owner that is not retired is
the one the selected lease names) and `WellFormed` (of the files). None of them is inductive
alone: the mapping to `OwnedLog` needs `Current` when a takeover computes its
cutoff and when an append is written, and `Current` needs `Locked` and `Fenced`.
The refinement is proved step by step over the actions and the promises of
`OwnedLog` are then carried back to the lease's own variables.

*Lease under suspension.* A live call that is inside need not hold the lock any
more, so nothing of `LeaseInv` that starts from `Locked` is left. `PauseInv` says,
as long as nobody strayed, who can still succeed. `FenceInv`: a call can succeed
only while it has the generation of the fence (`Works`), one call at most does
(`OneWorks`), a call that holds the lock does, and until a reclaim the one that
does holds it (`Rights`); generations are not shared, and the fence only moves
up (`Generation`, `CopyIsNew`). `RunInv` speaks of two leases at a time: the selected
one, and the copy that a rotation under way is going to select. What a call read
holds of the first while the call can succeed (`Answers`); each of the two suits
every runtime, as far as it goes on writing (`Suits`), and under each of them the log is a
succession of owners that keeps what was acknowledged (`Sound`). The copy must be there
because a suspended owner may append, check its right and return between the copying
and the rotation; `Aligned` says that it then finds its right in the copy too. TLC
has checked both parts on the instance of `lease_pause` (841,073 states) and
with both runtimes suspended (2,050,332 states).

*Reader.* `NoCutoffMissed` rests on `ReaderInv`, beside `LeaseInv` for the writers.
A cutoff moves from the lease to a marker, and a reader could look at each of the two places when
it is in the other. It does not, because the fence only moves forward: a lease
that was read between two equal fences is the selected one still
(`SelectedOrPassed`), so that what was known at the start is in it or among the
markers by now (`ReadWell`), and the same holds of the snapshot before the listing
(`ComparedWell`).

*Caller jobs.* `Agreement` holds with suspended owners, takeovers and crashes at
any step, because it does not depend on who owns the run. `AgreeInv` adds to the
property that every plan is *backed*: an event that ends the job with a status
is either preceded, in the same plan, by the creation of that terminal record
or the record already says so. `TerminalAgrees` alone is not inductive: it does not see
that a suspended call is still going to append. A plan is shown to be
backed operation by operation (`PlanIsGood`), by lemmas on how backed sequences
are concatenated; a step keeps the plans of the other processes backed since the
record is created once and never changed (`BackedLater`, `BackedTail`).

The other theorems rest on `CoreInv`: what a call loaded and planned fits what
is there when it gets to its steps, although anybody may have appended in between.
While a process owns the run, its plan still fits the job (`Fits`: the reducer accepts the first
change, and a second one is the claim that follows a release). Whoever owns it, a plan keeps its order
(`Ordered`: the intent before the record, the record before the event) and relies on
intents that are in the events (`Kept`). `NamesInv` follows a token through every place that
can name a caller: an answer given, an answer promised by a plan that appends
nothing more, a job that was loaded, the job itself. `NoStaleFile` holds without
a crash only: a process that dies between the terminal record and its copy leaves
the older status in the file.

*Exchange.* `Inv` of `HandoffProofs` has three parts. `TypeInv` gives the run, the
events that wait in `todo` and the attempt in memory their shape; one lemma per event type
says what that event makes of a run (`Good`: its shape, that it gives no permission for
Retry, and that it leaves archive and conversation alone), and `CalmGood` puts them together for
whatever event comes first in `todo`. `RetryInv` counts *credits*: a permission on
record, a checkpoint of the click that is on record while the click is not done, and a
re-armed permission that waits in `todo`. There are never two for one request, and each is
covered by a grant that no click has used. `RetryWithinGrant` alone is not inductive: it does
not see that a crash between the checkpoint and the click loses the permission, nor that
a permission which is about to be recorded must not be in force already. `ArchiveInv`
follows the completed run: a run becomes complete in a known conversation only, which
needs that a command is accepted only after an answer bound it, and then stays in the
steps of the archive, where the click has its checkpoint before it and `archive`
never returns to `pending`.

*The promise of the exchange.* `Agreement` of `ExchangeProofs` adds `Keeps` to `Inv`.
`NoOrphan` is not inductive: it speaks of the record and the conversation, and
forgets what the process is about to do with the answer in its hand. `Keeps` is

* `Lasting`, what the record, the page and the requests know of one another:
  rounds have commands without a gap (`Closed`), a command has an answer of its own
  (`Backed`), no request id is used twice (`Issued`), turns and messages are of
  a round that was reached (`Rounds`), an awaited message is the last one, stands
  above an empty composer and has a pending turn past its checkpoint
  (`Covered`), and what came after the baseline of the only turn is its own
  (`Based`);
* `Course`, what the process is at: going through a submission or recovery with
  events that leave the turns alone (`Going`), giving a turn up that was
  not sent (`Abandoning`), accepting a command after the turns it was preferred
  to (`Accepting`), confirming a message sent by hand (`Confirming`), and, once
  the run has ended, only archiving (`Ending`).

All turns and messages whose rounds have no command are then of the *same* round
(`SameRound`), which is what makes it safe to ask again or to accept. A message
confirmed by hand after its round was given up makes the run go back to a round
that may have its command (`Behind`, see the observation above): while it is there, every turn and
message of the conversation has one, and nothing is awaited. For the refinement
each action is mapped to a step of `Exchange`: a click, a click that reports an
error, and a confirmation by hand of a message that is not there yet *ask*; an
answer of the page, its Retry and the disappearance of a message *answer*; the
append of an accepted command *accepts*; everything else changes neither the
messages nor the commands.

`Agreement` says `Truthful => Keeps`, and the two conditions are real. With a
*wrong word of the operator*, together with a prompt that differs from the one
on record, the loop may ask a round twice: the operator may say that a message was
not sent which was. `[]OwnPrompt` is needed because *whose attachment the composer
holds* is on no record that the code compares: the first of the other observations is a history in which a
submission adopts the staged attachment of another request, and after it the
promise of `Exchange` is broken. The theorems say that there is no other way to
break it. Within the plans of `controller_exchange`, and without attachments for any plan
(`InlinePrompts`: the comparison of the text decides), the condition holds.

`CheckpointBeforeClick` adds `Unsubmitted` to `Agreement`: a request has one
pending turn at most (`Unique`), and a turn that is only requested has no awaited message,
unless the operator is just confirming that message (`Confirmed`). The second part
alone is not inductive, because an event names a request and not a turn. Every event of the log but
a request leaves fewer requested turns than before; a request is one of a round
without an awaited message (that is `Agreement`), and a message that is posted belongs to
a turn that passed its checkpoint.

*Jobs.* `JobsInv` relates the four places in which a job is: `Shaped` (the task,
the worker and the file, whoever owns the run), `Recorded` (what the log says),
`Controlled` (what an owner knows: a job that runs in the log has a task of its own,
which only this owner ends) and `Unowned` (what a reconciliation or a cancellation has read
still holds when it writes). The steps of a task or worker are proved together by what they may do to one job
(`Advances`). Outcomes agree because of two facts that `LogTellsTheTruth` does not see:
a promise knows what is on disk unless its write threw (`Explained`), and a failure
that the log invents while nothing is on disk is recorded only when no task is left
that could still store another outcome (`Agrees`). `LimitsHold` needs in addition that while jobs are queued, every job that may
have a worker is among the active ones (`Limits`): the count that admits the
next job would otherwise miss background advice of an earlier command. It also
needs that the jobs which may have a worker are never more than before, but for the
step that starts one.

*Lane.* `ActionHappensOnce` rests on `ClaimInv` and `RetryInv`. A request that
was withdrawn is among the expired ones (`Placed`), nobody acts on one that no host
has renamed (`Untaken`), a host about to act is the first (`Unacted`) and the only
one (`Alone`); `RetryInv` says that of the requests for one action all but the last of
their daemon were withdrawn unclaimed. The property alone is not inductive: it does not see the host that
is about to act. `OneDaemon` rests on `LockInv`: until somebody removes a lock that it
had not read, a daemon between its creation and its release is the one that the
lock names.

*Services.* `ServicesTyped` is about the composition: whichever instance an initial state
picks, a behaviour of `MCServices` is a behaviour of the jobs and one of the lane, of
which one stutters throughout, so that the theorems of both apply.

Only model-checked: everything with fairness (`EveryCallReturns`,
`StartedIsSettled`, `AnswerUsed`, `CancelSettles`), because liveness is out of
reach of the prover. Nothing is claimed of an exchange once `OwnPrompt` has
failed in it: the promise may then be broken, as the observation shows.

## 6. What is not modelled

`PROJECT.json` names each part with its reason. Parsing and rejection of
damaged files, file permissions and the contents of prompts, results and reports
are left out throughout: no property is about them. File-system calls are taken to be
atomic and durable in the order in which they return, which is what the code's
`fsync` calls ask for. Not modelled are the lease registry of the MCP server and
the timers of a lease (their calls happen at any moment in `CallerWork`), the creation
of a run and the legacy event log, status files of older versions, evidence
paging and stagnation, the selectors and waits of the browser adapter, the pure
functions of protocol and router, and the read-only commands.
