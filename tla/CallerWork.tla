----------------------------- MODULE CallerWork -----------------------------
(***************************************************************************)
(* One job that the controller handed to the caller: claim, start, renewal *)
(* and progress of a claim, result submission, expiry, review, release and *)
(* cancellation (src/api-caller-work.ts, submitCueLineCallerJobResult,     *)
(* cancelCueLineJob), over two stores: the authoritative events of the run *)
(* and the job's status file with its immutable terminal anchor            *)
(* (src/jobs/status.ts).  A call decides what it will do from what it has  *)
(* loaded and then performs a list of steps, each of them one append or    *)
(* one file operation; other calls, crashes and takeovers come between.    *)
(*                                                                         *)
(* The run's lease and log are what OwnedLog promises: an append succeeds  *)
(* exactly while the caller owns the run.  The status files are not fenced *)
(* by the lease.                                                           *)
(*                                                                         *)
(* Simplifications: two terminal records of different calls differ (they   *)
(* carry timestamps); the pinned workdir does not change, and no claim     *)
(* predates pinning; status files of an older version, with a terminal     *)
(* status and no anchor, do not occur; the record of a dead owner is       *)
(* removed by its crash instead of by the next call; what a call reads     *)
(* before its first write is read in one step, after the load; an event    *)
(* caller_work_result_submitted, which only audits the event before it, is *)
(* not told apart from it; the job belongs to a run that stays alive, so   *)
(* that cancelling it by the run or by itself is the same.                 *)
(***************************************************************************)
EXTENDS Naturals, Sequences, FiniteSets

CONSTANTS
    Processes,      \* each runs one call at a time
    Slow,           \* the processes whose clock is one tick behind
    Stallable,      \* the processes that may be suspended while they own the run
    Callers,        \* caller ids
    Nobody,         \* no owner, no caller
    Hashes,         \* evidence hashes of progress
    TTL,            \* length of a claim
    MaxTime,        \* bound on the clock
    MaxClaims,      \* bound on the fencing tokens
    MaxCrashes,     \* bound on the crashes
    MaxTakeovers    \* bound on the operator's takeovers

ASSUME CallerWorkAssumption ==
    /\ Slow \subseteq Processes /\ Stallable \subseteq Processes
    /\ Nobody \notin Processes \cup Callers
    /\ TTL \in Nat \ {0} /\ MaxTime \in Nat /\ MaxClaims \in Nat
    /\ MaxCrashes \in Nat /\ MaxTakeovers \in Nat

VARIABLES
    mode,       \* the job's mode
    job,        \* the replayed job: status, nextFencingToken, claim
    intent,     \* per token: status of caller_work_result_submission_started
    recorded,   \* is there a caller_job_result_submitted event?
    anchor,     \* <job>.terminal, created once
    file,       \* <job>.json, replaceable
    owner,      \* the process that owns the run
    clock,
    pc,         \* per process: idle, loading, deciding or running its steps
    call,       \* per process: the operation and its arguments
    mine,       \* per process: the job as it loaded it
    todo,       \* per process: the steps left
    granted,    \* claims that a claim call returned: caller and token
    began,      \* tokens for which a start call returned
    reported,   \* statuses that the submissions that returned have stored
    crashes, takeovers

events == <<job, intent, recorded>>
store == <<anchor, file>>
local == <<pc, call, mine, todo>>
told == <<granted, began, reported>>
faults == <<crashes, takeovers>>
vars == <<mode, events, store, owner, clock, local, told, faults>>

Active == {"pending", "running"}
Terminal == {"succeeded", "ambiguous", "cancelled", "failed"}
Claim == [caller : Callers \cup {Nobody}, hb : 0..MaxTime, exp : 0..(MaxTime + TTL),
          started : BOOLEAN, hashes : SUBSET Hashes]
NoClaim == [caller |-> Nobody, hb |-> 0, exp |-> 0, started |-> FALSE, hashes |-> {}]
Job == [status : Active \cup Terminal, token : 0..MaxClaims, claim : Claim]
NewJob == [status |-> "pending", token |-> 0, claim |-> NoClaim]
Grant == [caller : Callers, token : 1..MaxClaims]
NoCall == [op |-> "none", caller |-> Nobody, token |-> 0, value |-> "none"]

TypeOK ==
    /\ mode \in {"work", "advise"}
    /\ job \in Job
    /\ intent \in [1..MaxClaims -> Terminal \cup {"none"}]
    /\ recorded \in BOOLEAN
    /\ anchor \in Terminal \cup {"none"}
    /\ file \in Active \cup Terminal \cup {"none"}
    /\ owner \in Processes \cup {Nobody}
    /\ clock \in 0..MaxTime
    /\ pc \in [Processes -> {"idle", "load", "decide", "run"}]
    /\ mine \in [Processes -> Job]
    /\ granted \subseteq Grant
    /\ began \subseteq 1..MaxClaims
    /\ reported \subseteq Terminal
    /\ crashes \in 0..MaxCrashes /\ takeovers \in 0..MaxTakeovers

\* The job after job_registered.
Init ==
    /\ mode \in {"work", "advise"}
    /\ job = NewJob
    /\ intent = [t \in 1..MaxClaims |-> "none"]
    /\ recorded = FALSE
    /\ anchor = "none"
    /\ file = "none"
    /\ owner = Nobody
    /\ clock = 0
    /\ pc = [p \in Processes |-> "idle"]
    /\ call = [p \in Processes |-> NoCall]
    /\ mine = [p \in Processes |-> NewJob]
    /\ todo = [p \in Processes |-> <<>>]
    /\ granted = {} /\ began = {} /\ reported = {}
    /\ crashes = 0 /\ takeovers = 0

-----------------------------------------------------------------------------
(* The reducer: which events change the job, and how *)

Of(j, e) == j.claim # NoClaim /\ j.claim.caller = e.caller /\ j.token = e.token

\* MUTANT of NotBefore: the boundary of the comparison is lost.
After(time, hb) == time > hb

NotBefore(time, hb) == time >= hb

Accepts(j, e) ==
    CASE e.kind = "claimed"   -> /\ j.status = "pending" /\ j.claim = NoClaim
                                 /\ e.token = j.token + 1
      [] e.kind = "started"   -> /\ Of(j, e) /\ j.status = "pending" /\ ~j.claim.started
                                 /\ NotBefore(e.time, j.claim.hb)
      [] e.kind = "heartbeat" -> /\ Of(j, e) /\ j.status \in Active
                                 /\ NotBefore(e.time, j.claim.hb)
      [] e.kind = "progress"  -> /\ Of(j, e) /\ j.status = "running" /\ j.claim.started
                                 /\ e.value \notin j.claim.hashes
                                 /\ NotBefore(e.time, j.claim.hb)
      [] e.kind = "released"  -> Of(j, e) /\ j.status = "pending" /\ ~j.claim.started
      [] e.kind = "ambiguous" -> Of(j, e) /\ j.status = "running" /\ j.claim.started
      [] e.kind = "review"    -> /\ Of(j, e) /\ j.status = "running" /\ j.claim.started
                                 /\ NotBefore(e.time, j.claim.hb)
      [] e.kind = "status"    -> j.status \in Active \/ j.status = e.value
      [] OTHER -> FALSE

Renewed(j, e) == [j.claim EXCEPT !.hb = e.time, !.exp = e.time + TTL]

Effect(j, e) ==
    CASE e.kind = "claimed"   -> [j EXCEPT !.token = e.token,
                                           !.claim = [NoClaim EXCEPT !.caller = e.caller,
                                                        !.hb = e.time, !.exp = e.time + TTL]]
      [] e.kind = "started"   -> [j EXCEPT !.status = "running",
                                           !.claim = [Renewed(j, e) EXCEPT !.started = TRUE]]
      [] e.kind = "heartbeat" -> [j EXCEPT !.claim = Renewed(j, e)]
      [] e.kind = "progress"  -> [j EXCEPT !.claim =
                                     [Renewed(j, e) EXCEPT !.hashes = @ \cup {e.value}]]
      [] e.kind = "released"  -> [j EXCEPT !.claim = NoClaim]
      [] e.kind \in {"ambiguous", "review"} -> [j EXCEPT !.status = "ambiguous"]
      [] e.kind = "status"    -> [j EXCEPT !.status = e.value]

Replay(j, e) == IF Accepts(j, e) THEN Effect(j, e) ELSE j

-----------------------------------------------------------------------------
(* The steps a call may plan *)

Fact(kind, caller, token, time, value) ==
    [kind |-> kind, caller |-> caller, token |-> token, time |-> time, value |-> value]
NoFact == Fact("none", Nobody, 0, 0, "none")

Step(do, status) == [do |-> do, status |-> status, event |-> NoFact]
Carry(do, fact) == << [do |-> do, status |-> "none", event |-> fact] >>
Log(kind, caller, token, time, value) == Carry("append", Fact(kind, caller, token, time, value))

\* MUTANT of Update: nobody looks again.
UpdateBlindly(status) == << Step("check", status), Step("replace", status) >>

\* JobStatusStore.write of an active status: look for an anchor, replace the
\* file, look again.
Update(status) == << Step("check", status), Step("replace", status), Step("recheck", status) >>

\* JobStatusStore.write of a terminal status: create the anchor, copy it.
Settle(status) == << Step("create", status), Step("copy", status) >>

\* What the call returns to its caller.
Told(caller, token) == Carry("grant", Fact("none", caller, token, 0, "none"))
Begun(token) == Carry("began", Fact("none", Nobody, token, 0, "none"))
Reported(status) == << Step("report", status) >>

-----------------------------------------------------------------------------
(* What each operation decides, from the job it loaded, the clock, and what *)
(* it reads of the status file and of the events                            *)

Now(p) == IF p \in Slow /\ clock > 0 THEN clock - 1 ELSE clock

Expired(p) == mine[p].claim.exp <= Now(p)

\* MUTANT of Regressed: the clock is trusted.
NeverRegressed(p) == FALSE

\* assertClaimClockMonotonic
Regressed(p) == Now(p) < mine[p].claim.hb

\* Bound: a claim is renewed only while it can still expire.
MayRenew(p) == Now(p) + TTL <= MaxTime

Held(p) == mine[p].claim # NoClaim
Exact(p) == Of(mine[p], call[p])        \* exactClaim
IsActive(p) == mine[p].status \in Active

\* An event about the claim the process has loaded.
Note(p, kind, value) == Log(kind, mine[p].claim.caller, mine[p].token, Now(p), value)

\* releaseExpiredUnstartedClaim, and the end of releaseCueLineCallerJob
Releasing(p) == Note(p, "released", "none") \o Update("pending")

\* MUTANT of Proven: a terminal record counts only with an intent.
ProvenByIntent(p) == anchor \in Terminal /\ intent[mine[p].token] = anchor

\* What restoreCallerWorkTerminalEvidence accepts: an ambiguity, or the success
\* that the started claim announced.
Proven(p) ==
    \/ anchor = "ambiguous"
    \/ anchor = "succeeded" /\ mine[p].claim.started /\ intent[mine[p].token] = "succeeded"

\* MUTANT of Ambiguous: the event first, then the anchor.
AmbiguousEventFirst(p) ==
    IF anchor # "none"
    THEN IF Proven(p) THEN Note(p, "status", anchor) ELSE <<>>
    ELSE Note(p, "ambiguous", "none") \o Settle("ambiguous")

\* persistStartedClaimAmbiguous
Ambiguous(p) ==
    IF anchor # "none"
    THEN IF Proven(p) THEN Note(p, "status", anchor) ELSE <<>>
    ELSE Settle("ambiguous") \o Note(p, "ambiguous", "none")

\* assertClaimNotExpired: nothing, or a settlement followed by an exception.
Lapse(p) ==
    CASE Regressed(p) -> <<>>
      [] ~Regressed(p) /\ mine[p].claim.started -> Ambiguous(p)
      [] OTHER -> Releasing(p)
Lapsed(p) == Regressed(p) \/ Expired(p)

\* MUTANT of NextToken: the token of the released claim is given again.
SameToken(j) == IF j.token = 0 THEN 1 ELSE j.token

NextToken(j) == j.token + 1

Claiming(p) ==
    IF mine[p].status = "pending" /\ MayRenew(p) /\ mine[p].token < MaxClaims
    THEN Log("claimed", call[p].caller, NextToken(mine[p]), Now(p), "none")
         \o Update("pending") \o Told(call[p].caller, NextToken(mine[p]))
    ELSE <<>>

ClaimPlan(p) ==
    CASE mode # "work" \/ ~IsActive(p) -> <<>>
      [] mode = "work" /\ IsActive(p) /\ ~Held(p) -> Claiming(p)
      [] mode = "work" /\ IsActive(p) /\ Held(p) /\ ~Expired(p) ->
           IF mine[p].claim.caller = call[p].caller
           THEN Told(call[p].caller, mine[p].token)             \* already_claimed
           ELSE <<>>
      [] OTHER -> IF mine[p].claim.started THEN Ambiguous(p) ELSE Releasing(p) \o Claiming(p)

StartPlan(p) ==
    CASE ~Exact(p) \/ ~IsActive(p) -> <<>>
      [] Exact(p) /\ IsActive(p) /\ Lapsed(p) -> Lapse(p)
      [] Exact(p) /\ IsActive(p) /\ ~Lapsed(p) /\ mine[p].claim.started ->
           Begun(mine[p].token)                                 \* already_started
      [] OTHER -> IF MayRenew(p)
                  THEN Note(p, "started", "none") \o Update("running") \o Begun(mine[p].token)
                  ELSE <<>>

HeartbeatPlan(p) ==
    CASE ~Exact(p) \/ ~IsActive(p) -> <<>>
      [] Exact(p) /\ IsActive(p) /\ Lapsed(p) -> Lapse(p)
      [] OTHER -> IF MayRenew(p)
                  THEN Note(p, "heartbeat", "none")
                       \o Update(IF mine[p].claim.started THEN "running" ELSE "pending")
                  ELSE <<>>

ProgressPlan(p) ==
    CASE ~Exact(p) \/ mine[p].status # "running" \/ ~mine[p].claim.started -> <<>>
      [] Exact(p) /\ mine[p].status = "running" /\ mine[p].claim.started /\ Lapsed(p) -> Lapse(p)
      [] OTHER -> IF MayRenew(p) /\ call[p].value \notin mine[p].claim.hashes
                  THEN Note(p, "progress", call[p].value) \o Update("running")
                  ELSE <<>>                             \* progress_already_recorded

ReviewPlan(p) ==
    CASE ~Exact(p) \/ mine[p].status # "running" \/ ~mine[p].claim.started -> <<>>
      [] Exact(p) /\ mine[p].status = "running" /\ mine[p].claim.started
           /\ (anchor # "none" \/ (Expired(p) /\ ~Regressed(p))) -> Ambiguous(p)
      [] OTHER -> IF Regressed(p) THEN <<>>
                  ELSE Settle("ambiguous") \o Note(p, "review", "none")

ReleasePlan(p) ==
    CASE ~Exact(p) \/ ~IsActive(p) -> <<>>
      [] Exact(p) /\ IsActive(p) /\ Lapsed(p) -> Lapse(p)
      [] OTHER -> IF mine[p].claim.started THEN <<>> ELSE Releasing(p)

\* reconcileExpiredCallerWorkClaims, at every continuation
ExpirePlan(p) ==
    IF mode = "work" /\ IsActive(p) /\ Held(p) /\ Expired(p)
    THEN IF mine[p].claim.started THEN Ambiguous(p) ELSE Releasing(p)
    ELSE <<>>

\* MUTANT of SubmissionSteps: the terminal record before its intent.
SubmissionResultFirst(p, status) ==
    (IF anchor = "none" THEN Settle(status) ELSE <<>>)
    \o (IF mode = "work" /\ intent[mine[p].token] = "none"
        THEN Note(p, "intent", status) ELSE <<>>)
    \o (IF recorded THEN <<>> ELSE Note(p, "submitted", status))
    \o Note(p, "status", status) \o Reported(status)

\* MUTANT of SubmissionSteps: what an earlier submission recorded is not reduced.
SubmissionOnce(p, status) ==
    (IF mode = "work" /\ intent[mine[p].token] = "none"
     THEN Note(p, "intent", status) ELSE <<>>)
    \o (IF anchor = "none" THEN Settle(status) ELSE <<>>)
    \o (IF recorded THEN <<>>
        ELSE Note(p, "submitted", status) \o Note(p, "status", status))
    \o Reported(status)

SubmissionSteps(p, status) ==
    (IF mode = "work" /\ intent[mine[p].token] = "none"
     THEN Note(p, "intent", status) ELSE <<>>)
    \o (IF anchor = "none" THEN Settle(status) ELSE <<>>)
    \o (IF recorded THEN <<>> ELSE Note(p, "submitted", status))
    \o Note(p, "status", status) \o Reported(status)

\* validateCallerWorkResultClaim: a result that is already announced and on disk
\* needs no live claim, and only a started claim has a result.
Validated(p, durable, steps) ==
    CASE ~durable /\ Lapsed(p) -> Lapse(p)
      [] (durable \/ ~Lapsed(p)) /\ mine[p].status = "running" /\ mine[p].claim.started -> steps
      [] OTHER -> <<>>

\* The terminal record on disk, if there is one, replaces the submitted result.
SubmitPlan(p) ==
    LET status == IF anchor # "none" THEN anchor ELSE call[p].value
        announced == IF Exact(p) /\ mode = "work" THEN intent[mine[p].token] ELSE "none"
        durable == anchor # "none" /\ announced = anchor
    IN  CASE ~IsActive(p) \/ (mode = "work" /\ ~Exact(p)) -> <<>>
          [] IsActive(p) /\ mode = "advise" -> SubmissionSteps(p, status)
          [] IsActive(p) /\ mode = "work" /\ Exact(p)
               /\ (\/ anchor = "succeeded" /\ announced # "succeeded"
                   \/ announced \notin {"none", status}) -> <<>>   \* CALLER_JOB_RESULT_CONFLICT
          [] OTHER -> Validated(p, durable, SubmissionSteps(p, status))

\* MUTANT of Cancelled: the status that the job had is recorded.
CancelledAsIs(status) == status

\* Work that may have begun has an unknown outcome.
Cancelled(status) == IF status = "pending" THEN "cancelled" ELSE "ambiguous"

\* cancelCueLineJob when no runtime owns the run, and what cancelCueLineRun does
\* with each job. A terminal job without a terminal record is repaired.
CancelPlan(p) ==
    CASE ~IsActive(p) ->
           IF anchor = "none" /\ mine[p].status \in {"cancelled", "ambiguous"}
           THEN Settle(mine[p].status) ELSE <<>>
      [] IsActive(p) /\ anchor # "none" -> Note(p, "status", anchor)
      [] OTHER -> Settle(Cancelled(mine[p].status)) \o Note(p, "status", Cancelled(mine[p].status))

Plan(p) ==
    CASE call[p].op = "claim"     -> ClaimPlan(p)
      [] call[p].op = "start"     -> StartPlan(p)
      [] call[p].op = "heartbeat" -> HeartbeatPlan(p)
      [] call[p].op = "progress"  -> ProgressPlan(p)
      [] call[p].op = "review"    -> ReviewPlan(p)
      [] call[p].op = "release"   -> ReleasePlan(p)
      [] call[p].op = "expire"    -> ExpirePlan(p)
      [] call[p].op = "submit"    -> SubmitPlan(p)
      [] call[p].op = "cancel"    -> CancelPlan(p)

-----------------------------------------------------------------------------
(* A call: claim the lease, load the run, decide, perform the steps, release *)

At(p, label) == pc[p] = label
Does(p, step) == pc[p] = "run" /\ todo[p] # <<>> /\ Head(todo[p]).do = step
Proceed(p) == todo' = [todo EXCEPT ![p] = Tail(@)] /\ UNCHANGED <<pc, call, mine, owner>>

\* The call returns or throws; the finally block releases the lease.
Leave(p) ==
    /\ owner' = IF owner = p THEN Nobody ELSE owner
    /\ pc' = [pc EXCEPT ![p] = "idle"]
    /\ call' = [call EXCEPT ![p] = NoCall]
    /\ mine' = [mine EXCEPT ![p] = NewJob]
    /\ todo' = [todo EXCEPT ![p] = <<>>]

Request(op, g, value) == [op |-> op, caller |-> g.caller, token |-> g.token, value |-> value]
Anyone == [caller |-> Nobody, token |-> 0]

\* The calls that can be made; a proof names a claim that was granted.
Calls ==
    {Request("claim", [caller |-> c, token |-> 0], "none") : c \in Callers}
    \cup {Request(o, g, "none") : o \in {"start", "heartbeat", "review", "release"}, g \in granted}
    \cup {Request("progress", g, h) : g \in granted, h \in Hashes}
    \cup {Request("submit", g, v) : g \in granted, v \in {"succeeded", "ambiguous"}}
    \cup {Request("submit", Anyone, v) : v \in IF mode = "advise" THEN {"succeeded", "failed"} ELSE {}}
    \cup {Request(o, Anyone, "none") : o \in {"expire", "cancel"}}

Enter(p, request) ==
    /\ At(p, "idle") /\ owner = Nobody
    /\ owner' = p
    /\ call' = [call EXCEPT ![p] = request]
    /\ pc' = [pc EXCEPT ![p] = "load"]
    /\ UNCHANGED <<mode, events, store, clock, mine, todo, told, faults>>

Load(p) ==
    /\ At(p, "load")
    /\ mine' = [mine EXCEPT ![p] = job]
    /\ pc' = [pc EXCEPT ![p] = "decide"]
    /\ UNCHANGED <<mode, events, store, owner, clock, call, todo, told, faults>>

Decide(p) ==
    /\ At(p, "decide")
    /\ todo' = [todo EXCEPT ![p] = Plan(p)]
    /\ pc' = [pc EXCEPT ![p] = "run"]
    /\ call' = [call EXCEPT ![p] = NoCall]
    /\ mine' = [mine EXCEPT ![p] = NewJob]
    /\ UNCHANGED <<mode, events, store, owner, clock, told, faults>>

\* RunStore.append: accepted from the owner, refused from anyone else.
AppendEvent(p) ==
    /\ Does(p, "append")
    /\ LET e == Head(todo[p]).event
       IN  IF owner # p THEN Leave(p) /\ UNCHANGED events
           ELSE /\ job' = Replay(job, e)
                /\ intent' = IF e.kind = "intent" /\ intent[e.token] = "none"
                             THEN [intent EXCEPT ![e.token] = e.value] ELSE intent
                /\ recorded' = (recorded \/ e.kind = "submitted")
                /\ Proceed(p)
    /\ UNCHANGED <<mode, store, clock, told, faults>>

\* The look before and the look after the replacement.
Look(p) ==
    /\ Does(p, "check") \/ Does(p, "recheck")
    /\ IF anchor # "none" THEN file' = anchor /\ Leave(p)
                          ELSE UNCHANGED file /\ Proceed(p)
    /\ UNCHANGED <<mode, events, anchor, clock, told, faults>>

ReplaceFile(p) ==
    /\ Does(p, "replace")
    /\ file' = Head(todo[p]).status
    /\ Proceed(p)
    /\ UNCHANGED <<mode, events, anchor, clock, told, faults>>

\* The first terminal record wins; a different one throws.
CreateTerminal(p) ==
    /\ Does(p, "create")
    /\ IF anchor = "none" THEN anchor' = Head(todo[p]).status /\ Proceed(p)
                          ELSE UNCHANGED anchor /\ Leave(p)
    /\ UNCHANGED <<mode, events, file, clock, told, faults>>

CopyTerminal(p) ==
    /\ Does(p, "copy")
    /\ file' = anchor
    /\ Proceed(p)
    /\ UNCHANGED <<mode, events, anchor, clock, told, faults>>

\* The lease is released and the caller receives the answer.
Answer(p) ==
    /\ \E step \in {"grant", "began", "report"} : Does(p, step)
    /\ LET s == Head(todo[p])
       IN  /\ granted' = IF s.do = "grant"
                         THEN granted \cup {[caller |-> s.event.caller, token |-> s.event.token]}
                         ELSE granted
           /\ began' = IF s.do = "began" THEN began \cup {s.event.token} ELSE began
           /\ reported' = IF s.do = "report" THEN reported \cup {s.status} ELSE reported
    /\ Leave(p)
    /\ UNCHANGED <<mode, events, store, clock, faults>>

Return(p) ==
    /\ At(p, "run") /\ todo[p] = <<>>
    /\ Leave(p)
    /\ UNCHANGED <<mode, events, store, clock, told, faults>>

-----------------------------------------------------------------------------
(* Time, crashes and takeovers *)

Tick ==
    /\ clock < MaxTime
    /\ clock' = clock + 1
    /\ UNCHANGED <<mode, events, store, owner, local, told, faults>>

\* The process dies in its call, and the next call retires its lease.
Crash(p) ==
    /\ ~At(p, "idle") /\ crashes < MaxCrashes
    /\ crashes' = crashes + 1
    /\ Leave(p)
    /\ UNCHANGED <<mode, events, store, clock, told, takeovers>>

\* The operator takes the run over from an owner whose heartbeat is stale, and
\* then releases it; the old owner knows nothing of it.
TakeOver ==
    /\ owner \in Stallable /\ takeovers < MaxTakeovers
    /\ takeovers' = takeovers + 1
    /\ owner' = Nobody
    /\ UNCHANGED <<mode, events, store, clock, local, told, crashes>>

Work(p) ==
    \/ Load(p) \/ Decide(p) \/ AppendEvent(p) \/ Look(p) \/ ReplaceFile(p)
    \/ CreateTerminal(p) \/ CopyTerminal(p) \/ Answer(p) \/ Return(p)

Expire(p) == Enter(p, Request("expire", Anyone, "none"))

Next ==
    \/ \E p \in Processes : \E request \in Calls : Enter(p, request)
    \/ \E p \in Processes : Work(p) \/ Crash(p)
    \/ TakeOver
    \/ Tick

Spec == Init /\ [][Next]_vars

\* A call goes on unless it crashes, time passes, and processes whose clock is
\* right continue the run again and again.
FairSpec ==
    /\ Spec
    /\ \A p \in Processes : WF_vars(Work(p))
    /\ WF_vars(Tick)
    /\ SF_vars(\E p \in Processes \ Slow : Expire(p))

-----------------------------------------------------------------------------
(* Properties *)

\* "Commit the first-terminal fence before changing authoritative replay": the
\* events never say that the job ended in a way its terminal record does not.
TerminalAgrees == job.status \in Terminal => anchor = job.status

\* A work job has a terminal success only if the claim that holds it was started
\* and announced that success in the events first, crashes or not.
SuccessIsProven ==
    mode = "work" /\ anchor = "succeeded" =>
        job.claim.started /\ intent[job.token] = "succeeded"

\* startCueLineCallerJob tells at most one claim to begin the local work, however
\* claims expire, are released and are taken again.
OneExecutor == Cardinality(began) <= 1

\* A fencing token stands for one caller.
TokenNamesOneCaller == \A g, h \in granted : g.token = h.token => g.caller = h.caller

\* The calls refuse "a transition that the event reducer would reject": whatever
\* the owner is about to append, replay takes.
NothingIgnored ==
    \A p \in Processes :
        Does(p, "append") /\ owner = p /\ Head(todo[p]).event.kind \notin {"intent", "submitted"}
            => Accepts(job, Head(todo[p]).event)

FileSteps == {"check", "replace", "recheck", "create", "copy"}
WritesFile(p) == \E i \in DOMAIN todo[p] : todo[p][i].do \in FileSteps

\* "Preventing stale writers from regressing completed work": without a crash, a
\* late write of an active status does not stay over the terminal record.
FileAgrees ==
    crashes = 0 /\ anchor # "none" /\ (\A p \in Processes : ~WritesFile(p)) => file = anchor

\* What a submission reports as stored is and stays the job's status.
ReportedStands == reported # {} => reported = {job.status}

\* A started job does not run for ever: it reaches a terminal status, unless its
\* terminal record is a cancellation or a failure, which only a further cancel
\* carries into the events.
StartedIsSettled ==
    job.status = "running" ~> (job.status \in Terminal \/ anchor \in {"cancelled", "failed"})
=============================================================================
