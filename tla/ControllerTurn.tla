--------------------------- MODULE ControllerTurn ---------------------------
(***************************************************************************)
(* One exchange with the controller, a language model behind a web page:   *)
(* requestControllerCommand (src/core/controller-turn.ts) and the part of  *)
(* the page adapter that sends (src/browser/codex-iab/chatgpt-client.ts):  *)
(* append the request, look at the page, fill the composer, append the     *)
(* checkpoint of the submission, click once, look for a proof of the       *)
(* submission, wait for the answer, append it, parse it, and ask for a     *)
(* repair or accept it.  The page is the environment: it may lose, delay   *)
(* or garble what the process does, within a plan of Plans.                *)
(*                                                                         *)
(* Simplifications: one process owns the run at any time (the lease        *)
(* modules are about that) and its crash loses everything but the events   *)
(* and the page; reads of the page that are stable evidence in the code    *)
(* are truthful; a message is delivered by the click or never; a crash can *)
(* only happen between events, every other step of the code having no      *)
(* effect that lasts; pinning, the model label, the texts and the hashes   *)
(* that compare them, and the recovery of a lost tab are left out.         *)
(***************************************************************************)
EXTENDS TurnRecord

CONSTANTS
    MaxRounds,      \* option maxRounds of the run
    MaxRepair,      \* option maxRepairAttempts of the run
    Forms,          \* what the composer makes of a prompt: {"inline", "attach"} or less
    Plans,          \* the faults of the page and of the operator that one behaviour
                    \* may have, and how many: [faults, left]
    MaxIds,         \* bound on request ids
    MaxGen          \* bound on conversations

ASSUME TurnAssumption ==
    /\ {MaxRounds, MaxRepair, MaxIds, MaxGen} \subseteq Nat
    /\ MaxGen > 0 /\ Forms \subseteq {"inline", "attach"}
ASSUME PlanAssumption == Plans \subseteq [faults : SUBSET STRING, left : Nat]

VARIABLES
    run,        \* the run as the event log records it
    todo,       \* events the process appends before it does anything else
    pc,         \* where the process is, "down" when no process runs
    then,       \* where it is after todo
    cur,        \* the attempt that the process has in memory
    issued,     \* request id -> [round, of, after]: the ids are hashes of these
    talks,      \* generation -> the user messages of that conversation
    composer,   \* what the composer of the page holds
    strayed,    \* id of the request that was delivered to another conversation
    retries,    \* ghost: attempts to click Retry of the page, per request id
    grants,     \* ghost: permissions for them, of the operator or re-armed
    archived,   \* ghost: clicks on Archive
    trouble     \* the faults that may still happen

store == <<run, todo>>
page == <<talks, composer, strayed>>
local == <<pc, then, cur>>
ghosts == <<retries, grants, archived>>
vars == <<run, todo, pc, then, cur, issued, talks, composer, strayed, retries, grants, archived, trouble>>

Ids == 1..MaxIds
Talk == talks[run.gen]
Latest == Talk[Len(Talk)]
Command(m) == m.ans \in {"good", "late"}
Posted(rid) == \E i \in DOMAIN Talk : Talk[i].rid = rid
Answering == Talk # <<>> /\ Latest.ans = "none"
EmptyComposer == [kind |-> "empty", rid |-> None]
Staged(kind) == composer.kind = kind

\* no attempt in memory
NoTurn == [rid |-> None, round |-> 0, attempt |-> 0, first |-> TRUE, kind |-> "plain", of |-> None,
           gen |-> 0, count |-> 0, attach |-> FALSE, grant |-> FALSE, manual |-> FALSE, recovered |-> FALSE,
           base |-> 0, comp |-> "none", good |-> FALSE]

Init ==
    /\ run \in {InitialRun(FALSE), InitialRun(TRUE)} /\ todo = <<>>
    /\ pc = "drive" /\ then = "none" /\ cur = NoTurn
    /\ issued = <<>> /\ talks = [g \in 1..MaxGen |-> <<>>]
    /\ composer = EmptyComposer /\ strayed = None
    /\ retries = [i \in Ids |-> 0] /\ grants = [i \in Ids |-> 0] /\ archived = 0
    /\ trouble \in Plans

Trouble(kind) == kind \in trouble.faults /\ trouble.left > 0 /\ trouble' = [trouble EXCEPT !.left = @ - 1]

-----------------------------------------------------------------------------
(* The event log                                                           *)

\* reduceRunState, dispatched on the type of the event
Reduce(s, ev) ==
    CASE ev.type = "resumed" -> RunResumed(s)
      [] ev.type = "requested" -> TurnRequested(s, ev.turn)
      [] ev.type = "staged" -> PromptStaged(s, ev.rid, ev.comp, ev.base)
      [] ev.type = "submission" -> Submission(s, ev.rid, ev.sub, ev.comp, ev.base, ev.url)
      [] ev.type = "bound" -> ConversationBound(s)
      [] ev.type = "received" -> ResponseReceived(s, ev.rid, ev.round)
      [] ev.type = "accepted" -> CommandAccepted(s, ev.rid, ev.round, ev.action)
      [] ev.type = "executed" -> ExecutionCompleted(s)
      [] ev.type = "not_sent" -> TurnNotSentConfirmed(s, ev.turn, ev.base)
      [] ev.type = "abandoned" -> TurnAbandoned(s, ev.turn, ev.reason, ev.unconsumed, ev.fresh)
      [] ev.type = "conflict" -> RetryConflict(s, ev.rid, ev.code)
      [] ev.type = "manual" -> ManualSubmissionConfirmed(s, ev.turn)
      [] ev.type = "reauthorized" -> PostFixReauthorized(s, ev.rid, ev.round)
      [] ev.type = "waiting" -> PostFixReconciliationWaiting(s, ev.turn)
      [] ev.type = "failure_observed" -> ResponseFailureObserved(s, ev.rid, ev.round)
      [] ev.type = "failure_authorized" -> ResponseRetryAuthorized(s, ev.rid, ev.round)
      [] ev.type = "failure_consumed" -> ResponseRetryConsumed(s, ev.rid, ev.round)
      [] ev.type = "failure_resent" -> ResponseRetryResent(s, ev.of, ev.round, ev.rid)
      [] ev.type = "failure_skipped" -> ResponseRetrySkipped(s, ev.rid, ev.round)
      [] ev.type = "timeout_observed" -> DeliveryTimeoutObserved(s, ev.rid, ev.round)
      [] ev.type = "timeout_authorized" -> DeliveryRetryAuthorized(s, ev.rid, ev.round)
      [] ev.type = "timeout_started" -> DeliveryRetryStarted(s, ev.rid, ev.round)
      [] ev.type = "timeout_rearmed" -> DeliveryRetryRearmed(s, ev.rid, ev.round)
      [] ev.type = "rotation_requested" -> RotationRequested(s, ev.turn)
      [] ev.type = "replaced" -> ReplacementOpened(s)
      [] ev.type = "activated" -> RotationActivated(s)
      [] ev.type = "rotation_failed" -> RotationFailed(s)
      [] ev.type = "completed" -> RunCompleted(s)
      [] ev.type = "blocked" -> RunBlocked(s)
      [] ev.type = "archive_started" -> ArchiveStarted(s)
      [] ev.type = "archive_settled" -> ArchiveSettled(s, ev.status)
      [] ev.type = "failed" -> RunFailed(s, ev.code, ev.rid, ev.sub)

\* Append the first event in this step and the others in the steps that follow.
Write(events, next) ==
    /\ run' = Reduce(run, Head(events))
    /\ todo' = Tail(events)
    /\ pc' = IF Tail(events) = <<>> THEN next ELSE "append"
    /\ then' = IF Tail(events) = <<>> THEN "none" ELSE next

Append1 ==
    /\ pc = "append"
    /\ Write(todo, then)
    /\ UNCHANGED <<cur, issued, page, ghosts, trouble>>

\* RunStore.append of a process that goes on
Goto(next) == pc' = next /\ then' = "none" /\ UNCHANGED store

\* The call ends: what it has in memory is lost.
Return(events) == Write(events, "down") /\ cur' = NoTurn
ReturnNow == Goto("down") /\ cur' = NoTurn

FailedEvent(code, rid, sub) == [type |-> "failed", code |-> code, rid |-> rid, sub |-> sub]

\* recordRunFailure: the call throws; the failure names the request and the
\* submission state that the error carries, or else those of the one pending
\* turn.
Fail(code, rid, sub) == Return(<<FailedEvent(code, rid, sub)>>)
FailOfPending(code) ==
    LET only == \E t \in run.pending : run.pending = {t}
        turn == CHOOSE t \in run.pending : TRUE
    IN Fail(code, IF only THEN turn.rid ELSE None, IF only THEN turn.sub ELSE "none")

\* The process dies and its run is taken over.  The operator repeats a
\* confirmation that a crash cut short.
Crash ==
    /\ pc # "down" /\ Trouble("crash")
    /\ ~\E i \in DOMAIN todo : todo[i].type = "manual"
    /\ pc' = "down" /\ then' = "none" /\ todo' = <<>> /\ cur' = NoTurn
    /\ run' = TakeoverConfirmed(run) /\ UNCHANGED <<issued, page, ghosts>>

-----------------------------------------------------------------------------
(* The web page on its own                                                 *)

\* The model answers the last message: with a command, with something that is
\* not a command for it, or the page shows a failure in its place; the command
\* can also come after the failure, even after it was taken for the answer.
Answer ==
    /\ \E ans \in {"good", "bad", "failed", "timeout", "late"} :
        /\ \/ Answering /\ ans = "good" /\ UNCHANGED trouble
           \/ Answering /\ ans \notin {"good", "late"} /\ Trouble(ans)
           \/ /\ Talk # <<>> /\ Latest.ans = "timeout" /\ Trouble("late")
              /\ ans = IF pc = "received" \/ Latest.rid \in run.answered THEN "late" ELSE "good"
        /\ talks' = [talks EXCEPT ![run.gen][Len(Talk)].ans = ans]
    /\ UNCHANGED <<store, local, issued, composer, strayed, ghosts>>

\* The page takes back a message that the model never received, into the
\* composer, into another conversation or into nowhere.
Vanish ==
    /\ Answering /\ Trouble("vanish")
    /\ talks' = [talks EXCEPT ![run.gen] = SubSeq(Talk, 1, Len(Talk) - 1)]
    /\ \/ /\ composer = EmptyComposer /\ UNCHANGED strayed
          /\ composer' \in {composer} \cup {[kind |-> form, rid |-> Latest.rid] : form \in Forms}
       \/ run.bound /\ strayed' = Latest.rid /\ UNCHANGED composer
    /\ UNCHANGED <<store, local, issued, ghosts>>

\* The page is loaded again and the composer loses what it held.
Reload ==
    /\ pc = "down" /\ composer # EmptyComposer /\ Trouble("reload")
    /\ composer' = EmptyComposer
    /\ UNCHANGED <<store, local, issued, talks, strayed, ghosts>>

-----------------------------------------------------------------------------
(* Sending                                                                 *)

\* The event of an attempt is appended before anything is done to the page;
\* a repair keeps the request id.
RequestTurn(c) ==
    LET replay == c.first /\ c.kind # "plain"
    IN /\ Write(<<[type |-> "requested", turn |->
                     [rid |-> c.rid, round |-> c.round, gen |-> run.gen, attempt |-> c.attempt, sub |-> "requested",
                      comp |-> "none", base |-> 0, retryOf |-> IF replay THEN c.of ELSE None,
                      manual |-> FALSE, grant |-> replay /\ c.grant]]>>, "compose")
       /\ cur' = c

Replay == cur.first /\ cur.kind # "plain"

\* MUTANT of ProofConflict: the retry does not look at the page again
NoProofConflict == FALSE

\* The page no longer is what the proof that the first message was not sent
\* rests on.
ProofConflict ==
    /\ Replay
    /\ IF cur.grant THEN Len(Talk) < cur.count \/ Posted(cur.rid) \/ Answering
       ELSE Len(Talk) # cur.count

Reusable == Replay /\ cur.attach

\* Every check before the composer is touched; the error says that nothing was
\* sent.
Refuse ==
    /\ pc = "compose"
    /\ \/ /\ run.bound /\ Trouble("tab")
          /\ Fail("mismatch", cur.rid, "definitely_not_sent")
       \/ /\ cur.kind # "plain" /\ cur.gen # run.gen /\ UNCHANGED trouble
          /\ Fail("mismatch", cur.rid, "definitely_not_sent")
       \/ /\ ProofConflict /\ UNCHANGED trouble
          /\ Fail("confirmationConflict", cur.rid, "definitely_not_sent")
       \/ /\ ~ProofConflict /\ Staged("attach") /\ ~Reusable /\ UNCHANGED trouble
          /\ Fail("notReady", cur.rid, "definitely_not_sent")
    /\ UNCHANGED <<issued, page, ghosts>>

\* Fill the composer, which may turn the prompt into an attachment, or reuse
\* the attachment that is there.  The baseline is read before.
Compose ==
    /\ pc = "compose"
    /\ ~(cur.kind # "plain" /\ cur.gen # run.gen) /\ ~ProofConflict
    /\ \E form \in Forms :
        /\ IF Staged("attach") THEN Reusable /\ form = "attach" /\ UNCHANGED composer
           ELSE composer' = [kind |-> form, rid |-> cur.rid]
        /\ cur' = [cur EXCEPT !.base = Len(Talk), !.comp = form]
        /\ Goto(IF form = "attach" THEN "stage" ELSE "target")
    /\ UNCHANGED <<issued, talks, strayed, ghosts, trouble>>

\* An attachment is put on record before the click, also when the composer
\* never settles.
Stage ==
    /\ pc = "stage"
    /\ Write(<<[type |-> "staged", rid |-> cur.rid, comp |-> cur.comp, base |-> cur.base]>>, "target")
    /\ UNCHANGED <<cur, issued, page, ghosts, trouble>>

CheckpointEvent(sub, url) ==
    [type |-> "submission", rid |-> cur.rid, sub |-> sub, comp |-> cur.comp, base |-> cur.base, url |-> url]

\* MUTANT of Target: the click comes before its checkpoint
TargetWithoutCheckpoint ==
    /\ pc = "target"
    /\ UNCHANGED cur /\ UNCHANGED trouble
    /\ Goto("click")
    /\ UNCHANGED <<issued, page, ghosts>>

\* #resolveSendTarget and the write-ahead checkpoint of the click
Target ==
    /\ pc = "target"
    /\ \/ /\ UNCHANGED <<cur, trouble>>
          /\ Write(<<CheckpointEvent("submitting", cur.base > 0)>>, "click")
       \/ Trouble("target") /\ Fail("notReady", cur.rid, "definitely_not_sent")
    /\ UNCHANGED <<issued, page, ghosts>>

\* The one click posts what the composer holds, does nothing, or sends it to
\* another conversation.
Delivered(round) ==
    /\ talks' = [talks EXCEPT ![run.gen] = Append(@, [rid |-> composer.rid, round |-> round, ans |-> "none"])]
    /\ composer' = EmptyComposer /\ UNCHANGED strayed

Posting ==
    \/ Delivered(cur.round) /\ UNCHANGED trouble
    \/ /\ Trouble("noclick") /\ composer' \in {composer, EmptyComposer}
       /\ UNCHANGED <<talks, strayed>>
    \/ /\ run.bound /\ Trouble("stray") /\ strayed' = composer.rid
       /\ composer' = EmptyComposer /\ UNCHANGED talks

Click ==
    /\ pc = "click"
    /\ Posting /\ Goto("ack")
    /\ UNCHANGED <<cur, issued, ghosts>>

\* A timeout before the click proves that nothing was sent; an error of the
\* click proves nothing, and its checkpoint says so.
ClickError ==
    /\ pc = "click"
    /\ \/ /\ Trouble("preclick") /\ UNCHANGED page
          /\ Fail("preclick", cur.rid, "definitely_not_sent")
       \/ /\ Trouble("clickerror") /\ (Delivered(cur.round) \/ UNCHANGED page) /\ UNCHANGED cur
          /\ Write(<<CheckpointEvent("possibly_sent", cur.base > 0)>>, "clicked")
    /\ UNCHANGED <<issued, ghosts>>

\* #submissionStarted, after an error of the click
Clicked ==
    /\ pc = "clicked"
    /\ \/ Len(Talk) > cur.base /\ Goto("ack") /\ UNCHANGED cur
       \/ Fail("ambiguous", cur.rid, "possibly_sent")
    /\ UNCHANGED <<issued, page, ghosts, trouble>>

\* The proofs of the submission: a new message, or the last message names the
\* request.
SubmissionProven ==
    \/ Len(Talk) > cur.base
    \/ ~(Replay /\ cur.grant) /\ Talk # <<>> /\ Latest.rid = cur.rid

\* #waitForPostClickAcknowledgement; a call that returns after the submission
\* has waited for the address of the conversation.
Acknowledge ==
    /\ pc = "ack"
    /\ \/ /\ strayed = cur.rid /\ UNCHANGED trouble
          /\ Fail("mismatch", cur.rid, "possibly_sent")
       \/ Trouble("unreadable") /\ Fail("unreadable", cur.rid, "possibly_sent")
       \/ /\ strayed # cur.rid /\ SubmissionProven /\ UNCHANGED trouble
          /\ \E submit \in BOOLEAN :
              LET events == <<CheckpointEvent("submitted", submit \/ cur.base > 0)>>
                            \o IF cur.kind = "response" /\ cur.first
                               THEN <<[type |-> "failure_resent", rid |-> cur.rid, round |-> cur.round, of |-> cur.of]>>
                               ELSE <<>>
              IN IF submit THEN Return(events) ELSE Write(events, "wait") /\ UNCHANGED cur
       \/ /\ strayed # cur.rid /\ ~SubmissionProven /\ Staged(cur.comp) /\ UNCHANGED trouble
          /\ Fail("notSent", cur.rid, "definitely_not_sent")
       \/ /\ strayed # cur.rid /\ ~SubmissionProven /\ ~Staged(cur.comp) /\ UNCHANGED trouble
          /\ Return(<<CheckpointEvent("possibly_sent", cur.base > 0), FailedEvent("ambiguous", cur.rid, "possibly_sent")>>)
    /\ UNCHANGED <<issued, page, ghosts>>

\* #waitForCompletion: whatever the page shows as the answer of the last
\* message is taken, a failure too.
Wait ==
    /\ pc = "wait"
    /\ \/ /\ Len(Talk) > cur.base /\ Latest.ans # "none"
          /\ Goto("received") /\ UNCHANGED trouble
          /\ cur' = [cur EXCEPT !.good = Command(Latest) /\ Latest.rid = cur.rid /\ Latest.round = cur.round]
       \/ (Answering \/ Len(Talk) <= cur.base) /\ Trouble("slow") /\ Fail("responseTimeout", cur.rid, "submitted")
    /\ UNCHANGED <<issued, page, ghosts>>

-----------------------------------------------------------------------------
(* The answer                                                              *)

Receive ==
    /\ pc = "received"
    /\ Write(<<[type |-> "received", rid |-> cur.rid, round |-> cur.round]>>, "parse")
    /\ UNCHANGED <<cur, issued, page, ghosts, trouble>>

\* The answer is no valid command of the turn: ask for a repair, unless the
\* turn came from a recovery that a second message would contradict.
Reject ==
    /\ pc = "parse" /\ ~cur.good
    /\ IF cur.first /\ cur.manual
       THEN FailOfPending("manualRejected")
       ELSE IF cur.first /\ cur.kind # "plain"
       THEN Return(<<[type |-> "conflict", rid |-> cur.rid, code |-> "responseConflict"]>>)
       ELSE IF cur.attempt < MaxRepair
       THEN RequestTurn([cur EXCEPT !.attempt = @ + 1, !.first = FALSE])
       ELSE FailOfPending("exhausted")
    /\ UNCHANGED <<issued, page, ghosts, trouble>>
=============================================================================
