--------------------------- MODULE ControllerLoop ---------------------------
(***************************************************************************)
(* What the process does around one exchange: driveControllerLoop,         *)
(* reconcilePendingControllerTurn and continueControllerLoop               *)
(* (src/core/controller-loop.ts), the execution of the accepted command as *)
(* far as the run sees it (src/core/controller-command-execution.ts), the  *)
(* archive of the conversation (src/core/controller-conversation-          *)
(* archive.ts) and the part of the page adapter that observes a turn       *)
(* without sending.                                                        *)
(*                                                                         *)
(* Simplifications: an option of a call is chosen where it is read; the    *)
(* jobs of a command are one step, and a complete command refused because  *)
(* jobs still run is a command "work"; that a rotation became active is     *)
(* put on record when the run is continued; the recovery for logs of older *)
(* versions and cancellation are left out.                                 *)
(***************************************************************************)
EXTENDS ControllerTurn, SequencesExt

WriteAll(events, next) == IF events = <<>> THEN Goto(next) ELSE Write(events, next)
End(events) == WriteAll(events, "down") /\ cur' = NoTurn

-----------------------------------------------------------------------------
(* Driving                                                                 *)

\* MUTANT of UnsentProof: a prompt that was not sent is asked as a new one
NoUnsentProof == FALSE

\* The proof that the last prompt was not sent, for which no retry exists yet.
UnsentProof == run.notSent.status = "confirmed" /\ run.notSent.retry = None

\* The next attempt: of a response retry that the process has in memory, of a
\* prompt that was not sent, or of the next round.
NextAttempt(rid) ==
    LET exact == cur.kind = "response" /\ cur.round = run.round + 1
        base == [NoTurn EXCEPT !.rid = rid, !.round = run.round + 1, !.gen = run.gen]
    IN IF exact THEN [base EXCEPT !.kind = "response", !.of = cur.of, !.gen = cur.gen, !.count = cur.count]
       ELSE IF UnsentProof
       THEN [base EXCEPT !.kind = "unsent", !.of = run.notSent.of, !.gen = run.notSent.gen,
                         !.count = run.notSent.base, !.attach = run.notSent.comp = "attach",
                         !.grant = run.postfix.status = "authorized" /\ run.postfix.rid = run.notSent.of]
       ELSE base

\* MUTANT of BelowLimit: one round too many
BelowLimitOffByOne == run.round <= MaxRounds

\* durableRoundLimitReached, negated
BelowLimit == run.round < MaxRounds

\* messageId hashes the round, what is retried and the evidence, which a command
\* changes; an attachment keeps the id that it holds.
RequestIdFor(c, rid) ==
    LET key == [round |-> c.round, of |-> c.of, after |-> Len(run.commands)]
        same == {i \in DOMAIN issued : issued[i] = key}
    IN IF c.attach THEN rid = c.of /\ UNCHANGED <<issued, trouble>>
       ELSE \/ rid \in same /\ UNCHANGED <<issued, trouble>>
            \/ /\ rid = Len(issued) + 1 /\ rid <= MaxIds /\ issued' = Append(issued, key)
               /\ IF same = {} THEN UNCHANGED trouble ELSE Trouble("news")

Drive ==
    /\ pc = "drive" /\ BelowLimit
    /\ \E rid \in Ids :
        /\ RequestIdFor(NextAttempt(rid), rid)
        /\ RequestTurn(NextAttempt(rid))
    /\ UNCHANGED <<page, ghosts>>

\* The prompt that would be sent now is not the one that the proof is about.
DrivePromptMismatch ==
    /\ pc = "drive" /\ BelowLimit
    /\ NextAttempt(1).kind = "unsent" /\ Trouble("prompt")
    /\ Return(<<[type |-> "conflict", rid |-> run.notSent.of, code |-> "promptMismatch"]>>)
    /\ UNCHANGED <<issued, page, ghosts>>

DriveNoMore ==
    /\ pc = "drive" /\ ~BelowLimit
    /\ FailOfPending("maxRounds")
    /\ UNCHANGED <<issued, page, ghosts, trouble>>

AcceptedEvent(action) == [type |-> "accepted", rid |-> cur.rid, round |-> cur.round, action |-> action]
AbandonedEvent(t, reason, unconsumed, fresh) ==
    [type |-> "abandoned", turn |-> t, reason |-> reason, unconsumed |-> unconsumed, fresh |-> fresh]

\* Append the command, after the turns that its answer was preferred to.  A
\* recovered dispatch may be left to the next call.
Accept ==
    /\ pc = "parse" /\ cur.good
    /\ \E action \in {"work", "complete", "blocked"} :
        LET others == {t \in run.pending : cur.recovered /\ t.rid # cur.rid}
            events == SetToSeq({AbandonedEvent(t, "operator_selected", FALSE, FALSE) : t \in others})
                      \o <<AcceptedEvent(action)>>
        IN \/ Write(events, "execute") /\ UNCHANGED cur
           \/ cur.recovered /\ action = "work" /\ Return(events)
    /\ UNCHANGED <<issued, page, ghosts, trouble>>

-----------------------------------------------------------------------------
(* Executing the command                                                   *)

Executed == [type |-> "executed"]

\* executeAcceptedCommand; the call goes on unless it waits for a caller.
\* After a round that made no progress the loop may stop.
Execute ==
    /\ pc = "execute"
    /\ \/ /\ run.exec.action = "work" /\ UNCHANGED trouble
          /\ \/ Write(<<Executed>>, IF cur = NoTurn THEN "rotate" ELSE "drive") /\ cur' = NoTurn
             \/ Return(<<Executed>>)
       \/ /\ run.exec.action = "work" /\ cur # NoTurn /\ ~cur.recovered /\ Trouble("stagnation")
          /\ Return(<<Executed, FailedEvent("stagnation", None, "none")>>)
       \/ /\ run.exec.action = "complete" /\ UNCHANGED <<cur, trouble>>
          /\ Write(<<[type |-> "completed"]>>, "archive")
       \/ /\ run.exec.action = "blocked" /\ UNCHANGED trouble
          /\ Return(<<[type |-> "blocked"], Executed>>)
    /\ UNCHANGED <<issued, page, ghosts>>

Settled(status) == [type |-> "archive_settled", status |-> status]

\* settleControllerConversationArchive, up to the checkpoint before its click
Archive ==
    /\ pc = "archive"
    /\ \/ run.archive \notin {"pending", "started"} /\ End(<<>>) /\ UNCHANGED trouble
       \/ run.archive = "started" /\ End(<<Settled("ambiguous")>>) /\ UNCHANGED trouble
       \/ run.archive = "pending" /\ Trouble("archive") /\ (End(<<>>) \/ End(<<Settled("failed")>>))
       \/ /\ run.archive = "pending" /\ UNCHANGED <<cur, trouble>>
          /\ Write(<<[type |-> "archive_started"]>>, "archiving")
    /\ UNCHANGED <<issued, page, ghosts>>

\* archiveConversation: the click
ArchiveClick ==
    /\ pc = "archiving"
    /\ archived' = archived + 1 /\ Goto("archiveproof")
    /\ UNCHANGED <<cur, issued, page, retries, grants, trouble>>

ArchiveProof ==
    /\ pc = "archiveproof"
    /\ \/ End(<<Settled("archived")>>) /\ UNCHANGED trouble
       \/ Trouble("archive") /\ End(<<Settled("ambiguous")>>)
    /\ UNCHANGED <<issued, page, ghosts>>

-----------------------------------------------------------------------------
(* Continuing a run                                                        *)

Continue ==
    /\ pc = "down" /\ run.status \in {"running", "failed"}
    /\ ~(run.last.code = "maxRounds" /\ run.round >= MaxRounds)
    /\ Write(<<[type |-> "resumed"]>>, IF run.exec # NoCommand THEN "execute" ELSE "rotate")
    /\ UNCHANGED <<cur, issued, page, ghosts, trouble>>

ContinueArchive ==
    /\ pc = "down" /\ run.status = "complete" /\ run.archive \in {"pending", "started"}
    /\ Goto("archive")
    /\ UNCHANGED <<cur, issued, page, ghosts, trouble>>

\* The operator asks for a new conversation; it must stand at a submitted turn.
RotateOnRequest ==
    /\ pc = "rotate" /\ run.gen < MaxGen /\ Trouble("rotate")
    /\ IF run.bound /\ \E t \in run.pending : run.pending = {t} /\ t.sub = "submitted"
       THEN /\ Write(<<[type |-> "rotation_requested", turn |-> CHOOSE t \in run.pending : TRUE]>>, "open")
            /\ UNCHANGED cur
       ELSE FailOfPending("rotationUnsafe")
    /\ UNCHANGED <<issued, page, ghosts>>

Rotate ==
    /\ pc = "rotate" /\ UNCHANGED cur
    /\ IF run.rollover.status = "opened" /\ run.bound
       THEN Write(<<[type |-> "activated"]>>, "reconcile")
       ELSE Goto(IF run.rollover.status \in {"opening", "opened"} THEN "open" ELSE "reconcile")
    /\ UNCHANGED <<issued, page, ghosts, trouble>>

\* openNewConversation
Open ==
    /\ pc = "open"
    /\ \/ /\ composer' = EmptyComposer /\ UNCHANGED <<cur, trouble>>
          /\ WriteAll(IF run.rollover.status = "opening" THEN <<[type |-> "replaced"]>> ELSE <<>>, "reconcile")
       \/ /\ Trouble("open") /\ UNCHANGED composer
          /\ End(IF run.rollover.status = "opening" THEN <<[type |-> "rotation_failed"]>> ELSE <<>>)
    /\ UNCHANGED <<issued, talks, strayed, ghosts>>

-----------------------------------------------------------------------------
(* Reconciling a pending turn                                              *)

ReconcileNothing ==
    /\ pc = "reconcile" /\ run.pending = {}
    /\ Goto("drive") /\ cur' = NoTurn
    /\ UNCHANGED <<issued, page, ghosts, trouble>>

NotSentEvent(t, base) == [type |-> "not_sent", turn |-> t, base |-> base]

\* A turn without a checkpoint of the submission was not sent.  Its attachment
\* is kept for the retry only when the record identifies it.
ReconcileUnsent ==
    /\ pc = "reconcile"
    /\ \E t \in run.pending :
        /\ run.pending = {t} /\ t.sub = "requested"
        /\ LET keep == t.comp = "attach" /\ t.retryOf = None /\ ~t.manual /\ run.bound /\ run.notSent.of # t.rid
               events == (IF keep THEN <<NotSentEvent(t, t.base)>> ELSE <<>>)
                         \o <<AbandonedEvent(t, "definitely_not_sent_retry", TRUE, FALSE)>>
           IN \/ Write(events, "drive") /\ cur' = NoTurn
              \/ Return(events)
    /\ UNCHANGED <<issued, page, ghosts, trouble>>

ReconcileAmbiguous ==
    /\ pc = "reconcile" /\ Cardinality(run.pending) > 1
    /\ Fail("multiple", None, "possibly_sent")
    /\ UNCHANGED <<issued, page, ghosts, trouble>>

\* A command of this request, or of its round or a later one, is accepted.
Superseded(t) == \E i \in DOMAIN run.commands : run.commands[i].rid = t.rid \/ run.commands[i].round >= t.round

\* The turn to reconcile: the only one, or of several the one whose response the
\* operator takes for the authoritative one.  That word is wrong unless the last
\* message is of that turn and has its command, which no other has superseded.
Authoritative(t) ==
    /\ t.sub # "requested" /\ ~Superseded(t)
    /\ Talk # <<>> /\ Command(Latest) /\ Latest.rid = t.rid /\ Latest.round = t.round
Selected(t) ==
    /\ t \in run.pending
    /\ IF run.pending = {t} THEN t.sub # "requested"
       ELSE Authoritative(t) \/ "operator" \in trouble.faults

\* Turns that observeSubmittedTurn is asked about, the others are read by
\* observeTurn.
Observable(t) ==
    \/ t.retryOf = None /\ t.sub = "submitted" /\ t.comp # "none"
    \/ run.pending = {t} /\ PostFixCandidate(run, t)

\* The page holds the exact command for the turn.
Exact(t) ==
    ~Answering /\ \E i \in DOMAIN Talk : Talk[i].rid = t.rid /\ Talk[i].round = t.round /\ Command(Talk[i])
Ours(t) == Len(Talk) > t.base /\ Latest.rid = t.rid
TextHidden(t) == t.comp = "attach" \/ t.manual
Correlated(t) == Posted(t.rid) \/ (t.base > 0 /\ Len(Talk) = t.base + 1)
StagedFor(t) == IF t.comp = "attach" THEN Staged("attach") ELSE composer = [kind |-> "inline", rid |-> t.rid]

\* #readExistingTurn
Mismatch(t) == ~Exact(t) /\ ~TextHidden(t) /\ Talk # <<>> /\ ~Ours(t)
\* MUTANT of Readable: a message whose text the page hides is not read
ReadableByText(t) == ~TextHidden(t) /\ ~Answering /\ Len(Talk) > t.base /\ Ours(t)

Readable(t) == Exact(t) \/ (~Answering /\ Len(Talk) > t.base /\ (TextHidden(t) \/ Ours(t)))

\* MUTANT of NotSentSeen: an empty composer alone is the proof
NotSentIfComposerEmpty(t) == ~Answering /\ (StagedFor(t) \/ composer = EmptyComposer)

\* #observeSubmittedDelivery
NotSentSeen(t) ==
    /\ ~Posted(t.rid) /\ ~Answering
    /\ \/ StagedFor(t)
       \/ PostFixCandidate(run, t) /\ composer = EmptyComposer /\ Len(Talk) = t.base
FailureSeen(t, ans) ==
    Talk # <<>> /\ Latest.ans = ans /\ Correlated(t) /\ Len(Talk) >= t.base /\ composer = EmptyComposer
AnswerSeen(t) ==
    /\ ~StagedFor(t) /\ Talk # <<>> /\ (Command(Latest) \/ Latest.ans = "bad") /\ Len(Talk) >= t.base
    /\ Correlated(t) \/ Exact(t)

\* The permission to send again after a failed answer ends when the page shows
\* something else.
Skip(t) ==
    IF FailureAt(run, t.rid, t.round, "authorized")
    THEN <<[type |-> "failure_skipped", rid |-> t.rid, round |-> t.round]>> ELSE <<>>

\* The turn as the attempt whose answer was found.
AttemptOf(t) ==
    [NoTurn EXCEPT !.rid = t.rid, !.round = t.round, !.attempt = t.attempt, !.manual = t.manual,
                   !.kind = IF PostFixCandidate(run, t) THEN "postfix" ELSE "plain", !.gen = run.gen,
                   !.base = t.base, !.comp = t.comp, !.recovered = TRUE, !.good = Exact(t)]

\* The address of the conversation is not known, the page cannot be read, or it
\* shows the conversation that the message went to.
ReconcileUnreadable ==
    /\ pc = "reconcile"
    /\ \E t \in run.pending :
        /\ Selected(t)
        /\ IF run.bound /\ strayed # t.rid THEN Trouble("tab") ELSE UNCHANGED trouble
        /\ Fail(IF strayed = t.rid THEN "mismatch" ELSE "unverified", t.rid, "possibly_sent")
    /\ UNCHANGED <<issued, page, ghosts>>

ObserveAnswer ==
    /\ pc = "reconcile" /\ run.bound
    /\ \E t \in run.pending :
        /\ Selected(t) /\ Observable(t) /\ AnswerSeen(t)
        /\ IF Mismatch(t) THEN /\ cur' = NoTurn
                               /\ Write(Skip(t) \o <<FailedEvent("turnMismatch", t.rid, "possibly_sent")>>, "down")
           ELSE Readable(t) /\ WriteAll(Skip(t), "received") /\ cur' = AttemptOf(t)
    /\ UNCHANGED <<issued, page, ghosts, trouble>>

\* The evidence that a submitted turn was not sent ends it; that of the
\* re-authorized retry can be too weak.
ObserveNotSent ==
    /\ pc = "reconcile" /\ run.bound
    /\ \E t \in run.pending :
        /\ Selected(t) /\ Observable(t) /\ NotSentSeen(t)
        /\ \/ /\ PostFixCandidate(run, t) /\ UNCHANGED trouble
              /\ Return(<<AbandonedEvent(t, "definitely_not_sent_retry", TRUE, TRUE)>>)
           \/ /\ PostFixCandidate(run, t) /\ Trouble("scan")
              /\ Return(<<[type |-> "waiting", turn |-> t]>>)
           \/ /\ ~PostFixCandidate(run, t) /\ UNCHANGED trouble
              /\ Return(Skip(t)
                        \o (IF run.notSent.of # t.rid THEN <<NotSentEvent(t, t.base)>> ELSE <<>>)
                        \o <<AbandonedEvent(t, "fresh_observation_definitely_not_sent", TRUE, TRUE)>>)
    /\ UNCHANGED <<issued, page, ghosts>>

\* An answer that failed is put on record; with a permission the prompt is sent
\* again, which only this process remembers.
ObserveFailure ==
    /\ pc = "reconcile" /\ run.bound
    /\ \E t \in run.pending :
        /\ Selected(t) /\ Observable(t) /\ FailureSeen(t, "failed")
        /\ IF FailureAt(run, t.rid, t.round, "authorized")
           THEN /\ Write(<<[type |-> "failure_consumed", rid |-> t.rid, round |-> t.round],
                           AbandonedEvent(t, "controller_response_retry_authorized", TRUE, FALSE)>>, "drive")
                /\ cur' = [NoTurn EXCEPT !.kind = "response", !.round = t.round, !.of = t.rid,
                                         !.gen = run.gen, !.count = Len(Talk)]
           ELSE IF run.failure.rid # t.rid \/ run.failure.round # t.round
           THEN Return(<<[type |-> "failure_observed", rid |-> t.rid, round |-> t.round]>>)
           ELSE ReturnNow
    /\ UNCHANGED <<issued, page, ghosts, trouble>>

\* A delivery timeout is put on record; with a permission, or one that an old
\* adapter left unused, the process goes on to the Retry of the page.
ObserveTimeout ==
    /\ pc = "reconcile" /\ run.bound
    /\ \E t \in run.pending :
        /\ Selected(t) /\ Observable(t) /\ FailureSeen(t, "timeout")
        /\ IF ~PostFixCandidate(run, t) /\ (run.delivery.rid # t.rid \/ run.delivery.round # t.round)
           THEN Return(Skip(t) \o <<[type |-> "timeout_observed", rid |-> t.rid, round |-> t.round]>>) /\ UNCHANGED grants
           ELSE IF ~PostFixCandidate(run, t) /\ DeliveryAt(run, t.rid, t.round, "authorized")
           THEN WriteAll(Skip(t), "retry") /\ cur' = AttemptOf(t) /\ UNCHANGED grants
           ELSE IF /\ ~PostFixCandidate(run, t) /\ DeliveryAt(run, t.rid, t.round, "consumed")
                   /\ run.last.code = "legacyPreClick" /\ run.last.rid = t.rid
           THEN /\ cur' = AttemptOf(t) /\ grants' = [grants EXCEPT ![t.rid] = @ + 1]
                /\ Write(Skip(t) \o <<[type |-> "timeout_rearmed", rid |-> t.rid, round |-> t.round]>>, "retry")
           ELSE End(Skip(t)) /\ UNCHANGED grants
    /\ UNCHANGED <<issued, page, retries, archived, trouble>>

\* Nothing that decides: the call returns and the turn stays pending.
ObservePending ==
    /\ pc = "reconcile" /\ run.bound
    /\ \E t \in run.pending :
        /\ Selected(t) /\ Observable(t) /\ ~NotSentSeen(t)
        /\ ~(\E ans \in {"failed", "timeout"} : FailureSeen(t, ans))
        /\ ~(AnswerSeen(t) /\ (Mismatch(t) \/ Readable(t)))
        /\ End(Skip(t))
    /\ UNCHANGED <<issued, page, ghosts, trouble>>

\* The page shows that the delivery of the last message timed out.
TimedOut == Latest.ans = "timeout"

\* The answer came while the Retry of the page was prepared.
AnswerInstead ==
    /\ Command(Latest) /\ Latest.rid = cur.rid /\ Latest.round = cur.round
    /\ Goto("received") /\ cur' = [cur EXCEPT !.good = TRUE]

\* retryDeliveryTimeout looks again before it appends the checkpoint of its click.
RetryCheck ==
    /\ pc = "retry"
    /\ IF TimedOut
       THEN /\ Write(<<[type |-> "timeout_started", rid |-> cur.rid, round |-> cur.round]>>, "retryclick")
            /\ UNCHANGED cur
       ELSE AnswerInstead
    /\ UNCHANGED <<issued, page, ghosts, trouble>>

\* The click, guarded by one more look, or the failure of an old adapter that had
\* no such click.
RetryClick ==
    /\ pc = "retryclick"
    /\ \/ /\ TimedOut /\ UNCHANGED trouble
          /\ talks' = [talks EXCEPT ![run.gen][Len(Talk)].ans = "none"]
          /\ ReturnNow
       \/ ~TimedOut /\ AnswerInstead /\ UNCHANGED <<talks, trouble>>
       \/ Trouble("oldadapter") /\ Fail("legacyPreClick", cur.rid, "possibly_sent") /\ UNCHANGED talks
    /\ retries' = [retries EXCEPT ![cur.rid] = @ + 1]
    /\ UNCHANGED <<issued, composer, strayed, grants, archived>>

\* observeTurn: a retry must still agree with the proof that it rests on.
ReadTurn ==
    /\ pc = "reconcile" /\ run.bound
    /\ \E t \in run.pending :
        LET proof == t.retryOf # None /\ run.notSent.of = t.retryOf
            conflict == proof /\ ~t.manual /\ ~(t.sub = "submitted" /\ Exact(t)) /\ Len(Talk) > run.notSent.base + 1
        IN /\ Selected(t) /\ ~Observable(t)
           /\ IF Mismatch(t) THEN Fail("turnMismatch", t.rid, "possibly_sent")
              ELSE IF Readable(t) /\ conflict THEN Fail("confirmationConflict", t.rid, "possibly_sent")
              ELSE IF Readable(t) THEN Goto("received") /\ cur' = AttemptOf(t)
              ELSE ReturnNow
    /\ UNCHANGED <<issued, page, ghosts, trouble>>
=============================================================================
