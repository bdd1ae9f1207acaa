------------------------- MODULE ControllerHandoff -------------------------
(***************************************************************************)
(* The controller of one run, complete: the process of ControllerLoop, the *)
(* web page, and the operator who settles by hand what the process cannot  *)
(* (src/api-controller-handoff.ts).  An operator action runs under the     *)
(* lease of the run, so while no process runs.                             *)
(*                                                                         *)
(* Simplifications: the operator's word can be wrong where the code takes  *)
(* it without evidence, at the price of a fault; the attestation of a      *)
(* delivery timeout, the branch counts of the evidence and the recovery    *)
(* for logs of older versions are left out.                                *)
(***************************************************************************)
EXTENDS ControllerLoop

Operator(t) == pc = "down" /\ run.status \in {"running", "failed"} /\ run.pending = {t}
Uninvolved == UNCHANGED <<cur, issued, page, ghosts>>

\* Evidence of the page that the pending turn was not sent; an attachment that
\* a reload removed counts when nothing was added to the conversation.
Unsent(t) ==
    /\ ~Posted(t.rid) /\ ~Answering
    /\ \/ StagedFor(t)
       \/ t.comp = "attach" /\ t.sub = "submitted" /\ composer = EmptyComposer /\ Len(Talk) = t.base

\* Turns that are confirmed only by evidence of the page, and those that the
\* operator's word is enough for.
Gated(t) == t.sub = "submitted" \/ (t.sub = "submitting" /\ t.comp = "attach")
WordEnough(t) ==
    \/ t.sub = "possibly_sent" /\ run.last.code = "ambiguous" /\ run.last.rid = t.rid
    \/ t.sub = "submitting" /\ run.taken /\ t.rid \notin run.sent

\* The confirmation is appended once, the turn abandoned each time.
NotSentConfirmed(t) ==
    (IF run.notSent.of # t.rid THEN <<NotSentEvent(t, t.base)>> ELSE <<>>)
    \o <<AbandonedEvent(t, "operator_confirmed_not_sent", TRUE, FALSE)>>

\* confirmControllerTurnNotSent: after an ambiguous submission, or one whose
\* process died, the word of the operator is enough; a submitted turn needs
\* the evidence.
ConfirmNotSent ==
    \E t \in run.pending :
        /\ Operator(t) /\ t.retryOf = None /\ ~t.manual /\ t.rid \notin run.answered /\ ~Superseded(t)
        /\ \/ run.bound /\ Gated(t) /\ Unsent(t) /\ UNCHANGED trouble
           \/ /\ WordEnough(t) /\ ~Gated(t)
              /\ IF Posted(t.rid) THEN Trouble("operator") ELSE UNCHANGED trouble
        /\ Write(NotSentConfirmed(t), "down")
    /\ Uninvolved

\* confirmManualControllerSubmission, of a pending or an abandoned turn, which
\* the operator has first sent by hand when the composer still held it
ManualConfirm ==
    /\ pc = "down" /\ run.status \in {"running", "failed"}
    /\ \E t \in run.pending \cup run.abandoned :
        /\ t.gen = run.gen /\ ~t.manual /\ ~Superseded(t)
        /\ \/ Posted(t.rid) /\ UNCHANGED <<page, trouble>>
           \/ ~Posted(t.rid) /\ composer.rid = t.rid /\ Delivered(t.round) /\ UNCHANGED trouble
           \/ ~Posted(t.rid) /\ composer.rid # t.rid /\ Trouble("operator") /\ UNCHANGED page
        /\ Write((IF run.bound THEN <<>> ELSE <<[type |-> "bound"]>>) \o <<[type |-> "manual", turn |-> t]>>, "down")
    /\ UNCHANGED <<cur, issued, ghosts>>

\* reauthorizeControllerPostFixRetry: one more retry, after a retry that
\* provably failed before the message left the composer.
ReauthorizeRetry ==
    \E t \in run.pending :
        /\ Operator(t) /\ run.bound /\ UNCHANGED trouble
        /\ t.retryOf = t.rid /\ t.comp = "attach" /\ ~t.manual
        /\ run.last = [code |-> "notSent", rid |-> t.rid, sub |-> "definitely_not_sent"]
        /\ run.notSent.status = "retry_pending" /\ run.notSent.comp = "attach" /\ run.notSent.gen = run.gen
        /\ run.notSent.retry = t.rid /\ run.notSent.of = t.rid /\ run.notSent.round = t.round
        /\ run.cycle = [rid |-> t.rid, at |-> "failed"]
        /\ t.rid \notin run.sent \cup run.answered
        /\ run.postfix = NoGrant \/ (run.postfix.rid = t.rid /\ run.postfix.round = t.round)
        /\ ~Posted(t.rid) /\ ~Answering /\ Len(Talk) >= t.base
        /\ Write(<<[type |-> "reauthorized", rid |-> t.rid, round |-> t.round],
                   AbandonedEvent(t, "post_fix_retry_reauthorized", TRUE, FALSE)>>, "down")
        /\ Uninvolved

\* The same, after a retry that was refused because its prompt would differ
\* from the one on record.
ReauthorizeMismatch ==
    /\ pc = "down" /\ run.status = "failed" /\ run.pending = {} /\ run.bound /\ UNCHANGED trouble
    /\ run.notSent.status = "conflict" /\ run.notSent.code = "promptMismatch" /\ run.notSent.gen = run.gen
    /\ run.last.code = "promptMismatch"
    /\ \E t \in run.abandoned :
        /\ t.rid = run.notSent.of /\ t.round = run.notSent.round /\ t.comp = "attach"
        /\ run.postfix = NoGrant
        /\ ~Posted(t.rid) /\ ~Answering /\ Len(Talk) >= t.base
        /\ Write(<<[type |-> "reauthorized", rid |-> t.rid, round |-> t.round]>>, "down")
    /\ Uninvolved

\* authorizeControllerDeliveryTimeoutRetry and authorizeControllerResponseRetry
AuthorizeDelivery ==
    \E t \in run.pending :
        /\ Operator(t) /\ t.sub = "submitted" /\ DeliveryAt(run, t.rid, t.round, "observed")
        /\ Write(<<[type |-> "timeout_authorized", rid |-> t.rid, round |-> t.round]>>, "down")
        /\ grants' = [grants EXCEPT ![t.rid] = @ + 1]
        /\ UNCHANGED <<cur, issued, page, retries, archived, trouble>>

AuthorizeResponse ==
    \E t \in run.pending :
        /\ Operator(t) /\ t.sub = "submitted" /\ FailureAt(run, t.rid, t.round, "observed")
        /\ Write(<<[type |-> "failure_authorized", rid |-> t.rid, round |-> t.round]>>, "down")
        /\ Uninvolved /\ UNCHANGED trouble

\* observeMisdirectedTurn finds the message in the other conversation, and not in
\* the one of the run.
Misdirected(t) == strayed = t.rid /\ ~Posted(t.rid)

\* confirmControllerTurnMisdirected
ConfirmMisdirected ==
    \E t \in run.pending :
        /\ Operator(t) /\ run.bound /\ UNCHANGED trouble
        /\ t.sub = "submitted" /\ t.retryOf = None /\ ~t.manual
        /\ run.last.code = "mismatch" /\ run.last.rid = t.rid
        /\ t.rid \notin run.answered /\ ~Superseded(t)
        /\ \E i \in DOMAIN run.commands : run.commands[i].round < t.round
        /\ Misdirected(t)
        /\ Write(<<NotSentEvent(t, Len(Talk)),
                   AbandonedEvent(t, "misdirected_submission_confirmed", TRUE, FALSE)>>, "down")
        /\ Uninvolved

-----------------------------------------------------------------------------

ProcessNext ==
    \/ Append1 \/ Drive \/ DrivePromptMismatch \/ DriveNoMore
    \/ Refuse \/ Compose \/ Stage \/ Target \/ Click \/ ClickError \/ Clicked \/ Acknowledge
    \/ Wait \/ Receive \/ Reject \/ Accept \/ Execute
    \/ Archive \/ ArchiveClick \/ ArchiveProof
    \/ RotateOnRequest \/ Rotate \/ Open
    \/ ReconcileNothing \/ ReconcileUnsent \/ ReconcileAmbiguous \/ ReconcileUnreadable
    \/ ObserveAnswer \/ ObserveNotSent \/ ObserveFailure \/ ObserveTimeout \/ ObservePending
    \/ RetryCheck \/ RetryClick \/ ReadTurn

PageNext == Answer \/ Vanish \/ Reload

OperatorNext ==
    \/ ConfirmNotSent \/ ManualConfirm \/ ReauthorizeRetry \/ ReauthorizeMismatch
    \/ AuthorizeDelivery \/ AuthorizeResponse \/ ConfirmMisdirected

Next == ProcessNext \/ PageNext \/ OperatorNext \/ Continue \/ ContinueArchive \/ Crash

Spec == Init /\ [][Next]_vars

\* A process that runs goes on, the page answers, and whoever owns the run
\* continues it as long as it can be continued.
Fairness == WF_vars(ProcessNext) /\ WF_vars(Answer) /\ WF_vars(Continue)
FairSpec == Spec /\ Fairness

-----------------------------------------------------------------------------
(* Properties                                                              *)

\* Every operator of TurnRecord and every action keeps the shape of the log's
\* state, of the attempt and of the page; durableRoundLimitReached keeps the
\* round within the limit.
TypeOK ==
    /\ run.status \in {"running", "failed", "complete", "blocked"}
    /\ run.round \in 0..MaxRounds /\ run.gen \in 1..MaxGen
    /\ run.pending \cup run.abandoned \subseteq Turns(Ids, 1..MaxRounds, 1..MaxGen)
    /\ cur.rid \in Ids \cup {None} /\ cur.base \in Nat
    /\ composer.kind \in {"empty", "inline", "attach"} /\ strayed \in Ids \cup {None}

\* Whatever is lost, retried or interrupted, the loop asks nothing while a
\* message it still counts on is in the conversation, keeps the rounds in order,
\* and accepts no answer twice: see Exchange.
Message(m) == [round |-> m.round, ans |-> m.ans]
Promise == INSTANCE Exchange WITH
    talks <- [g \in 1..MaxGen |-> [i \in DOMAIN talks[g] |-> Message(talks[g][i])]],
    accepted <- [n \in DOMAIN run.commands |-> run.commands[n].round]
ImplementsExchange == Promise!Spec

\* After the events that belong together, and unless the operator's word was
\* wrong: only the page can then stop a message from being sent twice.
Consistent == todo = <<>> /\ "operator" \notin trouble.faults

\* The messages of the conversation that an answer is expected for, or has come.
OpenMessages == {i \in DOMAIN Talk : Talk[i].ans \in {"none", "good"}}

\* The checkpoint of a submission is durable before its click: a turn on record
\* as only requested has no such message whose round is without a command, so
\* reconcilePendingControllerTurn may ask it again without a look at the page.
UnsentUntilCheckpoint ==
    Consistent =>
        \A t \in run.pending : t.sub = "requested" =>
            \A i \in OpenMessages :
                Talk[i].rid = t.rid => \E n \in DOMAIN run.commands : run.commands[n].round = Talk[i].round

\* The click posts the prompt of its own request.  #submitTurnOnce takes the
\* attachment that it finds in the composer for its own by the record of the turn,
\* not by a look at what is attached: this is what the theorems assume of
\* attachments, and prove where prompts are inline.
OwnPrompt == pc = "click" => composer.rid = cur.rid

\* While such a message is there, a turn of its round is pending, so that
\* driveControllerLoop asks nothing else, until the round has its command: no
\* proof that a turn was not sent abandons one that was.
NoOrphan ==
    Consistent /\ run.status \in {"running", "failed"} =>
        \A i \in OpenMessages :
            \/ \E t \in run.pending : t.round = Talk[i].round
            \/ \E n \in DOMAIN run.commands : run.commands[n].round = Talk[i].round

\* retryDeliveryTimeout clicks Retry once per permission: one of the operator, or
\* one that the loop re-armed because an old adapter failed before its click.
RetryWithinGrant == \A i \in Ids : retries[i] <= grants[i]

\* The conversation is archived by one click, of a completed run:
\* settleControllerConversationArchive never repeats a click that it started.
ArchiveOnce == archived <= 1 /\ (archived = 1 => run.status = "complete")

\* The only pending turn is submitted to the known conversation, which shows the
\* command for it.
Answered ==
    /\ run.bound /\ strayed = None
    /\ \E t \in run.pending : run.pending = {t} /\ ~t.manual /\ t.sub = "submitted" /\ Exact(t)

\* continueControllerLoop never leaves such an answer unused for ever, whichever
\* recovery the turn is in.
AnswerUsed == Answered ~> ~Answered

\* docs/state-and-recovery.md says that a prompt that differs from the one on
\* record freezes the run for manual review: it asks nothing new by itself.
FrozenByMismatch ==
    run.notSent.status = "conflict" /\ run.notSent.code = "promptMismatch" =>
        \A t \in run.pending : t.manual
=============================================================================
