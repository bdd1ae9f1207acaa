----------------------------- MODULE TurnRecord -----------------------------
(***************************************************************************)
(* What the event log says of the exchange with the controller: the part   *)
(* of reduceRunState (src/core/state-machine.ts) about controller turns    *)
(* and their recovery, one operator per event type, from the state before  *)
(* the event to the state after it.                                        *)
(*                                                                         *)
(* Simplifications: request ids are numbers and 0 is none; the events are  *)
(* well formed, and carry the prompt hash, the model label and the         *)
(* conversation of the turn they name; every turn has the contract         *)
(* write_ahead_v1; a conversation is known by its generation; an observed  *)
(* failure has one evidence hash; pinning, notices, limits and jobs are    *)
(* left out.  "sent", "answered", "taken" and "cycle" stand for searches   *)
(* of the event list that the handlers make.                               *)
(***************************************************************************)
EXTENDS Naturals, Sequences, FiniteSets

None == 0

NoRecovery == [of |-> None, round |-> 0, gen |-> 0, status |-> "none", retry |-> None,
               comp |-> "none", base |-> 0, lineage |-> 0, code |-> "none"]
NoGrant == [rid |-> None, round |-> 0, status |-> "none"]
NoFailureRetry == [rid |-> None, round |-> 0, status |-> "none", retry |-> None]
NoFailure == [code |-> "none", rid |-> None, sub |-> "none"]
NoCommand == [rid |-> None, round |-> 0, action |-> "none"]
NoRollover == [status |-> "none", rid |-> None, round |-> 0]

\* initialRunState after run_created; archived tells whether the conversation
\* is to be archived at the end.
InitialRun(archived) ==
    [status |-> "running", round |-> 0, gen |-> 1, bound |-> FALSE,
     pending |-> {}, abandoned |-> {}, notSent |-> NoRecovery, postfix |-> NoGrant,
     delivery |-> NoGrant, failure |-> NoFailureRetry, last |-> NoFailure,
     rollover |-> NoRollover, exec |-> NoCommand, commands |-> <<>>,
     archive |-> IF archived THEN "waiting" ELSE "disabled",
     sent |-> {}, answered |-> {}, taken |-> FALSE, cycle |-> [rid |-> None, at |-> "none"]]

Turns(ids, rounds, gens) ==
    [rid : ids, round : rounds, gen : gens, attempt : Nat, sub : {"requested", "submitting", "possibly_sent", "submitted"},
     comp : {"none", "inline", "attach"}, base : Nat, retryOf : ids \cup {None},
     manual : BOOLEAN, grant : BOOLEAN]

Without(turns, rid) == {t \in turns : t.rid # rid}
TurnOf(turns, rid) == {t \in turns : t.rid = rid}
Lower(n) == IF n = 0 THEN 0 ELSE n - 1

-----------------------------------------------------------------------------
(* Requests and their submission                                           *)

\* runtime_stale_owner_takeover_confirmed after controller_turn_submission_started
TakeoverConfirmed(s) == [s EXCEPT !.taken = \E t \in s.pending : t.sub = "submitting"]

RunResumed(s) == [s EXCEPT !.status = "running"]

\* controller_turn_requested and controller_repair_requested
TurnRequested(s, t) ==
    [s EXCEPT
        !.round = t.round,
        !.pending = Without(@, t.rid) \cup {t},
        !.abandoned = Without(@, t.rid),
        !.notSent = IF t.retryOf # None /\ @.of = t.retryOf
                    THEN [@ EXCEPT !.status = "retry_pending", !.retry = t.rid, !.code = "none"]
                    ELSE @,
        !.postfix = IF t.grant /\ @.rid = t.rid /\ @.status = "authorized"
                    THEN [@ EXCEPT !.status = "consumed"] ELSE @,
        !.cycle = IF t.attempt = 0 THEN [rid |-> t.rid, at |-> "requested"] ELSE @]

\* controller_turn_prompt_staged: the turn stays "requested"
PromptStaged(s, rid, comp, base) ==
    [s EXCEPT !.pending = {IF t.rid = rid THEN [t EXCEPT !.comp = comp, !.base = base] ELSE t : t \in @}]

\* controller_turn_submission_started and controller_turn_submitted; url tells
\* whether the page already shows the address of a conversation.
Submission(s, rid, sub, comp, base, url) ==
    IF TurnOf(s.pending, rid) = {} THEN s
    ELSE [s EXCEPT
            !.bound = @ \/ url,
            !.taken = FALSE,
            !.pending = {IF t.rid = rid THEN [t EXCEPT !.sub = sub, !.comp = comp, !.base = base] ELSE t : t \in @},
            !.sent = IF sub = "submitted" THEN @ \cup {rid} ELSE @,
            !.cycle = IF @ = [rid |-> rid, at |-> "requested"] THEN [@ EXCEPT !.at = "started"] ELSE @]

ConversationBound(s) == [s EXCEPT !.bound = TRUE]

ResponseReceived(s, rid, round) ==
    [s EXCEPT
        !.bound = TRUE,
        !.last = NoFailure,
        !.delivery = IF @.rid = rid /\ @.round = round THEN [@ EXCEPT !.status = "resolved"] ELSE @,
        !.failure = IF rid \in {@.rid, @.retry} /\ @.round = round
                    THEN [@ EXCEPT !.status = "resolved"] ELSE @,
        !.answered = @ \cup {rid}]

CommandAccepted(s, rid, round, action) ==
    [s EXCEPT
        !.commands = Append(@, [rid |-> rid, round |-> round]),
        !.exec = [rid |-> rid, round |-> round, action |-> action],
        !.pending = Without(@, rid),
        !.notSent = IF rid \in {@.of, @.retry} THEN NoRecovery ELSE @]

ExecutionCompleted(s) == [s EXCEPT !.exec = NoCommand]

-----------------------------------------------------------------------------
(* Abandoned turns and prompts that were not sent                          *)

\* The abandoned turn was the re-authorized retry, proven unsent by a fresh
\* observation that "fresh" stands for.
PostFixLineage(s, t, fresh) ==
    /\ fresh /\ t.retryOf = t.rid
    /\ s.notSent.of = t.rid /\ s.notSent.retry = t.rid /\ s.notSent.round = t.round
    /\ s.postfix = [rid |-> t.rid, round |-> t.round, status |-> "consumed"]

RecoveryOf(s, t, base) ==
    [of |-> t.rid, round |-> t.round, gen |-> s.gen, status |-> "confirmed", retry |-> None,
     comp |-> t.comp, base |-> base, lineage |-> 0, code |-> "none"]

TurnNotSentConfirmed(s, t, base) == [s EXCEPT !.notSent = RecoveryOf(s, t, base)]

\* controller_turn_abandoned of the pending turn t; unconsumed is
\* round_not_consumed.
TurnAbandoned(s, t, reason, unconsumed, fresh) ==
    [s EXCEPT
        !.round = IF unconsumed /\ t.round = @ THEN Lower(@) ELSE @,
        !.pending = Without(@, t.rid),
        !.abandoned = Without(@, t.rid) \cup {t},
        !.notSent =
            IF t.retryOf # None /\ reason = "definitely_not_sent_retry" /\ @.of = t.retryOf
            THEN [@ EXCEPT !.status = "confirmed", !.retry = None, !.code = "none",
                           !.lineage = s.notSent.lineage + (IF PostFixLineage(s, t, fresh) THEN 1 ELSE 0)]
            ELSE IF reason = "operator_confirmed_not_sent" THEN RecoveryOf(s, t, t.base)
            ELSE @]

RetryConflict(s, rid, code) ==
    [s EXCEPT !.status = "failed",
              !.notSent = IF @.of = None THEN @ ELSE [@ EXCEPT !.status = "conflict", !.code = code],
              !.last = [code |-> code, rid |-> rid, sub |-> "none"]]

\* controller_turn_manual_submission_confirmed, of a pending or abandoned turn
ManualSubmissionConfirmed(s, t) ==
    [s EXCEPT !.bound = TRUE,
              !.pending = Without(@, t.rid) \cup {[t EXCEPT !.sub = "submitted", !.manual = TRUE]},
              !.abandoned = Without(@, t.rid)]

\* controller_turn_post_fix_retry_reauthorized, of a prompt mismatch and of a
\* retry that is pending and was not sent
PostFixReauthorized(s, rid, round) ==
    LET mismatch ==
            /\ s.pending = {}
            /\ s.notSent.of = rid /\ s.notSent.round = round
            /\ s.notSent.status = "conflict" /\ s.notSent.retry = None
            /\ s.notSent.code = "promptMismatch" /\ s.last.code = "promptMismatch"
        retry ==
            /\ \E t \in s.pending : t.rid = rid /\ t.round = round
            /\ s.notSent.retry = rid /\ s.notSent.status = "retry_pending"
    IN IF mismatch \/ retry
       THEN [s EXCEPT !.notSent = [@ EXCEPT !.status = "confirmed", !.retry = None, !.code = "none",
                                            !.lineage = 0],
                      !.postfix = [rid |-> rid, round |-> round, status |-> "authorized"],
                      !.cycle = [rid |-> None, at |-> "none"]]
       ELSE s

-----------------------------------------------------------------------------
(* Failures that the page shows instead of an answer                       *)

Submitted(s, rid, round) == \E t \in s.pending : t.rid = rid /\ t.round = round /\ t.sub = "submitted"

ResponseFailureObserved(s, rid, round) ==
    IF \/ ~Submitted(s, rid, round)
       \/ s.failure.rid = rid /\ s.failure.round = round /\ s.failure.status # "observed"
    THEN s
    ELSE [s EXCEPT !.failure = [rid |-> rid, round |-> round, status |-> "observed", retry |-> None]]

FailureAt(s, rid, round, status) ==
    s.failure.status = status /\ s.failure.rid = rid /\ s.failure.round = round

ResponseRetryAuthorized(s, rid, round) ==
    IF FailureAt(s, rid, round, "observed") THEN [s EXCEPT !.failure.status = "authorized"] ELSE s

ResponseRetryConsumed(s, rid, round) ==
    IF FailureAt(s, rid, round, "authorized") THEN [s EXCEPT !.failure.status = "consumed"] ELSE s

ResponseRetryResent(s, rid, round, retry) ==
    IF FailureAt(s, rid, round, "consumed") /\ retry # rid
    THEN [s EXCEPT !.failure.status = "resent", !.failure.retry = retry] ELSE s

ResponseRetrySkipped(s, rid, round) ==
    IF FailureAt(s, rid, round, "authorized") \/ FailureAt(s, rid, round, "consumed")
    THEN [s EXCEPT !.failure.status = "skipped"] ELSE s

DeliveryAt(s, rid, round, status) == s.delivery = [rid |-> rid, round |-> round, status |-> status]

DeliveryTimeoutObserved(s, rid, round) ==
    IF ~Submitted(s, rid, round)
       \/ \E status \in {"authorized", "consumed", "resolved"} : DeliveryAt(s, rid, round, status)
    THEN s
    ELSE [s EXCEPT !.delivery = [rid |-> rid, round |-> round, status |-> "observed"]]

DeliveryRetryAuthorized(s, rid, round) ==
    IF DeliveryAt(s, rid, round, "observed") THEN [s EXCEPT !.delivery.status = "authorized"] ELSE s

\* MUTANT of DeliveryRetryStarted: the permission is not consumed
DeliveryRetryUnlimited(s, rid, round) == s

DeliveryRetryStarted(s, rid, round) ==
    IF DeliveryAt(s, rid, round, "authorized") THEN [s EXCEPT !.delivery.status = "consumed"] ELSE s

\* A failure of an older adapter proves that the granted click never happened.
DeliveryRetryRearmed(s, rid, round) ==
    IF DeliveryAt(s, rid, round, "consumed") /\ s.last.code = "legacyPreClick" /\ s.last.rid = rid
    THEN [s EXCEPT !.delivery.status = "authorized"] ELSE s

-----------------------------------------------------------------------------
(* Rotation of the conversation                                            *)

RotationRequested(s, t) ==
    IF ~s.bound THEN s
    ELSE [s EXCEPT !.rollover = [status |-> "opening", rid |-> t.rid, round |-> t.round]]

ReplacementOpened(s) ==
    IF s.rollover.status # "opening" \/ TurnOf(s.pending, s.rollover.rid) = {} THEN s
    ELSE [s EXCEPT
            !.round = Lower(s.rollover.round),
            !.bound = FALSE,
            !.gen = @ + 1,
            !.rollover.status = "opened",
            !.pending = Without(@, s.rollover.rid),
            !.abandoned = @ \cup TurnOf(s.pending, s.rollover.rid)]

RotationActivated(s) ==
    IF s.rollover.status = "opened" /\ s.bound THEN [s EXCEPT !.rollover.status = "active"] ELSE s

RotationFailed(s) ==
    IF s.rollover.status = "opening" THEN [s EXCEPT !.rollover.status = "failed"] ELSE s

-----------------------------------------------------------------------------
(* The end of a run                                                        *)

Ended(s, status) ==
    [s EXCEPT !.status = status, !.pending = {}, !.abandoned = {}, !.exec = NoCommand]

RunCompleted(s) ==
    [Ended(s, "complete") EXCEPT !.archive = IF @ = "waiting" THEN "pending" ELSE @]

RunBlocked(s) == Ended(s, "blocked")

\* MUTANT of ArchiveStarted: the checkpoint before the click is not durable
ArchiveNotStarted(s) == s

ArchiveStarted(s) ==
    IF s.status = "complete" /\ s.archive = "pending" /\ s.bound
    THEN [s EXCEPT !.archive = "started"] ELSE s

\* controller_conversation_archived, _ambiguous and, from pending, _failed
ArchiveSettled(s, status) ==
    IF s.archive = (IF status = "failed" THEN "pending" ELSE "started")
    THEN [s EXCEPT !.archive = status] ELSE s

\* The pending re-authorized retry, whose page could not be read after the
\* click (isExactPostFixRetryObservationCandidate, and the same test in the
\* reducer).
PostFixCandidate(s, t) ==
    /\ s.pending = {t}
    /\ t.grant \/ s.notSent.lineage = 1
    /\ t.retryOf = t.rid /\ t.sub = "possibly_sent" /\ ~t.manual /\ t.comp = "attach"
    /\ s.notSent.of = t.rid /\ s.notSent.retry = t.rid /\ s.notSent.round = t.round
    /\ s.notSent.status = "retry_pending"
    /\ s.postfix = [rid |-> t.rid, round |-> t.round, status |-> "consumed"]
    /\ s.last = [code |-> "unreadable", rid |-> t.rid, sub |-> "possibly_sent"]
    /\ s.bound /\ s.notSent.gen = s.gen

PostFixReconciliationWaiting(s, t) ==
    IF PostFixCandidate(s, t) THEN [s EXCEPT !.status = "failed"] ELSE s

\* run_failed; the loss of the heartbeat while the re-authorized retry is
\* reconciled does not replace the failure that its recovery rests on.
RunFailed(s, code, rid, sub) ==
    [s EXCEPT
        !.status = "failed",
        !.notSent = IF code = "confirmationConflict" /\ @.of # None
                    THEN [@ EXCEPT !.status = "conflict", !.code = code] ELSE @,
        !.pending = {IF t.rid = rid /\ t.sub # "submitted" /\ sub \in {"submitting", "possibly_sent", "submitted"}
                     THEN [t EXCEPT !.sub = sub] ELSE t : t \in @},
        !.last = IF /\ code = "heartbeat"
                    /\ \E t \in s.pending : t.rid = rid /\ PostFixCandidate(s, t)
                 THEN @ ELSE [code |-> code, rid |-> rid, sub |-> sub],
        !.cycle = IF code = "notSent" /\ @ = [rid |-> rid, at |-> "started"]
                  THEN [@ EXCEPT !.at = "failed"] ELSE @]
=============================================================================
