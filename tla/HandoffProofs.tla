--------------------------- MODULE HandoffProofs ---------------------------
(***************************************************************************)
(* Proofs about ControllerHandoff, for every plan of faults and every      *)
(* bound: the types, the permissions of the page's Retry, and the one      *)
(* click that archives the conversation.                                   *)
(***************************************************************************)
EXTENDS ControllerHandoff, FiniteSetTheorems, SequenceTheorems, TLAPS

Turn == Turns(Ids, 1..MaxRounds, 1..MaxGen)
AnyId == Ids \cup {None}
AnyRound == 0..MaxRounds
Comps == {"none", "inline", "attach"}
Codes == {"none", "mismatch", "confirmationConflict", "notReady", "preclick", "ambiguous", "unreadable",
          "notSent", "responseTimeout", "manualRejected", "exhausted", "maxRounds", "stagnation",
          "rotationUnsafe", "multiple", "unverified", "turnMismatch", "legacyPreClick",
          "promptMismatch", "responseConflict"}
Subs == {"none", "requested", "submitting", "possibly_sent", "submitted", "definitely_not_sent"}
Reasons == {"definitely_not_sent_retry", "operator_confirmed_not_sent", "operator_selected",
            "fresh_observation_definitely_not_sent", "controller_response_retry_authorized",
            "post_fix_retry_reauthorized", "misdirected_submission_confirmed"}

Recoveries == [of : AnyId, round : AnyRound, gen : 0..MaxGen,
               status : {"none", "confirmed", "retry_pending", "conflict"}, retry : AnyId,
               comp : Comps, base : Nat, lineage : Nat, code : Codes]
Grants == [rid : AnyId, round : AnyRound,
           status : {"none", "observed", "authorized", "consumed", "resolved"}]
Failures == [rid : AnyId, round : AnyRound, retry : AnyId,
             status : {"none", "observed", "authorized", "consumed", "resent", "skipped", "resolved"}]
Lasts == [code : Codes, rid : AnyId, sub : Subs]
Rollovers == [status : {"none", "opening", "opened", "active", "failed"}, rid : AnyId, round : AnyRound]
Commands == {NoCommand} \cup [rid : Ids, round : 1..MaxRounds, action : {"work", "complete", "blocked"}]
Accepted == Seq([rid : Ids, round : 1..MaxRounds])
Statuses == {"running", "failed", "complete", "blocked"}
Archives == {"disabled", "waiting", "pending", "started", "archived", "ambiguous", "failed"}
Cycles == [rid : AnyId, at : {"none", "requested", "started", "failed"}]

Runs ==
    [status : Statuses, round : AnyRound, gen : 1..MaxGen, bound : BOOLEAN,
     pending : SUBSET Turn, abandoned : SUBSET Turn, notSent : Recoveries, postfix : Grants,
     delivery : Grants, failure : Failures, last : Lasts, rollover : Rollovers,
     exec : Commands, commands : Accepted, archive : Archives,
     sent : SUBSET Ids, answered : SUBSET Ids, taken : BOOLEAN, cycle : Cycles]

\* A record of the run; a replacement is opened only below the bound.
GoodRun(s) ==
    /\ s \in Runs /\ IsFiniteSet(s.pending)
    /\ s.rollover.status = "opening" => s.gen < MaxGen

\* The events that give no permission, accept nothing and are not about the
\* archive or the end of a rotation, and those that may wait in todo.
CalmEvents ==
    [type : {"resumed", "bound", "executed", "activated", "rotation_failed", "blocked"}]
    \cup [type : {"requested", "manual", "waiting"}, turn : Turn]
    \cup [type : {"not_sent"}, turn : Turn, base : Nat]
    \cup [type : {"abandoned"}, turn : Turn, reason : Reasons, unconsumed : BOOLEAN, fresh : BOOLEAN]
    \cup [type : {"staged"}, rid : Ids, comp : Comps, base : Nat]
    \cup [type : {"submission"}, rid : Ids, sub : {"submitting", "possibly_sent", "submitted"},
          comp : Comps, base : Nat, url : BOOLEAN]
    \cup [type : {"received", "reauthorized", "failure_observed", "failure_authorized", "failure_consumed",
                  "failure_skipped", "timeout_observed", "timeout_started"}, rid : Ids, round : 1..MaxRounds]
    \cup [type : {"failure_resent"}, rid : Ids, round : 1..MaxRounds, of : AnyId]
    \cup [type : {"conflict"}, rid : AnyId, code : Codes]
    \cup [type : {"failed"}, code : Codes, rid : AnyId, sub : Subs]

Rearmings == [type : {"timeout_rearmed"}, rid : Ids, round : 1..MaxRounds]
Acceptances == [type : {"accepted"}, rid : Ids, round : 1..MaxRounds, action : {"work", "complete", "blocked"}]
Events == CalmEvents \cup Rearmings \cup Acceptances

Attempts ==
    [rid : AnyId, round : AnyRound, attempt : Nat, first : BOOLEAN,
     kind : {"plain", "unsent", "response", "postfix"}, of : AnyId, gen : 0..MaxGen, count : Nat,
     attach : BOOLEAN, grant : BOOLEAN, manual : BOOLEAN, recovered : BOOLEAN,
     base : Nat, comp : Comps, good : BOOLEAN]

Messages == [rid : AnyId, round : AnyRound, ans : {"none", "good", "bad", "failed", "timeout", "late"}]

\* Where the process has an attempt in memory
Asking == {"compose", "stage", "target", "click", "ack", "clicked", "wait", "received", "parse",
           "retry", "retryclick"}

Archiving == {"archive", "archiving", "archiveproof"}
Places == Asking \cup Archiving \cup {"drive", "append", "down", "execute", "rotate", "open", "reconcile"}

\* Places where nothing special may be assumed
Ordinary == Places \ (Archiving \cup {"append", "parse", "rotate", "open", "retry", "retryclick"})

PageInv ==
    /\ talks \in [1..MaxGen -> Seq(Messages)]
    /\ composer \in [kind : {"empty", "inline", "attach"}, rid : AnyId]
    /\ strayed \in AnyId

TypeInv ==
    /\ GoodRun(run) /\ PageInv
    /\ todo \in Seq(Events)
    /\ pc \in Places
    /\ IF pc = "append" THEN then \in Ordinary \cup {"retry"} ELSE then = "none"
    /\ cur \in Attempts
    /\ pc \in Asking \/ then \in Asking => cur.rid \in Ids /\ cur.round \in 1..MaxRounds
    /\ retries \in [Ids -> Nat] /\ grants \in [Ids -> Nat] /\ archived \in Nat
    /\ pc = "append" <=> todo # <<>>

-----------------------------------------------------------------------------
\* A re-armed permission waits to be put on record.
Rearming == pc = "append" /\ then = "retry"
RearmOf(c) == [type |-> "timeout_rearmed", rid |-> c.rid, round |-> c.round]

\* Permissions that are not used yet
Credit(i) ==
    \/ run.delivery.rid = i /\ run.delivery.status = "authorized"
    \/ pc = "retryclick" /\ cur.rid = i
    \/ Rearming /\ cur.rid = i

RetryInv ==
    /\ \A i \in Ids : retries[i] <= grants[i] /\ (Credit(i) => retries[i] < grants[i])
    /\ IF Rearming
       THEN /\ todo = <<RearmOf(cur)>>
            /\ DeliveryAt(run, cur.rid, cur.round, "consumed")
            /\ run.last.code = "legacyPreClick" /\ run.last.rid = cur.rid
       ELSE \A n \in 1..Len(todo) : todo[n].type # "timeout_rearmed"
    /\ pc = "retry" => DeliveryAt(run, cur.rid, cur.round, "authorized")
    /\ pc = "retryclick" => ~(run.delivery.rid = cur.rid /\ run.delivery.status = "authorized")

ArchiveInv ==
    /\ run.exec # NoCommand => run.bound
    /\ pc = "parse" => run.bound
    /\ (\E n \in 1..Len(todo) : todo[n].type = "accepted") => run.bound
    /\ pc \in {"rotate", "open"} => run.exec = NoCommand
    /\ run.status = "complete" => run.bound /\ pc \in Archiving \cup {"down"}
    /\ pc \in Archiving => run.status = "complete"
    /\ pc = "archiving" => run.archive = "started" /\ archived = 0
    /\ pc = "archiveproof" => run.archive = "started"
    /\ archived <= 1
    /\ archived = 1 => run.status = "complete" /\ run.archive \in {"started", "archived", "ambiguous"}

Inv == TypeInv /\ RetryInv /\ ArchiveInv

-----------------------------------------------------------------------------
(* What each event makes of a run *)

\* What most events leave alone.
Calm(s, u) ==
    /\ u.archive = s.archive /\ (s.bound => u.bound)
    /\ u.exec \in {s.exec, NoCommand}
    /\ u.status = "complete" => s.status = "complete"

\* No permission to click Retry is given.
Revoking(s, u) == u.delivery.status = "authorized" => u.delivery = s.delivery

Good(s, u) == GoodRun(u) /\ Calm(s, u) /\ Revoking(s, u)

LEMMA Fields ==
    ASSUME NEW s, GoodRun(s)
    PROVE  /\ s.status \in Statuses /\ s.round \in AnyRound /\ s.gen \in 1..MaxGen
           /\ s.bound \in BOOLEAN /\ s.pending \subseteq Turn /\ s.abandoned \subseteq Turn
           /\ IsFiniteSet(s.pending)
           /\ s.notSent \in Recoveries /\ s.postfix \in Grants /\ s.delivery \in Grants
           /\ s.failure \in Failures /\ s.last \in Lasts /\ s.rollover \in Rollovers
           /\ s.exec \in Commands /\ s.commands \in Accepted /\ s.archive \in Archives
           /\ s.sent \subseteq Ids /\ s.answered \subseteq Ids /\ s.cycle \in Cycles
  BY DEF GoodRun, Runs

LEMMA TurnFields ==
    ASSUME NEW t \in Turn
    PROVE  /\ t.rid \in Ids /\ t.round \in 1..MaxRounds /\ t.gen \in 1..MaxGen /\ t.attempt \in Nat
           /\ t.sub \in {"requested", "submitting", "possibly_sent", "submitted"} /\ t.comp \in Comps
           /\ t.base \in Nat /\ t.retryOf \in AnyId /\ t.manual \in BOOLEAN /\ t.grant \in BOOLEAN
           /\ t.round \in AnyRound /\ t.rid \in AnyId
  BY TurnAssumption DEF Turn, Turns, Comps, AnyId, AnyRound

LEMMA Finite ==
    ASSUME NEW S, IsFiniteSet(S)
    PROVE  /\ \A r : IsFiniteSet(Without(S, r)) /\ IsFiniteSet(TurnOf(S, r))
           /\ \A r, x : IsFiniteSet(Without(S, r) \cup {x})
  BY FS_Subset, FS_AddElement DEF Without, TurnOf

LEMMA Mapped ==
    ASSUME NEW S, IsFiniteSet(S), NEW f \in [S -> Turn]
    PROVE  {f[x] : x \in S} \subseteq Turn /\ IsFiniteSet({f[x] : x \in S})
<1> DEFINE T == {f[x] : x \in S}
<1>1. f \in Surjection(S, T)
  BY DEF Surjection
<1> QED BY <1>1, FS_Surjection

\* A run with other turns pending
LEMMA OtherPending ==
    ASSUME NEW s, GoodRun(s), NEW P \in SUBSET Turn, IsFiniteSet(P)
    PROVE  Good(s, [s EXCEPT !.pending = P])
  BY Fields DEF GoodRun, Good, Calm, Revoking, Runs

LEMMA TurnRequestedGood ==
    ASSUME NEW s, GoodRun(s), NEW t \in Turn
    PROVE  Good(s, TurnRequested(s, t))
<1> DEFINE u == TurnRequested(s, t)
           pending == Without(s.pending, t.rid) \cup {t}
           abandoned == Without(s.abandoned, t.rid)
           notSent == IF t.retryOf # None /\ s.notSent.of = t.retryOf
                      THEN [s.notSent EXCEPT !.status = "retry_pending", !.retry = t.rid, !.code = "none"]
                      ELSE s.notSent
           postfix == IF t.grant /\ s.postfix.rid = t.rid /\ s.postfix.status = "authorized"
                      THEN [s.postfix EXCEPT !.status = "consumed"] ELSE s.postfix
           cycle == IF t.attempt = 0 THEN [rid |-> t.rid, at |-> "requested"] ELSE s.cycle
<1>1. u = [s EXCEPT !.round = t.round, !.pending = pending, !.abandoned = abandoned,
                    !.notSent = notSent, !.postfix = postfix, !.cycle = cycle]
  BY DEF TurnRequested
<1> USE Fields, TurnFields
<1>2. IsFiniteSet(pending) /\ pending \in SUBSET Turn /\ abandoned \in SUBSET Turn
  BY Finite DEF Without
<1>3. notSent \in Recoveries
  BY DEF Recoveries, Codes
<1>4. postfix \in Grants
  BY DEF Grants
<1>5. cycle \in Cycles
  BY DEF Cycles
<1> HIDE DEF u, pending, abandoned, notSent, postfix, cycle
<1>6. u \in Runs
  BY <1>1, <1>2, <1>3, <1>4, <1>5 DEF GoodRun, Runs
<1>7. /\ u.pending = pending /\ u.rollover = s.rollover /\ u.gen = s.gen /\ u.delivery = s.delivery
      /\ u.archive = s.archive /\ u.bound = s.bound /\ u.exec = s.exec /\ u.status = s.status
  BY <1>1 DEF GoodRun, Runs
<1> QED BY <1>2, <1>6, <1>7, Fields DEF u, GoodRun, Good, Calm, Revoking

LEMMA PromptStagedGood ==
    ASSUME NEW s, GoodRun(s), NEW rid, NEW comp \in Comps, NEW base \in Nat
    PROVE  Good(s, PromptStaged(s, rid, comp, base))
<1> DEFINE f == [t \in s.pending |-> IF t.rid = rid THEN [t EXCEPT !.comp = comp, !.base = base] ELSE t]
           P == {f[t] : t \in s.pending}
<1>1. f \in [s.pending -> Turn]
  <2>1. ASSUME NEW t \in Turn PROVE [t EXCEPT !.comp = comp, !.base = base] \in Turn
    BY DEF Turn, Turns, Comps
  <2> QED BY <2>1, Fields
<1>2. PromptStaged(s, rid, comp, base) = [s EXCEPT !.pending = P]
  BY DEF PromptStaged
<1> HIDE DEF f
<1>3. P \in SUBSET Turn /\ IsFiniteSet(P)
  BY <1>1, Mapped, Fields
<1> HIDE DEF P
<1> QED BY <1>2, <1>3, OtherPending

LEMMA SubmissionGood ==
    ASSUME NEW s, GoodRun(s), NEW rid \in Ids, NEW comp \in Comps, NEW base \in Nat,
           NEW sub \in {"submitting", "possibly_sent", "submitted"}, NEW url \in BOOLEAN
    PROVE  Good(s, Submission(s, rid, sub, comp, base, url))
<1> DEFINE f == [t \in s.pending |-> IF t.rid = rid THEN [t EXCEPT !.sub = sub, !.comp = comp, !.base = base] ELSE t]
           P == {f[t] : t \in s.pending}
           sent == IF sub = "submitted" THEN s.sent \cup {rid} ELSE s.sent
           cycle == IF s.cycle = [rid |-> rid, at |-> "requested"] THEN [s.cycle EXCEPT !.at = "started"] ELSE s.cycle
           u == [s EXCEPT !.bound = s.bound \/ url, !.taken = FALSE, !.pending = P, !.sent = sent, !.cycle = cycle]
<1>1. f \in [s.pending -> Turn]
  <2>1. ASSUME NEW t \in Turn PROVE [t EXCEPT !.sub = sub, !.comp = comp, !.base = base] \in Turn
    BY DEF Turn, Turns, Comps
  <2> QED BY <2>1, Fields
<1>2. Submission(s, rid, sub, comp, base, url) = IF TurnOf(s.pending, rid) = {} THEN s ELSE u
  BY DEF Submission
<1>3. sent \in SUBSET Ids /\ cycle \in Cycles
  BY Fields DEF Cycles
<1> HIDE DEF f
<1>4. P \in SUBSET Turn /\ IsFiniteSet(P)
  BY <1>1, Mapped, Fields
<1> HIDE DEF P, sent, cycle
<1>5. Good(s, u)
  BY <1>3, <1>4 DEF GoodRun, Good, Calm, Revoking, Runs
<1> QED BY <1>2, <1>5 DEF Good, Calm, Revoking

LEMMA RunResumedGood == ASSUME NEW s, GoodRun(s) PROVE Good(s, RunResumed(s))
  BY DEF RunResumed, GoodRun, Good, Calm, Revoking, Runs, Statuses

LEMMA TakeoverConfirmedGood == ASSUME NEW s, GoodRun(s) PROVE Good(s, TakeoverConfirmed(s))
  BY DEF TakeoverConfirmed, GoodRun, Good, Calm, Revoking, Runs

LEMMA ConversationBoundGood == ASSUME NEW s, GoodRun(s) PROVE Good(s, ConversationBound(s))
  BY DEF ConversationBound, GoodRun, Good, Calm, Revoking, Runs

LEMMA ExecutionCompletedGood == ASSUME NEW s, GoodRun(s) PROVE Good(s, ExecutionCompleted(s))
  BY DEF ExecutionCompleted, GoodRun, Good, Calm, Revoking, Runs, Commands

LEMMA ResponseReceivedGood ==
    ASSUME NEW s, GoodRun(s), NEW rid \in Ids, NEW round
    PROVE  Good(s, ResponseReceived(s, rid, round)) /\ ResponseReceived(s, rid, round).bound
<1> DEFINE u == ResponseReceived(s, rid, round)
           delivery == IF s.delivery.rid = rid /\ s.delivery.round = round
                       THEN [s.delivery EXCEPT !.status = "resolved"] ELSE s.delivery
           failure == IF rid \in {s.failure.rid, s.failure.retry} /\ s.failure.round = round
                      THEN [s.failure EXCEPT !.status = "resolved"] ELSE s.failure
           answered == s.answered \cup {rid}
<1>1. u = [s EXCEPT !.bound = TRUE, !.last = NoFailure, !.delivery = delivery, !.failure = failure,
                    !.answered = answered]
  BY DEF ResponseReceived
<1>2. delivery \in Grants /\ (delivery.status = "authorized" => delivery = s.delivery)
  BY Fields DEF Grants
<1>3. failure \in Failures /\ answered \in SUBSET Ids
  BY Fields DEF Failures
<1>4. NoFailure \in Lasts
  BY DEF NoFailure, Lasts, Codes, Subs, AnyId
<1> HIDE DEF u, delivery, failure, answered
<1>5. u \in Runs
  BY <1>1, <1>2, <1>3, <1>4 DEF GoodRun, Runs
<1>6. /\ u.pending = s.pending /\ u.rollover = s.rollover /\ u.gen = s.gen /\ u.delivery = delivery
      /\ u.archive = s.archive /\ u.bound = TRUE /\ u.exec = s.exec /\ u.status = s.status
  BY <1>1 DEF GoodRun, Runs
<1> QED BY <1>2, <1>5, <1>6, Fields DEF u, GoodRun, Good, Calm, Revoking

LEMMA CommandAcceptedGood ==
    ASSUME NEW s, GoodRun(s), NEW rid \in Ids, NEW round \in 1..MaxRounds,
           NEW action \in {"work", "complete", "blocked"}
    PROVE  LET u == CommandAccepted(s, rid, round, action)
           IN GoodRun(u) /\ u.bound = s.bound /\ u.status = s.status /\ u.archive = s.archive
              /\ u.delivery = s.delivery
<1> DEFINE u == CommandAccepted(s, rid, round, action)
           commands == Append(s.commands, [rid |-> rid, round |-> round])
           exec == [rid |-> rid, round |-> round, action |-> action]
           pending == Without(s.pending, rid)
           notSent == IF rid \in {s.notSent.of, s.notSent.retry} THEN NoRecovery ELSE s.notSent
<1>1. u = [s EXCEPT !.commands = commands, !.exec = exec, !.pending = pending, !.notSent = notSent]
  BY DEF CommandAccepted
<1>2. commands \in Accepted
  <2>1. [rid |-> rid, round |-> round] \in [rid : Ids, round : 1..MaxRounds]
    OBVIOUS
  <2>2. s.commands \in Seq([rid : Ids, round : 1..MaxRounds])
    BY Fields DEF Accepted
  <2> QED BY <2>1, <2>2 DEF Accepted
<1>3. exec \in Commands
  BY DEF Commands
<1>4. pending \in SUBSET Turn /\ IsFiniteSet(pending)
  BY Fields, Finite DEF Without
<1>5. NoRecovery \in Recoveries
  BY TurnAssumption DEF NoRecovery, Recoveries, AnyId, AnyRound, Codes, Comps
<1>6. notSent \in Recoveries
  BY <1>5, Fields
<1> HIDE DEF u, commands, exec, pending, notSent
<1>7. u \in Runs
  BY <1>1, <1>2, <1>3, <1>4, <1>6 DEF GoodRun, Runs
<1>8. /\ u.pending = pending /\ u.rollover = s.rollover /\ u.gen = s.gen /\ u.delivery = s.delivery
      /\ u.archive = s.archive /\ u.bound = s.bound /\ u.status = s.status
  BY <1>1 DEF GoodRun, Runs
<1> QED BY <1>4, <1>7, <1>8 DEF u, GoodRun

\* The recovery that a turn which was not sent begins
LEMMA RecoveryGood ==
    ASSUME NEW s, GoodRun(s), NEW t \in Turn, NEW base \in Nat
    PROVE  RecoveryOf(s, t, base) \in Recoveries
  BY Fields, TurnFields DEF RecoveryOf, Recoveries, Codes, AnyId

LEMMA TurnNotSentGood ==
    ASSUME NEW s, GoodRun(s), NEW t \in Turn, NEW base \in Nat
    PROVE  Good(s, TurnNotSentConfirmed(s, t, base))
  BY RecoveryGood DEF TurnNotSentConfirmed, GoodRun, Good, Calm, Revoking, Runs

LEMMA LowerRound == ASSUME NEW n \in AnyRound PROVE Lower(n) \in AnyRound
  BY TurnAssumption DEF Lower, AnyRound

LEMMA TurnAbandonedGood ==
    ASSUME NEW s, GoodRun(s), NEW t \in Turn, NEW reason, NEW unconsumed \in BOOLEAN, NEW fresh \in BOOLEAN
    PROVE  Good(s, TurnAbandoned(s, t, reason, unconsumed, fresh))
<1> DEFINE u == TurnAbandoned(s, t, reason, unconsumed, fresh)
           round == IF unconsumed /\ t.round = s.round THEN Lower(s.round) ELSE s.round
           pending == Without(s.pending, t.rid)
           abandoned == Without(s.abandoned, t.rid) \cup {t}
           lineage == s.notSent.lineage + (IF PostFixLineage(s, t, fresh) THEN 1 ELSE 0)
           back == [s.notSent EXCEPT !.status = "confirmed", !.retry = None, !.code = "none", !.lineage = lineage]
           notSent == IF t.retryOf # None /\ reason = "definitely_not_sent_retry" /\ s.notSent.of = t.retryOf
                      THEN back
                      ELSE IF reason = "operator_confirmed_not_sent" THEN RecoveryOf(s, t, t.base)
                      ELSE s.notSent
<1>1. u = [s EXCEPT !.round = round, !.pending = pending, !.abandoned = abandoned, !.notSent = notSent]
  BY DEF TurnAbandoned
<1>2. round \in AnyRound
  BY Fields, LowerRound
<1>3. pending \in SUBSET Turn /\ IsFiniteSet(pending) /\ abandoned \in SUBSET Turn
  BY Fields, Finite DEF Without
<1>4. lineage \in Nat
  BY Fields DEF Recoveries
<1> HIDE DEF lineage
<1>5. back \in Recoveries
  BY Fields, <1>4 DEF Recoveries, AnyId, Codes
<1>6. notSent \in Recoveries
  BY <1>5, Fields, TurnFields, RecoveryGood
<1> HIDE DEF u, round, pending, abandoned, back, notSent
<1>7. u \in Runs
  BY <1>1, <1>2, <1>3, <1>6 DEF GoodRun, Runs
<1>8. /\ u.pending = pending /\ u.rollover = s.rollover /\ u.gen = s.gen /\ u.delivery = s.delivery
      /\ u.archive = s.archive /\ u.bound = s.bound /\ u.exec = s.exec /\ u.status = s.status
  BY <1>1 DEF GoodRun, Runs
<1> QED BY <1>3, <1>7, <1>8, Fields DEF u, GoodRun, Good, Calm, Revoking

LEMMA RetryConflictGood ==
    ASSUME NEW s, GoodRun(s), NEW rid \in AnyId, NEW code \in Codes
    PROVE  Good(s, RetryConflict(s, rid, code))
<1> DEFINE notSent == IF s.notSent.of = None THEN s.notSent ELSE [s.notSent EXCEPT !.status = "conflict", !.code = code]
           last == [code |-> code, rid |-> rid, sub |-> "none"]
<1>1. RetryConflict(s, rid, code) = [s EXCEPT !.status = "failed", !.notSent = notSent, !.last = last]
  BY DEF RetryConflict
<1>2. notSent \in Recoveries /\ last \in Lasts
  BY Fields DEF Recoveries, Lasts, Subs
<1> HIDE DEF notSent, last
<1> QED BY <1>1, <1>2 DEF GoodRun, Good, Calm, Revoking, Runs, Statuses

LEMMA ManualSubmissionGood ==
    ASSUME NEW s, GoodRun(s), NEW t \in Turn
    PROVE  Good(s, ManualSubmissionConfirmed(s, t))
<1> DEFINE v == [t EXCEPT !.sub = "submitted", !.manual = TRUE]
           pending == Without(s.pending, t.rid) \cup {v}
           abandoned == Without(s.abandoned, t.rid)
<1>1. ManualSubmissionConfirmed(s, t) = [s EXCEPT !.bound = TRUE, !.pending = pending, !.abandoned = abandoned]
  BY DEF ManualSubmissionConfirmed
<1>2. v \in Turn
  BY DEF Turn, Turns
<1>3. pending \in SUBSET Turn /\ IsFiniteSet(pending) /\ abandoned \in SUBSET Turn
  BY <1>2, Fields, Finite DEF Without
<1> HIDE DEF v, pending, abandoned
<1> QED BY <1>1, <1>3 DEF GoodRun, Good, Calm, Revoking, Runs

LEMMA ReauthorizedGood ==
    ASSUME NEW s, GoodRun(s), NEW rid \in Ids, NEW round \in 1..MaxRounds
    PROVE  Good(s, PostFixReauthorized(s, rid, round))
<1> DEFINE notSent == [s.notSent EXCEPT !.status = "confirmed", !.retry = None, !.code = "none", !.lineage = 0]
           postfix == [rid |-> rid, round |-> round, status |-> "authorized"]
           cycle == [rid |-> None, at |-> "none"]
           u == [s EXCEPT !.notSent = notSent, !.postfix = postfix, !.cycle = cycle]
<1>1. PostFixReauthorized(s, rid, round) \in {s, u}
  BY DEF PostFixReauthorized
<1>2. notSent \in Recoveries /\ postfix \in Grants /\ cycle \in Cycles
  <2>1. notSent \in Recoveries
    BY Fields DEF Recoveries, AnyId, Codes
  <2>2. postfix \in Grants
    BY TurnAssumption DEF Grants, AnyId, AnyRound
  <2>3. cycle \in Cycles
    BY DEF Cycles, AnyId
  <2> QED BY <2>1, <2>2, <2>3
<1> HIDE DEF notSent, postfix, cycle
<1>3. Good(s, u)
  BY <1>2 DEF GoodRun, Good, Calm, Revoking, Runs
<1> QED BY <1>1, <1>3 DEF Good, Calm, Revoking

\* The events about one failure or one delivery change one record of the run.
LEMMA OtherFailure ==
    ASSUME NEW s, GoodRun(s), NEW f \in Failures
    PROVE  Good(s, [s EXCEPT !.failure = f])
  BY DEF GoodRun, Good, Calm, Revoking, Runs

LEMMA Unchanged == ASSUME NEW s, GoodRun(s) PROVE Good(s, s)
  BY DEF Good, Calm, Revoking

LEMMA FailureGood ==
    ASSUME NEW s, GoodRun(s), NEW rid \in Ids, NEW round \in 1..MaxRounds
    PROVE  /\ Good(s, ResponseFailureObserved(s, rid, round))
           /\ Good(s, ResponseRetryAuthorized(s, rid, round))
           /\ Good(s, ResponseRetryConsumed(s, rid, round))
           /\ Good(s, ResponseRetrySkipped(s, rid, round))
           /\ \A of, retry \in AnyId : Good(s, ResponseRetryResent(s, of, round, retry))
<1>1. [rid |-> rid, round |-> round, status |-> "observed", retry |-> None] \in Failures
  BY TurnAssumption DEF Failures, AnyId, AnyRound
<1>2. \A status \in {"authorized", "consumed", "skipped", "resent"} : [s.failure EXCEPT !.status = status] \in Failures
  BY Fields DEF Failures
<1>3. \A retry \in AnyId : [[s.failure EXCEPT !.status = "resent"] EXCEPT !.retry = retry] \in Failures
  BY Fields DEF Failures, AnyId
<1>4. Good(s, ResponseFailureObserved(s, rid, round))
  BY <1>1, OtherFailure, Unchanged DEF ResponseFailureObserved
<1>5. Good(s, ResponseRetryAuthorized(s, rid, round))
  BY <1>2, OtherFailure, Unchanged DEF ResponseRetryAuthorized
<1>6. Good(s, ResponseRetryConsumed(s, rid, round))
  BY <1>2, OtherFailure, Unchanged DEF ResponseRetryConsumed
<1>7. Good(s, ResponseRetrySkipped(s, rid, round))
  BY <1>2, OtherFailure, Unchanged DEF ResponseRetrySkipped
<1>8. ASSUME NEW of \in AnyId, NEW retry \in AnyId
      PROVE  Good(s, ResponseRetryResent(s, of, round, retry))
  <2> DEFINE v == [s EXCEPT !.failure.status = "resent", !.failure.retry = retry]
  <2>1. v = [s EXCEPT !.failure = [[s.failure EXCEPT !.status = "resent"] EXCEPT !.retry = retry]]
    BY DEF GoodRun, Runs
  <2>2. Good(s, v)
    BY <1>3, <2>1, OtherFailure
  <2> QED BY <2>2, Unchanged DEF ResponseRetryResent
<1> QED BY <1>4, <1>5, <1>6, <1>7, <1>8

\* A run in which only a permission to click Retry changes
SameBut(s, u) ==
    /\ GoodRun(u) /\ Calm(s, u)
    /\ u.exec = s.exec /\ u.status = s.status /\ u.last = s.last

LEMMA OtherDelivery ==
    ASSUME NEW s, GoodRun(s), NEW d \in Grants
    PROVE  /\ SameBut(s, [s EXCEPT !.delivery = d])
           /\ [s EXCEPT !.delivery = d].delivery = d
  BY DEF GoodRun, SameBut, Calm, Runs

LEMMA DeliveryGood ==
    ASSUME NEW s, GoodRun(s), NEW rid \in Ids, NEW round \in 1..MaxRounds
    PROVE  /\ Good(s, DeliveryTimeoutObserved(s, rid, round))
           /\ Good(s, DeliveryRetryStarted(s, rid, round))
           /\ ~DeliveryAt(DeliveryRetryStarted(s, rid, round), rid, round, "authorized")
           /\ SameBut(s, DeliveryRetryAuthorized(s, rid, round))
           /\ IF DeliveryAt(s, rid, round, "observed")
              THEN DeliveryAt(DeliveryRetryAuthorized(s, rid, round), rid, round, "authorized")
              ELSE DeliveryRetryAuthorized(s, rid, round).delivery = s.delivery
           /\ SameBut(s, DeliveryRetryRearmed(s, rid, round))
           /\ IF DeliveryAt(s, rid, round, "consumed") /\ s.last.code = "legacyPreClick" /\ s.last.rid = rid
              THEN DeliveryAt(DeliveryRetryRearmed(s, rid, round), rid, round, "authorized")
              ELSE DeliveryRetryRearmed(s, rid, round).delivery = s.delivery
<1> DEFINE d == [rid |-> rid, round |-> round, status |-> "observed"]
           e(status) == [s.delivery EXCEPT !.status = status]
<1>1. d \in Grants
  BY TurnAssumption DEF Grants, AnyId, AnyRound
<1>2. \A status \in {"authorized", "consumed"} : e(status) \in Grants /\ e(status).status = status
        /\ (s.delivery.rid = rid /\ s.delivery.round = round => e(status) = [rid |-> rid, round |-> round, status |-> status])
  BY Fields DEF Grants
<1>3. SameBut(s, s)
  BY DEF SameBut, Calm
<1>4. SameBut(s, [s EXCEPT !.delivery = d]) /\ [s EXCEPT !.delivery = d].delivery = d
  BY <1>1, OtherDelivery
<1>5. \A status \in {"authorized", "consumed"} :
        /\ [s EXCEPT !.delivery.status = status] = [s EXCEPT !.delivery = e(status)]
        /\ SameBut(s, [s EXCEPT !.delivery = e(status)])
        /\ [s EXCEPT !.delivery = e(status)].delivery = e(status)
  BY <1>2, OtherDelivery
<1>6. \A u : SameBut(s, u) /\ u.delivery.status # "authorized" => Good(s, u)
  BY DEF SameBut, Good, Revoking
<1>7. Good(s, DeliveryTimeoutObserved(s, rid, round))
  <2> DEFINE v == [s EXCEPT !.delivery = d]
  <2>1. Good(s, v)
    <3>1. d.status = "observed"
      OBVIOUS
    <3>2. SameBut(s, v) /\ v.delivery = d
      BY <1>4
    <3> HIDE DEF d, v
    <3> QED BY <1>6, <3>1, <3>2
  <2>2. DeliveryTimeoutObserved(s, rid, round) \in {s, v}
    BY DEF DeliveryTimeoutObserved
  <2> QED BY <2>1, <2>2, Unchanged
<1> HIDE DEF d, e
<1>8. /\ Good(s, DeliveryRetryStarted(s, rid, round))
      /\ ~DeliveryAt(DeliveryRetryStarted(s, rid, round), rid, round, "authorized")
  BY <1>2, <1>5, <1>6, Unchanged DEF DeliveryRetryStarted, DeliveryAt
<1>9. /\ SameBut(s, DeliveryRetryAuthorized(s, rid, round))
      /\ IF DeliveryAt(s, rid, round, "observed")
         THEN DeliveryAt(DeliveryRetryAuthorized(s, rid, round), rid, round, "authorized")
         ELSE DeliveryRetryAuthorized(s, rid, round).delivery = s.delivery
  BY <1>2, <1>3, <1>5 DEF DeliveryRetryAuthorized, DeliveryAt
<1>10. /\ SameBut(s, DeliveryRetryRearmed(s, rid, round))
       /\ IF DeliveryAt(s, rid, round, "consumed") /\ s.last.code = "legacyPreClick" /\ s.last.rid = rid
          THEN DeliveryAt(DeliveryRetryRearmed(s, rid, round), rid, round, "authorized")
          ELSE DeliveryRetryRearmed(s, rid, round).delivery = s.delivery
  BY <1>2, <1>3, <1>5 DEF DeliveryRetryRearmed, DeliveryAt
<1> QED BY <1>7, <1>8, <1>9, <1>10

LEMMA RotationGood ==
    ASSUME NEW s, GoodRun(s)
    PROVE  /\ s.gen < MaxGen => \A t \in Turn : Good(s, RotationRequested(s, t))
           /\ Good(s, RotationActivated(s)) /\ Good(s, RotationFailed(s))
<1>1. ASSUME NEW r \in Rollovers, r.status = "opening" => s.gen < MaxGen
      PROVE  Good(s, [s EXCEPT !.rollover = r])
  BY <1>1 DEF GoodRun, Good, Calm, Revoking, Runs
<1>2. ASSUME s.gen < MaxGen, NEW t \in Turn
      PROVE  Good(s, RotationRequested(s, t))
  <2> DEFINE r == [status |-> "opening", rid |-> t.rid, round |-> t.round]
  <2>1. r \in Rollovers
    BY TurnFields DEF Rollovers
  <2>2. RotationRequested(s, t) \in {s, [s EXCEPT !.rollover = r]}
    BY DEF RotationRequested
  <2> HIDE DEF r
  <2> QED BY <1>1, <1>2, <2>1, <2>2, Unchanged
<1>3. \A status \in {"active", "failed"} :
        [s.rollover EXCEPT !.status = status] \in Rollovers /\ [s.rollover EXCEPT !.status = status].status = status
  BY Fields DEF Rollovers
<1>4. Good(s, RotationActivated(s))
  BY <1>1, <1>3, Unchanged DEF RotationActivated
<1>5. Good(s, RotationFailed(s))
  BY <1>1, <1>3, Unchanged DEF RotationFailed
<1> QED BY <1>2, <1>4, <1>5

LEMMA ReplacementGood ==
    ASSUME NEW s, GoodRun(s)
    PROVE  LET u == ReplacementOpened(s)
           IN GoodRun(u) /\ u.exec = s.exec /\ u.status = s.status /\ u.archive = s.archive /\ u.delivery = s.delivery
<1> DEFINE rid == s.rollover.rid
           round == Lower(s.rollover.round)
           rollover == [s.rollover EXCEPT !.status = "opened"]
           pending == Without(s.pending, rid)
           abandoned == s.abandoned \cup TurnOf(s.pending, rid)
           gen == s.gen + 1
           u == [s EXCEPT !.round = round, !.bound = FALSE, !.gen = gen, !.rollover = rollover,
                          !.pending = pending, !.abandoned = abandoned]
<1>1. CASE s.rollover.status # "opening" \/ TurnOf(s.pending, rid) = {}
  BY <1>1 DEF ReplacementOpened
<1>2. CASE s.rollover.status = "opening" /\ TurnOf(s.pending, rid) # {}
  <2>1. ReplacementOpened(s) = u
    BY <1>2 DEF ReplacementOpened
  <2>2. round \in AnyRound
    BY Fields, LowerRound DEF Rollovers
  <2>3. rollover \in Rollovers /\ rollover.status = "opened"
    BY Fields DEF Rollovers
  <2>4. gen \in 1..MaxGen
    BY <1>2, Fields, TurnAssumption DEF GoodRun
  <2>5. pending \in SUBSET Turn /\ IsFiniteSet(pending) /\ abandoned \in SUBSET Turn
    BY Fields, Finite DEF Without, TurnOf
  <2> HIDE DEF round, rollover, pending, abandoned, gen
  <2>6. u \in Runs
    BY <2>2, <2>3, <2>4, <2>5 DEF GoodRun, Runs
  <2>7. /\ u.pending = pending /\ u.rollover = rollover /\ u.exec = s.exec /\ u.status = s.status
        /\ u.archive = s.archive /\ u.delivery = s.delivery
    BY DEF GoodRun, Runs
  <2> HIDE DEF u
  <2> QED BY <2>1, <2>3, <2>5, <2>6, <2>7 DEF GoodRun
<1> QED BY <1>1, <1>2

LEMMA NoneFinite == IsFiniteSet({})
  BY FS_EmptySet

LEMMA EndedGood ==
    ASSUME NEW s, GoodRun(s), NEW status \in Statuses
    PROVE  LET u == Ended(s, status)
           IN GoodRun(u) /\ u.status = status /\ u.exec = NoCommand /\ u.bound = s.bound
              /\ u.delivery = s.delivery /\ u.archive = s.archive
  BY NoneFinite DEF Ended, GoodRun, Runs, Commands

LEMMA RunBlockedGood == ASSUME NEW s, GoodRun(s) PROVE Good(s, RunBlocked(s))
  BY EndedGood DEF RunBlocked, Good, Calm, Revoking, Statuses

LEMMA RunCompletedGood ==
    ASSUME NEW s, GoodRun(s)
    PROVE  LET u == RunCompleted(s)
           IN GoodRun(u) /\ u.status = "complete" /\ u.exec = NoCommand /\ u.bound = s.bound
              /\ u.delivery = s.delivery
<1> DEFINE v == Ended(s, "complete")
           archive == IF v.archive = "waiting" THEN "pending" ELSE v.archive
<1>1. GoodRun(v) /\ v.status = "complete" /\ v.exec = NoCommand /\ v.bound = s.bound /\ v.delivery = s.delivery
  BY EndedGood DEF Statuses
<1>2. RunCompleted(s) = [v EXCEPT !.archive = archive]
  BY DEF RunCompleted
<1> HIDE DEF v
<1>3. archive \in Archives
  BY <1>1, Fields DEF Archives
<1> HIDE DEF archive
<1> QED BY <1>1, <1>2, <1>3 DEF GoodRun, Runs

\* Only the archive changes.
LEMMA ArchiveGood ==
    ASSUME NEW s, GoodRun(s), NEW a \in Archives
    PROVE  LET u == [s EXCEPT !.archive = a]
           IN GoodRun(u) /\ u.archive = a /\ u.exec = s.exec /\ u.bound = s.bound /\ u.status = s.status
              /\ u.delivery = s.delivery
  BY DEF GoodRun, Runs

LEMMA ReconciliationWaitingGood ==
    ASSUME NEW s, GoodRun(s), NEW t
    PROVE  Good(s, PostFixReconciliationWaiting(s, t))
<1>1. Good(s, [s EXCEPT !.status = "failed"])
  BY DEF GoodRun, Good, Calm, Revoking, Runs, Statuses
<1> QED BY <1>1, Unchanged DEF PostFixReconciliationWaiting

LEMMA RunFailedGood ==
    ASSUME NEW s, GoodRun(s), NEW code \in Codes, NEW rid \in AnyId, NEW sub \in Subs
    PROVE  Good(s, RunFailed(s, code, rid, sub)) /\ RunFailed(s, code, rid, sub).delivery = s.delivery
<1> DEFINE f == [t \in s.pending |->
                    IF t.rid = rid /\ t.sub # "submitted" /\ sub \in {"submitting", "possibly_sent", "submitted"}
                    THEN [t EXCEPT !.sub = sub] ELSE t]
           pending == {f[t] : t \in s.pending}
           notSent == IF code = "confirmationConflict" /\ s.notSent.of # None
                      THEN [s.notSent EXCEPT !.status = "conflict", !.code = code] ELSE s.notSent
           last == IF /\ code = "heartbeat"
                      /\ \E t \in s.pending : t.rid = rid /\ PostFixCandidate(s, t)
                   THEN s.last ELSE [code |-> code, rid |-> rid, sub |-> sub]
           cycle == IF code = "notSent" /\ s.cycle = [rid |-> rid, at |-> "started"]
                    THEN [s.cycle EXCEPT !.at = "failed"] ELSE s.cycle
           u == [s EXCEPT !.status = "failed", !.notSent = notSent, !.pending = pending, !.last = last, !.cycle = cycle]
<1>1. RunFailed(s, code, rid, sub) = u
  BY DEF RunFailed
<1>2. f \in [s.pending -> Turn]
  <2>1. ASSUME NEW t \in Turn, sub \in {"submitting", "possibly_sent", "submitted"}
        PROVE  [t EXCEPT !.sub = sub] \in Turn
    BY <2>1 DEF Turn, Turns
  <2> QED BY <2>1, Fields
<1>3. notSent \in Recoveries
  BY Fields DEF Recoveries
<1>4. last \in Lasts
  BY Fields DEF Lasts
<1>5. cycle \in Cycles
  BY Fields DEF Cycles
<1> HIDE DEF f
<1>6. pending \in SUBSET Turn /\ IsFiniteSet(pending)
  BY <1>2, Mapped, Fields
<1> HIDE DEF pending, notSent, last, cycle
<1>7. Good(s, u) /\ u.delivery = s.delivery
  BY <1>3, <1>4, <1>5, <1>6 DEF GoodRun, Good, Calm, Revoking, Runs, Statuses
<1> QED BY <1>1, <1>7

-----------------------------------------------------------------------------
(* The events of the log *)

LEMMA CalmGood ==
    ASSUME NEW s, GoodRun(s), NEW ev \in CalmEvents
    PROVE  Good(s, Reduce(s, ev))
<1>1. CASE ev \in [type : {"resumed", "bound", "executed", "activated", "rotation_failed", "blocked"}]
  BY <1>1, RunResumedGood, ConversationBoundGood, ExecutionCompletedGood, RotationGood, RunBlockedGood DEF Reduce
<1>2. CASE ev \in [type : {"requested", "manual", "waiting"}, turn : Turn]
  BY <1>2, TurnRequestedGood, ManualSubmissionGood, ReconciliationWaitingGood DEF Reduce
<1>3. CASE ev \in [type : {"not_sent"}, turn : Turn, base : Nat]
  BY <1>3, TurnNotSentGood DEF Reduce
<1>4. CASE ev \in [type : {"abandoned"}, turn : Turn, reason : Reasons, unconsumed : BOOLEAN, fresh : BOOLEAN]
  BY <1>4, TurnAbandonedGood DEF Reduce
<1>5. CASE ev \in [type : {"staged"}, rid : Ids, comp : Comps, base : Nat]
  BY <1>5, PromptStagedGood DEF Reduce
<1>6. CASE ev \in [type : {"submission"}, rid : Ids, sub : {"submitting", "possibly_sent", "submitted"},
                   comp : Comps, base : Nat, url : BOOLEAN]
  BY <1>6, SubmissionGood DEF Reduce
<1>7. CASE ev \in [type : {"received", "reauthorized", "failure_observed", "failure_authorized", "failure_consumed",
                           "failure_skipped", "timeout_observed", "timeout_started"},
                   rid : Ids, round : 1..MaxRounds]
  BY <1>7, ResponseReceivedGood, ReauthorizedGood, FailureGood, DeliveryGood DEF Reduce
<1>8. CASE ev \in [type : {"failure_resent"}, rid : Ids, round : 1..MaxRounds, of : AnyId]
  <2>1. Reduce(s, ev) = ResponseRetryResent(s, ev.of, ev.round, ev.rid)
    BY <1>8 DEF Reduce
  <2>2. ev.rid \in AnyId /\ ev.of \in AnyId /\ ev.round \in 1..MaxRounds /\ ev.rid \in Ids
    BY <1>8 DEF AnyId
  <2> QED BY <2>1, <2>2, FailureGood
<1>9. CASE ev \in [type : {"conflict"}, rid : AnyId, code : Codes]
  BY <1>9, RetryConflictGood DEF Reduce
<1>10. CASE ev \in [type : {"failed"}, code : Codes, rid : AnyId, sub : Subs]
  BY <1>10, RunFailedGood DEF Reduce
<1> QED BY <1>1, <1>2, <1>3, <1>4, <1>5, <1>6, <1>7, <1>8, <1>9, <1>10 DEF CalmEvents

\* Write appends the first event and leaves the others to later steps.
LEMMA WriteSeq ==
    ASSUME NEW S, NEW q \in Seq(S), q # <<>>, NEW next, Write(q, next)
    PROVE  /\ run' = Reduce(run, q[1]) /\ q[1] \in S
           /\ todo' \in Seq(S) /\ Len(todo') = Len(q) - 1
           /\ \A n \in 1..Len(todo') : todo'[n] = q[n + 1]
           /\ IF todo' = <<>> THEN pc' = next /\ then' = "none" ELSE pc' = "append" /\ then' = next
<1>1. q[1] \in S /\ Head(q) = q[1] /\ Tail(q) \in Seq(S) /\ Len(Tail(q)) = Len(q) - 1
      /\ \A n \in 1..Len(Tail(q)) : Tail(q)[n] = q[n + 1]
  BY HeadTailProperties
<1> QED BY <1>1 DEF Write

LEMMA Write1 ==
    ASSUME NEW e, NEW next, Write(<<e>>, next)
    PROVE  run' = Reduce(run, e) /\ todo' = <<>> /\ pc' = next /\ then' = "none"
  BY DEF Write

LEMMA Write2 ==
    ASSUME NEW e, NEW f, NEW next, Write(<<e, f>>, next)
    PROVE  run' = Reduce(run, e) /\ todo' = <<f>> /\ pc' = "append" /\ then' = next
  BY DEF Write

\* A step that gives no permission and does not touch the archive
LEMMA CalmStep ==
    ASSUME Inv, TypeInv', Good(run, run'), run.status # "complete", UNCHANGED ghosts,
           \A n \in 1..Len(todo') : todo'[n].type \notin {"accepted", "timeout_rearmed"},
           pc' \notin Archiving \cup {"retry", "retryclick"},
           then' \in Ordinary \cup {"none"},
           pc' = "parse" => run'.bound,
           pc' \in {"rotate", "open"} => run'.exec = NoCommand
    PROVE  Inv'
<1> USE DEF Inv
<1>1. RetryInv'
  <2>1. ~Rearming'
    BY DEF Rearming, Ordinary
  <2>2. \A i \in Ids : Credit(i)' => Credit(i)
    BY <2>1 DEF Credit, Good, Revoking
  <2>3. \A i \in Ids : retries'[i] = retries[i] /\ grants'[i] = grants[i]
    BY DEF ghosts
  <2> QED BY <2>1, <2>2, <2>3 DEF RetryInv
<1>2. ArchiveInv'
  <2>1. /\ run'.archive = run.archive /\ (run.bound => run'.bound) /\ run'.exec \in {run.exec, NoCommand}
        /\ run'.status # "complete"
    BY DEF Good, Calm
  <2>2. archived' = archived /\ archived = 0
    BY DEF ghosts, ArchiveInv, TypeInv
  <2> QED BY <2>1, <2>2 DEF ArchiveInv, Archiving
<1> QED BY <1>1, <1>2

LEMMA NoTurnTyped == NoTurn \in Attempts
  BY TurnAssumption DEF NoTurn, Attempts, AnyId, AnyRound, Comps

LEMMA OrdinaryWrite ==
    ASSUME Inv, run.status # "complete", NEW q \in Seq(CalmEvents), q # <<>>,
           NEW next \in Ordinary, Write(q, next), PageInv', UNCHANGED ghosts,
           cur' \in Attempts, next \in Asking => cur'.rid \in Ids /\ cur'.round \in 1..MaxRounds
    PROVE  Inv'
<1>1. /\ run' = Reduce(run, q[1]) /\ q[1] \in CalmEvents
      /\ todo' \in Seq(CalmEvents)
      /\ IF todo' = <<>> THEN pc' = next /\ then' = "none" ELSE pc' = "append" /\ then' = next
  BY WriteSeq
<1>2. Good(run, run') /\ GoodRun(run')
  BY <1>1, CalmGood DEF Inv, TypeInv, Good
<1>3. \A n \in 1..Len(todo') : todo'[n] \in CalmEvents /\ todo'[n].type \notin {"accepted", "timeout_rearmed"}
  <2>1. \A e \in CalmEvents : e.type \notin {"accepted", "timeout_rearmed"}
    BY DEF CalmEvents
  <2> QED BY <1>1, <2>1
<1>4. todo' \in Seq(Events)
  BY <1>1 DEF Events
<1>5. TypeInv'
  BY <1>1, <1>2, <1>4 DEF Inv, TypeInv, Ordinary, Places, Asking, Archiving, ghosts
<1>6. pc' \in Ordinary \cup {"append"} /\ then' \in Ordinary \cup {"none"}
  BY <1>1
<1> QED BY <1>2, <1>3, <1>5, <1>6, CalmStep DEF Ordinary, Archiving

LEMMA OrdinaryGoto ==
    ASSUME Inv, run.status # "complete", pc # "append", NEW next \in Ordinary, Goto(next), PageInv', UNCHANGED ghosts,
           cur' \in Attempts, next \in Asking => cur'.rid \in Ids /\ cur'.round \in 1..MaxRounds
    PROVE  Inv'
<1>1. pc' = next /\ then' = "none" /\ run' = run /\ todo' = todo /\ todo = <<>>
  BY DEF Goto, store, Inv, TypeInv
<1>2. GoodRun(run) /\ Good(run, run')
  BY <1>1, Unchanged DEF Inv, TypeInv
<1>3. TypeInv'
  BY <1>1, <1>2 DEF Inv, TypeInv, Ordinary, Places, Asking, Archiving, ghosts
<1> QED BY <1>1, <1>2, <1>3, CalmStep DEF Ordinary, Archiving

\* A call ends with events of this kind, or with none.
LEMMA ReturnInv ==
    ASSUME Inv, run.status # "complete", NEW q \in Seq(CalmEvents), q # <<>>, Return(q), PageInv', UNCHANGED ghosts
    PROVE  Inv'
  BY OrdinaryWrite, NoTurnTyped DEF Return, Ordinary, Places, Asking, Archiving

LEMMA ReturnNowInv ==
    ASSUME Inv, run.status # "complete", pc # "append", ReturnNow, PageInv', UNCHANGED ghosts
    PROVE  Inv'
  BY OrdinaryGoto, NoTurnTyped DEF ReturnNow, Ordinary, Places, Asking, Archiving

LEMMA FailInv ==
    ASSUME Inv, run.status # "complete", NEW code \in Codes, NEW rid \in AnyId, NEW sub \in Subs,
           Fail(code, rid, sub), PageInv', UNCHANGED ghosts
    PROVE  Inv'
<1>1. FailedEvent(code, rid, sub) \in CalmEvents
  BY DEF FailedEvent, CalmEvents
<1>2. <<FailedEvent(code, rid, sub)>> \in Seq(CalmEvents) /\ <<FailedEvent(code, rid, sub)>> # <<>>
  BY <1>1
<1> QED BY <1>2, ReturnInv DEF Fail

LEMMA FailOfPendingInv ==
    ASSUME Inv, run.status # "complete", NEW code \in Codes, FailOfPending(code), PageInv', UNCHANGED ghosts
    PROVE  Inv'
<1> DEFINE only == \E t \in run.pending : run.pending = {t}
           turn == CHOOSE t \in run.pending : TRUE
           rid == IF only THEN turn.rid ELSE None
           sub == IF only THEN turn.sub ELSE "none"
<1>1. Fail(code, rid, sub)
  BY DEF FailOfPending
<1>2. only => turn \in Turn
  <2>1. run.pending \subseteq Turn
    BY Fields DEF Inv, TypeInv
  <2> QED BY <2>1
<1>3. rid \in AnyId /\ sub \in Subs
  BY <1>2, TurnFields DEF AnyId, Subs
<1> HIDE DEF rid, sub
<1> QED BY <1>1, <1>3, FailInv
-----------------------------------------------------------------------------
(* The initial state *)

LEMMA InitialRunGood == ASSUME NEW a \in BOOLEAN PROVE GoodRun(InitialRun(a))
<1> DEFINE s == InitialRun(a)
<1>1. /\ NoRecovery \in Recoveries /\ NoGrant \in Grants /\ NoFailureRetry \in Failures
      /\ NoFailure \in Lasts /\ NoRollover \in Rollovers /\ NoCommand \in Commands
  BY TurnAssumption DEF NoRecovery, NoGrant, NoFailureRetry, NoFailure, NoRollover, Recoveries, Grants, Failures,
     Lasts, Rollovers, Commands, AnyId, AnyRound, Comps, Codes, Subs
<1>2. NoRollover.status # "opening"
  BY DEF NoRollover
<1>3. <<>> \in Accepted /\ [rid |-> None, at |-> "none"] \in Cycles /\ 0 \in AnyRound /\ 1 \in 1..MaxGen
  BY TurnAssumption DEF Accepted, Cycles, AnyId, AnyRound
<1> HIDE DEF NoRecovery
<1>4. s \in Runs
  BY <1>1, <1>3 DEF InitialRun, Runs, Statuses, Archives
<1>5. s.pending = {} /\ s.rollover.status # "opening"
  BY <1>2 DEF InitialRun
<1> QED BY <1>4, <1>5, NoneFinite DEF GoodRun

LEMMA InitInv == Init => Inv
<1> SUFFICES ASSUME Init PROVE Inv
  OBVIOUS
<1>1. PICK a \in BOOLEAN : run = InitialRun(a)
  BY DEF Init
<1>2. GoodRun(run) /\ run.status = "running" /\ run.exec = NoCommand /\ run.delivery.rid = None
  BY <1>1, InitialRunGood DEF InitialRun, NoGrant
<1>3. PageInv
  BY DEF Init, PageInv, EmptyComposer, AnyId
<1>4. TypeInv
  BY <1>2, <1>3, NoTurnTyped DEF Init, TypeInv, Places, Asking, Archiving
<1>5. RetryInv
  <2>1. ~Rearming /\ \A i \in Ids : ~Credit(i)
    BY <1>2 DEF Init, Rearming, Credit, Ids, None
  <2> QED BY <2>1 DEF Init, RetryInv
<1>6. ArchiveInv
  BY <1>2 DEF Init, ArchiveInv, Archiving
<1> QED BY <1>4, <1>5, <1>6 DEF Inv

-----------------------------------------------------------------------------
(* Sending *)

LEMMA PageSame == ASSUME PageInv, UNCHANGED page PROVE PageInv'
  BY DEF PageInv, page

LEMMA Alive == ASSUME Inv, pc \notin Archiving \cup {"down"} PROVE run.status # "complete"
  BY DEF Inv, ArchiveInv

LEMMA TalkTyped == ASSUME Inv PROVE Talk \in Seq(Messages) /\ Len(Talk) \in Nat /\ run.gen \in 1..MaxGen
  BY Fields DEF Inv, TypeInv, PageInv, Talk

LEMMA AskingTyped ==
    ASSUME Inv, pc \in Asking
    PROVE  /\ cur \in Attempts /\ cur.rid \in Ids /\ cur.round \in 1..MaxRounds
           /\ cur.base \in Nat /\ cur.comp \in Comps /\ cur.attempt \in Nat /\ cur.of \in AnyId /\ cur.rid \in AnyId
  BY DEF Inv, TypeInv, Attempts, AnyId

LEMMA RequestTurnInv ==
    ASSUME Inv, run.status # "complete", NEW c \in Attempts, c.rid \in Ids, c.round \in 1..MaxRounds,
           RequestTurn(c), UNCHANGED page, UNCHANGED ghosts
    PROVE  Inv'
<1> DEFINE replay == c.first /\ c.kind # "plain"
           t == [rid |-> c.rid, round |-> c.round, gen |-> run.gen, attempt |-> c.attempt, sub |-> "requested",
                 comp |-> "none", base |-> 0, retryOf |-> IF replay THEN c.of ELSE None,
                 manual |-> FALSE, grant |-> replay /\ c.grant]
           e == [type |-> "requested", turn |-> t]
<1>1. c.attempt \in Nat /\ c.of \in AnyId /\ c.first \in BOOLEAN /\ c.grant \in BOOLEAN
  BY DEF Attempts
<1>2. t \in Turn
  BY <1>1, TalkTyped DEF Turn, Turns, AnyId
<1>3. <<e>> \in Seq(CalmEvents) /\ <<e>> # <<>>
  BY <1>2 DEF CalmEvents
<1>4. Write(<<e>>, "compose") /\ cur' = c
  BY DEF RequestTurn
<1> HIDE DEF e
<1>5. PageInv'
  BY PageSame DEF Inv, TypeInv
<1> QED BY <1>3, <1>4, <1>5, OrdinaryWrite DEF Ordinary, Places, Asking, Archiving

LEMMA DriveInv == ASSUME Inv, Drive PROVE Inv'
<1>1. PICK rid \in Ids : RequestTurn(NextAttempt(rid))
  BY DEF Drive
<1> DEFINE c == NextAttempt(rid)
<1>2. run.round \in AnyRound /\ run.round < MaxRounds /\ run.notSent \in Recoveries /\ run.postfix \in Grants
      /\ run.gen \in 1..MaxGen /\ cur \in Attempts
  BY Fields DEF Inv, TypeInv, Drive, BelowLimit
<1>3. c \in Attempts /\ c.rid = rid /\ c.round = run.round + 1
  <2>1. NoTurn \in Attempts
    BY NoTurnTyped
  <2>2. run.round + 1 \in AnyRound /\ rid \in AnyId /\ run.gen \in 0..MaxGen
    BY <1>2, TurnAssumption DEF AnyRound, AnyId
  <2> DEFINE base == [NoTurn EXCEPT !.rid = rid, !.round = run.round + 1, !.gen = run.gen]
  <2>3. base \in Attempts /\ base.rid = rid /\ base.round = run.round + 1
    BY <2>1, <2>2 DEF Attempts
  <2>4. [base EXCEPT !.kind = "response", !.of = cur.of, !.gen = cur.gen, !.count = cur.count] \in Attempts
    BY <2>3, <1>2 DEF Attempts
  <2> DEFINE attach == run.notSent.comp = "attach"
             grant == run.postfix.status = "authorized" /\ run.postfix.rid = run.notSent.of
  <2>5. [base EXCEPT !.kind = "unsent", !.of = run.notSent.of, !.gen = run.notSent.gen,
                     !.count = run.notSent.base, !.attach = attach, !.grant = grant] \in Attempts
    <3>1. attach \in BOOLEAN /\ grant \in BOOLEAN
      OBVIOUS
    <3> HIDE DEF attach, grant
    <3>2. run.notSent.of \in AnyId /\ run.notSent.gen \in 0..MaxGen /\ run.notSent.base \in Nat
      BY <1>2 DEF Recoveries
    <3> QED BY <2>3, <3>1, <3>2 DEF Attempts
  <2>6. c \in {base, [base EXCEPT !.kind = "response", !.of = cur.of, !.gen = cur.gen, !.count = cur.count],
               [base EXCEPT !.kind = "unsent", !.of = run.notSent.of, !.gen = run.notSent.gen,
                     !.count = run.notSent.base, !.attach = attach, !.grant = grant]}
    BY DEF NextAttempt
  <2>7. c \in Attempts
    BY <2>3, <2>4, <2>5, <2>6
  <2>8. c.rid = base.rid /\ c.round = base.round
    BY <2>3, <2>6 DEF Attempts
  <2> QED BY <2>3, <2>7, <2>8
<1>4. c.round \in 1..MaxRounds
  BY <1>2, <1>3, TurnAssumption DEF AnyRound
<1>5. run.status # "complete" /\ UNCHANGED page /\ UNCHANGED ghosts
  BY Alive DEF Drive, Archiving
<1> QED BY <1>1, <1>3, <1>4, <1>5, RequestTurnInv

\* Actions that read the page and then only fail or give up
LEMMA SendingFails ==
    ASSUME Inv, Refuse \/ DriveNoMore \/ DrivePromptMismatch
    PROVE  Inv'
<1>1. run.status # "complete" /\ UNCHANGED page /\ UNCHANGED ghosts
  BY Alive DEF Refuse, DriveNoMore, DrivePromptMismatch, Archiving
<1>2. PageInv'
  BY <1>1, PageSame DEF Inv, TypeInv
<1>3. CASE Refuse
  <2>1. pc \in Asking
    BY <1>3 DEF Refuse, Asking
  <2>2. "definitely_not_sent" \in Subs /\ {"mismatch", "confirmationConflict", "notReady"} \subseteq Codes
    BY DEF Subs, Codes
  <2>3. cur.rid \in AnyId
    BY <2>1, AskingTyped
  <2> QED BY <1>1, <1>2, <1>3, <2>2, <2>3, FailInv DEF Refuse
<1>4. CASE DriveNoMore
  BY <1>1, <1>2, <1>4, FailOfPendingInv DEF DriveNoMore, Codes
<1>5. CASE DrivePromptMismatch
  <2> DEFINE e == [type |-> "conflict", rid |-> run.notSent.of, code |-> "promptMismatch"]
  <2>1. run.notSent.of \in AnyId
    BY Fields DEF Inv, TypeInv, Recoveries
  <2>2. <<e>> \in Seq(CalmEvents) /\ <<e>> # <<>>
    BY <2>1 DEF CalmEvents, Codes
  <2> HIDE DEF e
  <2>3. Return(<<e>>)
    BY <1>5 DEF e, DrivePromptMismatch
  <2> QED BY <1>1, <1>2, <2>2, <2>3, ReturnInv
<1> QED BY <1>3, <1>4, <1>5

LEMMA ComposeInv == ASSUME Inv, Compose PROVE Inv'
<1>1. PICK form \in Forms :
        /\ composer' \in {composer, [kind |-> form, rid |-> cur.rid]}
        /\ cur' = [cur EXCEPT !.base = Len(Talk), !.comp = form]
        /\ Goto(IF form = "attach" THEN "stage" ELSE "target")
  BY DEF Compose
<1>2. pc = "compose" /\ UNCHANGED <<talks, strayed>> /\ UNCHANGED ghosts
  BY DEF Compose
<1>3. form \in {"inline", "attach"}
  BY TurnAssumption
<1>4. cur \in Attempts /\ cur.rid \in Ids /\ cur.round \in 1..MaxRounds /\ cur.rid \in AnyId
  BY <1>2, AskingTyped DEF Asking
<1>5. PageInv'
  BY <1>1, <1>2, <1>3, <1>4 DEF Inv, TypeInv, PageInv
<1>6. cur' \in Attempts /\ cur'.rid = cur.rid /\ cur'.round = cur.round
  BY <1>1, <1>3, <1>4, TalkTyped DEF Attempts, Comps
<1>7. run.status # "complete"
  BY <1>2, Alive DEF Archiving
<1> DEFINE next == IF form = "attach" THEN "stage" ELSE "target"
<1>8. next \in Ordinary
  BY DEF Ordinary, Places, Asking, Archiving
<1>9. Goto(next)
  BY <1>1
<1> HIDE DEF next
<1> QED BY <1>2, <1>4, <1>5, <1>6, <1>7, <1>8, <1>9, OrdinaryGoto

LEMMA CheckpointTyped ==
    ASSUME Inv, pc \in Asking, NEW sub \in {"submitting", "possibly_sent", "submitted"}
    PROVE  /\ CheckpointEvent(sub, cur.base > 0) \in CalmEvents
           /\ \A submit \in BOOLEAN : CheckpointEvent(sub, submit \/ cur.base > 0) \in CalmEvents
<1>1. (cur.base > 0) \in BOOLEAN /\ \A submit \in BOOLEAN : (submit \/ cur.base > 0) \in BOOLEAN
  BY AskingTyped
<1>2. \A url \in BOOLEAN : CheckpointEvent(sub, url) \in CalmEvents
  BY AskingTyped DEF CheckpointEvent, CalmEvents
<1> QED BY <1>1, <1>2

LEMMA CheckpointInv ==
    ASSUME Inv, Stage \/ Target
    PROVE  Inv'
<1>1. pc \in Asking /\ pc # "append" /\ run.status # "complete" /\ UNCHANGED page /\ UNCHANGED ghosts
  BY Alive DEF Stage, Target, Asking, Archiving
<1>2. PageInv'
  BY <1>1, PageSame DEF Inv, TypeInv
<1>3. cur \in Attempts /\ cur.rid \in Ids /\ cur.round \in 1..MaxRounds /\ cur.base \in Nat /\ cur.comp \in Comps
      /\ cur.rid \in AnyId
  BY <1>1, AskingTyped
<1>4. CASE Stage
  <2> DEFINE e == [type |-> "staged", rid |-> cur.rid, comp |-> cur.comp, base |-> cur.base]
  <2>1. <<e>> \in Seq(CalmEvents) /\ <<e>> # <<>>
    BY <1>3 DEF CalmEvents
  <2>2. Write(<<e>>, "target") /\ cur' = cur
    BY <1>4 DEF Stage
  <2> HIDE DEF e
  <2> QED BY <1>1, <1>2, <1>3, <2>1, <2>2, OrdinaryWrite DEF Ordinary, Places, Asking, Archiving
<1>5. ASSUME Write(<<CheckpointEvent("submitting", cur.base > 0)>>, "click"), UNCHANGED cur
      PROVE  Inv'
  <2> DEFINE e == CheckpointEvent("submitting", cur.base > 0)
  <2>1. e \in CalmEvents
    BY <1>1, CheckpointTyped
  <2>2. Write(<<e>>, "click") /\ cur' = cur
    BY <1>5
  <2> HIDE DEF e
  <2>3. <<e>> \in Seq(CalmEvents) /\ <<e>> # <<>>
    BY <2>1
  <2> QED BY <1>1, <1>2, <1>3, <2>2, <2>3, OrdinaryWrite DEF Ordinary, Places, Asking, Archiving
<1>6. ASSUME Fail("notReady", cur.rid, "definitely_not_sent")
      PROVE  Inv'
  BY <1>1, <1>2, <1>3, <1>6, FailInv DEF Codes, Subs
<1> QED BY <1>4, <1>5, <1>6 DEF Target

LEMMA DeliveredPage ==
    ASSUME Inv, NEW round \in AnyRound, Delivered(round)
    PROVE  PageInv'
<1>1. composer.rid \in AnyId /\ talks \in [1..MaxGen -> Seq(Messages)]
  BY DEF Inv, TypeInv, PageInv
<1>2. [rid |-> composer.rid, round |-> round, ans |-> "none"] \in Messages
  BY <1>1 DEF Messages
<1>3. \A g \in 1..MaxGen : \A m \in Messages : Append(talks[g], m) \in Seq(Messages)
  BY <1>1
<1>4. talks' \in [1..MaxGen -> Seq(Messages)]
  BY <1>1, <1>2, <1>3, TalkTyped DEF Delivered
<1>5. composer' = EmptyComposer /\ strayed' = strayed
  BY DEF Delivered
<1>6. EmptyComposer \in [kind : {"empty", "inline", "attach"}, rid : AnyId]
  BY DEF EmptyComposer, AnyId
<1> QED BY <1>4, <1>5, <1>6 DEF Inv, TypeInv, PageInv

LEMMA ClickInv == ASSUME Inv, Click PROVE Inv'
<1>1. pc = "click" /\ Posting /\ Goto("ack") /\ UNCHANGED cur /\ UNCHANGED ghosts
  BY DEF Click
<1>2. cur \in Attempts /\ cur.rid \in Ids /\ cur.round \in 1..MaxRounds /\ cur.round \in AnyRound
  BY <1>1, AskingTyped, TurnAssumption DEF Asking, AnyRound
<1>3. PageInv'
  <2>1. EmptyComposer \in [kind : {"empty", "inline", "attach"}, rid : AnyId]
    BY DEF EmptyComposer, AnyId
  <2>2. PageInv
    BY DEF Inv, TypeInv
  <2> QED BY <1>1, <1>2, <2>1, <2>2, DeliveredPage DEF Posting, PageInv
<1>4. run.status # "complete"
  BY <1>1, Alive DEF Archiving
<1> QED BY <1>1, <1>2, <1>3, <1>4, OrdinaryGoto DEF Ordinary, Places, Asking, Archiving

LEMMA ClickErrorInv == ASSUME Inv, ClickError PROVE Inv'
<1>1. pc = "click" /\ UNCHANGED ghosts
  BY DEF ClickError
<1>2. /\ cur \in Attempts /\ cur.rid \in Ids /\ cur.round \in 1..MaxRounds /\ cur.round \in AnyRound
      /\ cur.rid \in AnyId /\ pc \in Asking /\ run.status # "complete" /\ cur.base \in Nat
  BY <1>1, AskingTyped, TurnAssumption, Alive DEF Asking, AnyRound, Archiving
<1>3. PageInv'
  BY <1>2, DeliveredPage, PageSame DEF ClickError, Inv, TypeInv
<1>4. CASE Fail("preclick", cur.rid, "definitely_not_sent")
  BY <1>1, <1>2, <1>3, <1>4, FailInv DEF Codes, Subs
<1>5. CASE Write(<<CheckpointEvent("possibly_sent", cur.base > 0)>>, "clicked") /\ UNCHANGED cur
  <2> DEFINE e == CheckpointEvent("possibly_sent", cur.base > 0)
  <2>1. e \in CalmEvents
    BY <1>2, CheckpointTyped
  <2>2. Write(<<e>>, "clicked") /\ cur' = cur
    BY <1>5
  <2> HIDE DEF e
  <2>3. <<e>> \in Seq(CalmEvents) /\ <<e>> # <<>>
    BY <2>1
  <2> QED BY <1>1, <1>2, <1>3, <2>2, <2>3, OrdinaryWrite DEF Ordinary, Places, Asking, Archiving
<1> QED BY <1>4, <1>5 DEF ClickError

LEMMA ClickedInv == ASSUME Inv, Clicked PROVE Inv'
<1>1. pc = "clicked" /\ UNCHANGED ghosts /\ UNCHANGED page
  BY DEF Clicked
<1>2. /\ cur \in Attempts /\ cur.rid \in Ids /\ cur.round \in 1..MaxRounds
      /\ cur.rid \in AnyId /\ run.status # "complete"
  BY <1>1, AskingTyped, Alive DEF Asking, Archiving
<1>3. PageInv'
  BY <1>1, PageSame DEF Inv, TypeInv
<1>4. CASE Goto("ack") /\ UNCHANGED cur
  BY <1>1, <1>2, <1>3, <1>4, OrdinaryGoto DEF Ordinary, Places, Asking, Archiving
<1>5. CASE Fail("ambiguous", cur.rid, "possibly_sent")
  BY <1>1, <1>2, <1>3, <1>5, FailInv DEF Codes, Subs
<1> QED BY <1>4, <1>5 DEF Clicked

\* Events that follow one another
LEMMA Joined ==
    ASSUME NEW S, NEW p \in Seq(S), NEW q \in Seq(S)
    PROVE  /\ p \o q \in Seq(S) /\ (p # <<>> \/ q # <<>> => p \o q # <<>>)
           /\ (p = <<>> => p \o q = q) /\ (q = <<>> => p \o q = p)
           /\ Len(p \o q) = Len(p) + Len(q)
           /\ \A n \in 1..Len(p \o q) : (p \o q)[n] = IF n <= Len(p) THEN p[n] ELSE q[n - Len(p)]
<1>1. p \o q \in Seq(S) /\ Len(p \o q) = Len(p) + Len(q)
      /\ \A n \in 1..Len(p) + Len(q) : (p \o q)[n] = IF n <= Len(p) THEN p[n] ELSE q[n - Len(p)]
  BY ConcatProperties
<1>2. Len(p) \in Nat /\ Len(q) \in Nat /\ (p = <<>> <=> Len(p) = 0) /\ (q = <<>> <=> Len(q) = 0)
      /\ (p \o q = <<>> <=> Len(p \o q) = 0)
  BY <1>1, EmptySeq, LenProperties
<1>3. (p = <<>> => p \o q = q) /\ (q = <<>> => p \o q = p)
  BY ConcatEmptySeq
<1> QED BY <1>1, <1>2, <1>3

LEMMA AcknowledgeInv == ASSUME Inv, Acknowledge PROVE Inv'
<1>1. pc = "ack" /\ UNCHANGED ghosts /\ UNCHANGED page
  BY DEF Acknowledge
<1>2. /\ cur \in Attempts /\ cur.rid \in Ids /\ cur.round \in 1..MaxRounds /\ cur.of \in AnyId
      /\ cur.rid \in AnyId /\ run.status # "complete" /\ cur.base \in Nat /\ pc \in Asking
  BY <1>1, AskingTyped, Alive DEF Asking, Archiving
<1>3. PageInv'
  BY <1>1, PageSame DEF Inv, TypeInv
<1>4. ASSUME NEW code \in {"mismatch", "unreadable", "notSent"}, NEW sub \in Subs, Fail(code, cur.rid, sub)
      PROVE  Inv'
  BY <1>1, <1>2, <1>3, <1>4, FailInv DEF Codes
<1>5. ASSUME NEW submit \in BOOLEAN, NEW q,
             q = <<CheckpointEvent("submitted", submit \/ cur.base > 0)>>
                 \o IF cur.kind = "response" /\ cur.first
                    THEN <<[type |-> "failure_resent", rid |-> cur.rid, round |-> cur.round, of |-> cur.of]>>
                    ELSE <<>>,
             IF submit THEN Return(q) ELSE Write(q, "wait") /\ UNCHANGED cur
      PROVE  Inv'
  <2> DEFINE e == CheckpointEvent("submitted", submit \/ cur.base > 0)
             f == [type |-> "failure_resent", rid |-> cur.rid, round |-> cur.round, of |-> cur.of]
             r == IF cur.kind = "response" /\ cur.first THEN <<f>> ELSE <<>>
  <2>1. e \in CalmEvents
    BY <1>2, CheckpointTyped
  <2>2. f \in CalmEvents
    BY <1>2 DEF CalmEvents
  <2> HIDE DEF e, f
  <2>3. <<e>> \in Seq(CalmEvents) /\ r \in Seq(CalmEvents) /\ <<e>> # <<>>
    BY <2>1, <2>2
  <2>4. q = <<e>> \o r
    BY <1>5 DEF e, f
  <2> HIDE DEF r
  <2>5. q \in Seq(CalmEvents) /\ q # <<>>
    BY <2>3, <2>4, Joined
  <2>6. CASE submit
    BY <1>1, <1>2, <1>3, <1>5, <2>5, <2>6, ReturnInv
  <2>7. CASE ~submit
    BY <1>1, <1>2, <1>3, <1>5, <2>5, <2>7, OrdinaryWrite DEF Ordinary, Places, Asking, Archiving
  <2> QED BY <2>6, <2>7
<1>6. ASSUME Return(<<CheckpointEvent("possibly_sent", cur.base > 0), FailedEvent("ambiguous", cur.rid, "possibly_sent")>>)
      PROVE  Inv'
  <2> DEFINE e == CheckpointEvent("possibly_sent", cur.base > 0)
             f == FailedEvent("ambiguous", cur.rid, "possibly_sent")
  <2>1. e \in CalmEvents
    BY <1>2, CheckpointTyped
  <2>2. f \in CalmEvents
    BY <1>2 DEF CalmEvents, FailedEvent, Codes, Subs
  <2>3. Return(<<e, f>>)
    BY <1>6
  <2> HIDE DEF e, f
  <2>4. <<e, f>> \in Seq(CalmEvents) /\ <<e, f>> # <<>>
    BY <2>1, <2>2
  <2> QED BY <1>1, <1>2, <1>3, <2>3, <2>4, ReturnInv
<1>7. {"possibly_sent", "definitely_not_sent"} \subseteq Subs
  BY DEF Subs
<1> QED BY <1>4, <1>5, <1>6, <1>7 DEF Acknowledge

LEMMA WaitInv == ASSUME Inv, Wait PROVE Inv'
<1>1. pc = "wait" /\ UNCHANGED ghosts /\ UNCHANGED page
  BY DEF Wait
<1>2. /\ cur \in Attempts /\ cur.rid \in Ids /\ cur.round \in 1..MaxRounds
      /\ cur.rid \in AnyId /\ run.status # "complete"
  BY <1>1, AskingTyped, Alive DEF Asking, Archiving
<1>3. PageInv'
  BY <1>1, PageSame DEF Inv, TypeInv
<1>4. ASSUME Goto("received"),
             cur' = [cur EXCEPT !.good = Command(Latest) /\ Latest.rid = cur.rid /\ Latest.round = cur.round]
      PROVE  Inv'
  <2> DEFINE good == Command(Latest) /\ Latest.rid = cur.rid /\ Latest.round = cur.round
  <2>1. good \in BOOLEAN /\ cur' = [cur EXCEPT !.good = good]
    BY <1>4 DEF Command
  <2> HIDE DEF good
  <2>2. cur' \in Attempts /\ cur'.rid = cur.rid /\ cur'.round = cur.round
    BY <1>2, <2>1 DEF Attempts
  <2> QED BY <1>1, <1>2, <1>3, <1>4, <2>2, OrdinaryGoto DEF Ordinary, Places, Asking, Archiving
<1>5. CASE Fail("responseTimeout", cur.rid, "submitted")
  BY <1>1, <1>2, <1>3, <1>5, FailInv DEF Codes, Subs
<1> QED BY <1>4, <1>5 DEF Wait
-----------------------------------------------------------------------------
(* The answer *)

LEMMA ReceiveInv == ASSUME Inv, Receive PROVE Inv'
<1> DEFINE e == [type |-> "received", rid |-> cur.rid, round |-> cur.round]
<1>1. pc = "received" /\ UNCHANGED ghosts /\ UNCHANGED page /\ cur' = cur /\ Write(<<e>>, "parse")
  BY DEF Receive
<1>2. /\ cur \in Attempts /\ cur.rid \in Ids /\ cur.round \in 1..MaxRounds /\ run.status # "complete"
  BY <1>1, AskingTyped, Alive DEF Asking, Archiving
<1>3. run' = ResponseReceived(run, cur.rid, cur.round) /\ todo' = <<>> /\ pc' = "parse" /\ then' = "none"
  BY <1>1, Write1 DEF Reduce
<1>4. Good(run, run') /\ GoodRun(run') /\ run'.bound
  BY <1>2, <1>3, ResponseReceivedGood DEF Inv, TypeInv, Good
<1>5. PageInv'
  BY <1>1, PageSame DEF Inv, TypeInv
<1>6. TypeInv'
  BY <1>1, <1>2, <1>3, <1>4, <1>5 DEF Inv, TypeInv, Places, Asking, ghosts
<1> QED BY <1>1, <1>2, <1>3, <1>4, <1>6, CalmStep DEF Archiving

LEMMA RejectInv == ASSUME Inv, Reject PROVE Inv'
<1>1. pc = "parse" /\ UNCHANGED ghosts /\ UNCHANGED page
  BY DEF Reject
<1>2. /\ cur \in Attempts /\ cur.rid \in Ids /\ cur.round \in 1..MaxRounds /\ cur.rid \in AnyId
      /\ cur.attempt \in Nat /\ run.status # "complete"
  BY <1>1, AskingTyped, Alive DEF Asking, Archiving
<1>3. PageInv'
  BY <1>1, PageSame DEF Inv, TypeInv
<1>4. ASSUME NEW code \in {"manualRejected", "exhausted"}, FailOfPending(code)
      PROVE  Inv'
  BY <1>1, <1>2, <1>3, <1>4, FailOfPendingInv DEF Codes
<1>5. ASSUME Return(<<[type |-> "conflict", rid |-> cur.rid, code |-> "responseConflict"]>>)
      PROVE  Inv'
  <2> DEFINE e == [type |-> "conflict", rid |-> cur.rid, code |-> "responseConflict"]
  <2>1. <<e>> \in Seq(CalmEvents) /\ <<e>> # <<>>
    BY <1>2 DEF CalmEvents, Codes
  <2>2. Return(<<e>>)
    BY <1>5
  <2> HIDE DEF e
  <2> QED BY <1>1, <1>2, <1>3, <2>1, <2>2, ReturnInv
<1>6. ASSUME RequestTurn([cur EXCEPT !.attempt = @ + 1, !.first = FALSE])
      PROVE  Inv'
  <2> DEFINE n == cur.attempt + 1
             c == [cur EXCEPT !.attempt = n, !.first = FALSE]
  <2>1. RequestTurn(c)
    BY <1>6
  <2>2. n \in Nat
    BY <1>2
  <2> HIDE DEF n
  <2>3. c \in Attempts
    BY <1>2, <2>2 DEF Attempts
  <2>4. c.rid \in Ids /\ c.round \in 1..MaxRounds
    BY <1>2 DEF Attempts
  <2> HIDE DEF c
  <2> QED BY <1>1, <1>2, <2>1, <2>3, <2>4, RequestTurnInv
<1> QED BY <1>4, <1>5, <1>6 DEF Reject

\* The sequence of a finite set has its members.
LEMMA SetToSeqTyped == ASSUME NEW S, IsFiniteSet(S) PROVE SetToSeq(S) \in Seq(S)
<1> DEFINE n == Cardinality(S)
<1>1. n \in Nat /\ ExistsBijection(1..n, S)
  BY FS_CardinalityType
<1>2. \E f \in [1..n -> S] : IsInjective(f)
  BY <1>1 DEF ExistsBijection, Bijection, Injection
<1>3. SetToSeq(S) \in [1..n -> S]
  BY <1>2 DEF SetToSeq
<1>4. \A k \in Nat : [1..k -> S] \subseteq Seq(S)
  BY SeqDef
<1> HIDE DEF n
<1> QED BY <1>1, <1>3, <1>4

\* A step that appends events of which one may be the acceptance of a command
LEMMA LoggedStep ==
    ASSUME Inv, run.status # "complete", NEW q \in Seq(CalmEvents \cup Acceptances), q # <<>>,
           (\E n \in 1..Len(q) : q[n].type = "accepted") => run.bound,
           NEW next \in Ordinary, Write(q, next), UNCHANGED page, UNCHANGED ghosts,
           cur' \in Attempts, next \in Asking => cur'.rid \in Ids /\ cur'.round \in 1..MaxRounds
    PROVE  Inv'
<1> DEFINE S == CalmEvents \cup Acceptances
<1>1. /\ run' = Reduce(run, q[1]) /\ q[1] \in S
      /\ todo' \in Seq(S) /\ Len(todo') = Len(q) - 1
      /\ \A n \in 1..Len(todo') : todo'[n] = q[n + 1]
      /\ IF todo' = <<>> THEN pc' = next /\ then' = "none" ELSE pc' = "append" /\ then' = next
  BY WriteSeq
<1>2. Len(q) \in Nat /\ 1 \in 1..Len(q) /\ \A n \in 1..Len(todo') : n + 1 \in 1..Len(q)
  BY <1>1, EmptySeq, LenProperties
<1>3. \A e \in S : e.type # "timeout_rearmed"
  BY DEF CalmEvents, Acceptances
<1>4. todo' \in Seq(Events)
  BY <1>1 DEF Events
<1>5. /\ GoodRun(run') /\ run'.archive = run.archive /\ (run.bound => run'.bound)
      /\ run'.status # "complete" /\ (run'.delivery.status = "authorized" => run'.delivery = run.delivery)
      /\ (run'.exec \in {run.exec, NoCommand} \/ run.bound)
  <2>1. CASE q[1] \in CalmEvents
    <3>1. Good(run, run')
      BY <1>1, <2>1, CalmGood DEF Inv, TypeInv
    <3> QED BY <3>1 DEF Good, Calm, Revoking
  <2>2. CASE q[1] \in Acceptances
    <3>1. q[1].type = "accepted"
      BY <2>2 DEF Acceptances
    <3>2. run.bound
      BY <1>2, <3>1
    <3>3. run' = CommandAccepted(run, q[1].rid, q[1].round, q[1].action)
      BY <1>1, <3>1 DEF Reduce
    <3>4. q[1].rid \in Ids /\ q[1].round \in 1..MaxRounds /\ q[1].action \in {"work", "complete", "blocked"}
      BY <2>2 DEF Acceptances
    <3> QED BY <3>2, <3>3, <3>4, CommandAcceptedGood DEF Inv, TypeInv
  <2> QED BY <1>1, <2>1, <2>2
<1>6. PageInv'
  BY PageSame DEF Inv, TypeInv
<1>7. pc' \in Ordinary \cup {"append"} /\ then' \in Ordinary \cup {"none"}
  BY <1>1
<1>8. TypeInv'
  BY <1>1, <1>4, <1>5, <1>6 DEF Inv, TypeInv, Ordinary, Places, Asking, Archiving, ghosts
<1>9. RetryInv'
  <2>1. ~Rearming'
    BY <1>7 DEF Rearming, Ordinary
  <2>2. pc' \notin {"retry", "retryclick"}
    BY <1>7 DEF Ordinary
  <2>3. \A i \in Ids : Credit(i)' => Credit(i)
    BY <1>5, <2>1, <2>2 DEF Credit
  <2>4. \A n \in 1..Len(todo') : todo'[n].type # "timeout_rearmed"
    BY <1>1, <1>3
  <2>5. retries' = retries /\ grants' = grants
    BY DEF ghosts
  <2> QED BY <2>1, <2>2, <2>3, <2>4, <2>5 DEF Inv, RetryInv
<1>10. ArchiveInv'
  <2>1. pc' \notin Archiving \cup {"parse", "rotate", "open", "archiving", "archiveproof"}
    BY <1>7 DEF Ordinary, Archiving
  <2>2. archived' = archived /\ archived = 0
    BY DEF ghosts, Inv, ArchiveInv, TypeInv
  <2>3. (\E n \in 1..Len(todo') : todo'[n].type = "accepted") => run.bound
    BY <1>1, <1>2
  <2> QED BY <1>5, <2>1, <2>2, <2>3 DEF Inv, ArchiveInv
<1> QED BY <1>8, <1>9, <1>10 DEF Inv

LEMMA AcceptInv == ASSUME Inv, Accept PROVE Inv'
<1>1. pc = "parse" /\ run.bound /\ UNCHANGED ghosts /\ UNCHANGED page
  BY DEF Accept, Inv, ArchiveInv
<1>2. /\ cur \in Attempts /\ cur.rid \in Ids /\ cur.round \in 1..MaxRounds /\ run.status # "complete"
  BY <1>1, AskingTyped, Alive DEF Asking, Archiving
<1>3. PICK action \in {"work", "complete", "blocked"} :
        LET others == {t \in run.pending : cur.recovered /\ t.rid # cur.rid}
            q == SetToSeq({AbandonedEvent(t, "operator_selected", FALSE, FALSE) : t \in others})
                 \o <<AcceptedEvent(action)>>
        IN (Write(q, "execute") /\ UNCHANGED cur) \/ Return(q)
  BY DEF Accept
<1> DEFINE others == {t \in run.pending : cur.recovered /\ t.rid # cur.rid}
           f == [t \in others |-> AbandonedEvent(t, "operator_selected", FALSE, FALSE)]
           abandons == {AbandonedEvent(t, "operator_selected", FALSE, FALSE) : t \in others}
           e == AcceptedEvent(action)
           S == CalmEvents \cup Acceptances
<1>4. IsFiniteSet(abandons) /\ abandons \subseteq S
  <2>1. run.pending \subseteq Turn /\ IsFiniteSet(run.pending)
    BY Fields DEF Inv, TypeInv
  <2>2. IsFiniteSet(others)
    BY <2>1, FS_Subset
  <2>3. f \in Surjection(others, abandons)
    BY DEF Surjection
  <2>4. \A t \in Turn : AbandonedEvent(t, "operator_selected", FALSE, FALSE) \in CalmEvents
    BY DEF AbandonedEvent, CalmEvents, Reasons
  <2> HIDE DEF f
  <2> QED BY <2>1, <2>2, <2>3, <2>4, FS_Surjection
<1>5. e \in S
  BY <1>2 DEF AcceptedEvent, Acceptances
<1> DEFINE q == SetToSeq(abandons) \o <<e>>
<1>6. (Write(q, "execute") /\ UNCHANGED cur) \/ Return(q)
  BY <1>3
<1> HIDE DEF abandons, e, S
<1>7. q \in Seq(S) /\ q # <<>>
  <2>1. SetToSeq(abandons) \in Seq(S)
    BY <1>4, SetToSeqTyped
  <2>2. <<e>> \in Seq(S) /\ <<e>> # <<>>
    BY <1>5
  <2> QED BY <2>1, <2>2, Joined
<1> HIDE DEF q
<1>8. CASE Write(q, "execute") /\ UNCHANGED cur
  BY <1>1, <1>2, <1>7, <1>8, LoggedStep DEF Ordinary, Places, Asking, Archiving, S
<1>9. CASE Return(q)
  BY <1>1, <1>2, <1>7, <1>9, LoggedStep, NoTurnTyped DEF Return, Ordinary, Places, Asking, Archiving, S
<1> QED BY <1>6, <1>8, <1>9

\* The step of Append1, of the permission that is re-armed and of any other event
LEMMA Append1Inv == ASSUME Inv, Append1 PROVE Inv'
<1>1. pc = "append" /\ Write(todo, then) /\ UNCHANGED cur /\ UNCHANGED page /\ UNCHANGED ghosts
  BY DEF Append1
<1>2. todo # <<>> /\ todo \in Seq(Events) /\ run.status # "complete" /\ then \in Ordinary \cup {"retry"}
      /\ cur \in Attempts /\ (then \in Asking => cur.rid \in Ids /\ cur.round \in 1..MaxRounds)
  BY <1>1, Alive DEF Inv, TypeInv, Archiving
<1>3. CASE Rearming
  <2>1. todo = <<RearmOf(cur)>> /\ DeliveryAt(run, cur.rid, cur.round, "consumed")
        /\ run.last.code = "legacyPreClick" /\ run.last.rid = cur.rid /\ then = "retry"
    BY <1>3 DEF Inv, RetryInv, Rearming
  <2>2. run' = DeliveryRetryRearmed(run, cur.rid, cur.round) /\ todo' = <<>> /\ pc' = "retry" /\ then' = "none"
    BY <1>1, <2>1, Write1 DEF Reduce, RearmOf
  <2>3. cur.rid \in Ids /\ cur.round \in 1..MaxRounds
    BY <1>2, <2>1 DEF Asking
  <2>4. SameBut(run, run') /\ DeliveryAt(run', cur.rid, cur.round, "authorized")
    BY <2>1, <2>2, <2>3, DeliveryGood DEF Inv, TypeInv
  <2>5. PageInv'
    BY <1>1, PageSame DEF Inv, TypeInv
  <2>6. TypeInv'
    BY <1>1, <1>2, <2>2, <2>3, <2>4, <2>5 DEF Inv, TypeInv, Places, Asking, ghosts, SameBut
  <2>7. RetryInv'
    <3>1. ~Rearming'
      BY <2>2 DEF Rearming
    <3>2. \A i \in Ids : Credit(i)' => Credit(i)
      BY <1>1, <1>3, <2>2, <2>4, <3>1 DEF Credit, DeliveryAt
    <3> QED BY <1>1, <2>2, <2>4, <3>1, <3>2 DEF Inv, RetryInv, ghosts, DeliveryAt
  <2>8. ArchiveInv'
    <3>1. archived' = archived /\ archived = 0
      BY <1>1, <1>2 DEF ghosts, Inv, ArchiveInv, TypeInv
    <3> QED BY <1>2, <2>2, <2>4, <3>1 DEF Inv, ArchiveInv, SameBut, Calm, Archiving
  <2> QED BY <2>6, <2>7, <2>8 DEF Inv
<1>4. CASE ~Rearming
  <2>1. \A n \in 1..Len(todo) : todo[n].type # "timeout_rearmed" /\ todo[n] \in Events
    BY <1>2, <1>4, ElementOfSeq DEF Inv, RetryInv
  <2>2. \A e \in Rearmings : e.type = "timeout_rearmed"
    BY DEF Rearmings
  <2>3. \A n \in 1..Len(todo) : todo[n] \in CalmEvents \cup Acceptances
    BY <2>1, <2>2 DEF Events
  <2>4. todo \in Seq(CalmEvents \cup Acceptances)
    BY <1>2, <2>3, SeqDef
  <2>5. then \in Ordinary
    BY <1>1, <1>2, <1>4 DEF Rearming
  <2>6. (\E n \in 1..Len(todo) : todo[n].type = "accepted") => run.bound
    BY DEF Inv, ArchiveInv
  <2> QED BY <1>1, <1>2, <2>4, <2>5, <2>6, LoggedStep
<1> QED BY <1>3, <1>4
-----------------------------------------------------------------------------
(* Executing the command and archiving *)

\* One event, or none, whose place is ordinary
LEMMA OneEventInv ==
    ASSUME Inv, run.status # "complete", NEW e \in CalmEvents, NEW next \in Ordinary, Write(<<e>>, next),
           PageInv', UNCHANGED ghosts,
           cur' \in Attempts, next \in Asking => cur'.rid \in Ids /\ cur'.round \in 1..MaxRounds
    PROVE  Inv'
<1>1. <<e>> \in Seq(CalmEvents) /\ <<e>> # <<>>
  OBVIOUS
<1> QED BY <1>1, OrdinaryWrite

\* A step to the rotation, where no command is left
LEMMA RotateStep ==
    ASSUME Inv, run.status # "complete", Good(run, run'), run'.exec = NoCommand, NEW next \in {"rotate", "open"},
           pc' = next, then' = "none", todo' = <<>>, UNCHANGED page, UNCHANGED ghosts, cur' \in Attempts
    PROVE  Inv'
<1>1. PageInv'
  BY PageSame DEF Inv, TypeInv
<1>2. TypeInv'
  BY <1>1 DEF Inv, TypeInv, Places, Asking, ghosts, Good
<1> QED BY <1>2, CalmStep DEF Archiving

\* A step of a completed run
LEMMA CompleteStep ==
    ASSUME Inv, run'.status = "complete", GoodRun(run'), run'.delivery = run.delivery, run'.bound,
           todo' = <<>>, then' = "none", pc' \in Archiving \cup {"down"}, cur' \in Attempts,
           UNCHANGED page, UNCHANGED <<retries, grants>>, archived' \in {0, 1},
           pc' = "archiving" => run'.archive = "started" /\ archived' = 0,
           pc' = "archiveproof" => run'.archive = "started",
           archived' = 1 => run'.archive \in {"started", "archived", "ambiguous"}
    PROVE  Inv'
<1>1. PageInv'
  BY PageSame DEF Inv, TypeInv
<1>2. TypeInv'
  BY <1>1 DEF Inv, TypeInv, Places, Asking, Archiving
<1>3. RetryInv'
  BY DEF Inv, RetryInv, Rearming, Credit, Archiving
<1>4. ArchiveInv'
  BY DEF ArchiveInv, Archiving
<1> QED BY <1>2, <1>3, <1>4 DEF Inv

LEMMA ExecuteInv == ASSUME Inv, Execute PROVE Inv'
<1>1. pc = "execute" /\ UNCHANGED ghosts /\ UNCHANGED page /\ run.status # "complete" /\ GoodRun(run) /\ PageInv'
  BY Alive, PageSame DEF Execute, Archiving, Inv, TypeInv
<1>2. Executed \in CalmEvents /\ [type |-> "blocked"] \in CalmEvents
      /\ FailedEvent("stagnation", None, "none") \in CalmEvents
  BY DEF Executed, CalmEvents, FailedEvent, Codes, Subs, AnyId
<1>3. ASSUME NEW next \in {"drive", "down"}, Write(<<Executed>>, next), cur' = NoTurn
      PROVE  Inv'
  BY <1>1, <1>2, <1>3, NoTurnTyped, OneEventInv DEF Ordinary, Places, Asking, Archiving
<1>4. ASSUME Write(<<Executed>>, "rotate"), cur' = NoTurn
      PROVE  Inv'
  <2>1. run' = ExecutionCompleted(run) /\ todo' = <<>> /\ pc' = "rotate" /\ then' = "none"
    BY <1>4, Write1 DEF Executed, Reduce
  <2>2. Good(run, run')
    BY <1>1, <2>1, ExecutionCompletedGood
  <2>3. run'.exec = NoCommand
    BY <1>1, <2>1 DEF ExecutionCompleted, GoodRun, Runs
  <2> QED BY <1>1, <1>4, <2>1, <2>2, <2>3, NoTurnTyped, RotateStep
<1>5. ASSUME Return(<<Executed, FailedEvent("stagnation", None, "none")>>)
      PROVE  Inv'
  <2> DEFINE q == <<Executed, FailedEvent("stagnation", None, "none")>>
  <2>1. q \in Seq(CalmEvents) /\ q # <<>>
    BY <1>2
  <2>2. Return(q)
    BY <1>5
  <2> HIDE DEF q
  <2> QED BY <1>1, <2>1, <2>2, ReturnInv
<1>6. ASSUME Return(<<[type |-> "blocked"], Executed>>)
      PROVE  Inv'
  <2> DEFINE q == <<[type |-> "blocked"], Executed>>
  <2>1. q \in Seq(CalmEvents) /\ q # <<>>
    BY <1>2
  <2>2. Return(q)
    BY <1>6
  <2> HIDE DEF q
  <2> QED BY <1>1, <2>1, <2>2, ReturnInv
<1>7. ASSUME run.exec.action = "complete", UNCHANGED cur, Write(<<[type |-> "completed"]>>, "archive")
      PROVE  Inv'
  <2>1. run' = RunCompleted(run) /\ todo' = <<>> /\ pc' = "archive" /\ then' = "none"
    BY <1>7, Write1 DEF Reduce
  <2>2. run.bound
    BY <1>7 DEF NoCommand, Inv, ArchiveInv
  <2>3. GoodRun(run') /\ run'.status = "complete" /\ run'.exec = NoCommand /\ run'.bound /\ run'.delivery = run.delivery
    BY <1>1, <2>1, <2>2, RunCompletedGood
  <2>4. archived' = archived /\ archived = 0 /\ UNCHANGED <<retries, grants>>
    BY <1>1 DEF ghosts, Inv, ArchiveInv, TypeInv
  <2>5. cur' \in Attempts
    BY <1>7 DEF Inv, TypeInv
  <2> QED BY <1>1, <2>1, <2>3, <2>4, <2>5, CompleteStep DEF Archiving
<1>8. Execute =>
        \/ \E next \in {"drive", "down"} : Write(<<Executed>>, next) /\ cur' = NoTurn
        \/ Write(<<Executed>>, "rotate") /\ cur' = NoTurn
        \/ Return(<<Executed, FailedEvent("stagnation", None, "none")>>)
        \/ Return(<<[type |-> "blocked"], Executed>>)
        \/ run.exec.action = "complete" /\ UNCHANGED cur /\ Write(<<[type |-> "completed"]>>, "archive")
  BY DEF Execute, Return
<1> QED BY <1>3, <1>4, <1>5, <1>6, <1>7, <1>8

\* What holds of a completed run before a step of its archive.
LEMMA Completed ==
    ASSUME Inv, run.status = "complete"
    PROVE  /\ GoodRun(run) /\ run.bound /\ run.archive \in Archives /\ archived \in {0, 1} /\ cur \in Attempts
           /\ pc \in Archiving \cup {"down"} /\ todo = <<>>
           /\ archived = 1 => run.archive \in {"started", "archived", "ambiguous"}
  BY Fields DEF Inv, TypeInv, ArchiveInv, Archiving

\* The call ends with the result of the archive, or without one.
LEMMA ArchiveEnds ==
    ASSUME Inv, run.status = "complete", pc # "append", NEW status \in {"failed", "ambiguous", "archived"},
           End(<<>>) \/ End(<<Settled(status)>>), status = "failed" => run.archive = "pending",
           UNCHANGED page, UNCHANGED ghosts
    PROVE  Inv'
<1>1. GoodRun(run) /\ run.bound /\ archived \in {0, 1} /\ todo = <<>>
      /\ (archived = 1 => run.archive \in {"started", "archived", "ambiguous"})
  BY Completed
<1>2. pc' = "down" /\ then' = "none" /\ todo' = <<>> /\ cur' = NoTurn
      /\ (run' = run \/ run' = ArchiveSettled(run, status))
  <2>1. CASE End(<<>>)
    BY <1>1, <2>1 DEF End, WriteAll, Goto, store
  <2>2. CASE End(<<Settled(status)>>)
    <3>1. Write(<<Settled(status)>>, "down") /\ cur' = NoTurn
      BY <2>2 DEF End, WriteAll
    <3> QED BY <3>1, Write1 DEF Settled, Reduce
  <2> QED BY <2>1, <2>2
<1>3. /\ GoodRun(run') /\ run'.bound = run.bound /\ run'.status = run.status
      /\ run'.delivery = run.delivery
      /\ run'.archive \in {run.archive, status}
      /\ run'.archive # run.archive => run.archive = (IF status = "failed" THEN "pending" ELSE "started")
  <2> DEFINE u == [run EXCEPT !.archive = status]
             before == IF status = "failed" THEN "pending" ELSE "started"
  <2>1. status \in Archives
    BY DEF Archives
  <2>2. /\ GoodRun(u) /\ u.archive = status /\ u.bound = run.bound /\ u.status = run.status
        /\ u.delivery = run.delivery
    BY <1>1, <2>1, ArchiveGood
  <2>3. run' = run \/ (run' = u /\ run.archive = before)
    BY <1>2 DEF ArchiveSettled
  <2> HIDE DEF u, before
  <2>4. run'.archive # run.archive => run.archive = before
    BY <2>3
  <2> QED BY <1>1, <2>2, <2>3, <2>4 DEF before
<1>4. archived' = archived /\ UNCHANGED <<retries, grants>>
  BY DEF ghosts
<1>5. archived' = 1 => run'.archive \in {"started", "archived", "ambiguous"}
  BY <1>1, <1>3, <1>4
<1> QED BY <1>1, <1>2, <1>3, <1>4, <1>5, NoTurnTyped, CompleteStep DEF Archiving

LEMMA ArchiveActionsInv == ASSUME Inv, Archive \/ ArchiveClick \/ ArchiveProof \/ ContinueArchive PROVE Inv'
<1>1. run.status = "complete" /\ UNCHANGED page /\ pc # "append"
  BY DEF Archive, ArchiveClick, ArchiveProof, ContinueArchive, Inv, ArchiveInv, Archiving
<1>2. /\ GoodRun(run) /\ run.bound /\ run.archive \in Archives /\ archived \in {0, 1} /\ todo = <<>> /\ cur \in Attempts
      /\ (archived = 1 => run.archive \in {"started", "archived", "ambiguous"})
  BY <1>1, Completed
<1>3. CASE Archive
  <2>1. UNCHANGED ghosts /\ archived' = archived /\ UNCHANGED <<retries, grants>>
    BY <1>3 DEF Archive, ghosts
  <2>2. ASSUME NEW status \in {"failed", "ambiguous"}, End(<<>>) \/ End(<<Settled(status)>>),
               status = "failed" => run.archive = "pending"
        PROVE  Inv'
    BY <1>1, <2>1, <2>2, ArchiveEnds
  <2>3. ASSUME run.archive = "pending", UNCHANGED cur, Write(<<[type |-> "archive_started"]>>, "archiving")
        PROVE  Inv'
    <3>1. run' = ArchiveStarted(run) /\ todo' = <<>> /\ pc' = "archiving" /\ then' = "none"
      BY <2>3, Write1 DEF Reduce
    <3>2. run' = [run EXCEPT !.archive = "started"]
      BY <1>1, <1>2, <2>3, <3>1 DEF ArchiveStarted
    <3>3. GoodRun(run') /\ run'.archive = "started" /\ run'.bound = run.bound
          /\ run'.status = run.status /\ run'.delivery = run.delivery
      BY <1>2, <3>2, ArchiveGood DEF Archives
    <3>4. archived = 0
      BY <1>2, <2>3
    <3> QED BY <1>1, <1>2, <2>1, <2>3, <3>1, <3>3, <3>4, CompleteStep DEF Archiving
  <2> QED BY <1>3, <2>2, <2>3 DEF Archive
<1>4. CASE ArchiveClick
  <2>1. /\ archived' = archived + 1 /\ pc = "archiving" /\ pc' = "archiveproof" /\ then' = "none" /\ run' = run
        /\ todo' = todo /\ cur' = cur /\ UNCHANGED <<retries, grants>>
    BY <1>4 DEF ArchiveClick, Goto, store
  <2>2. run.archive = "started" /\ archived = 0
    BY <2>1 DEF Inv, ArchiveInv
  <2> QED BY <1>1, <1>2, <2>1, <2>2, CompleteStep DEF Archiving
<1>5. CASE ArchiveProof
  BY <1>1, <1>5, ArchiveEnds DEF ArchiveProof
<1>6. CASE ContinueArchive
  <2>1. /\ UNCHANGED ghosts /\ archived' = archived /\ pc' = "archive" /\ then' = "none" /\ run' = run
        /\ todo' = todo /\ cur' = cur /\ UNCHANGED <<retries, grants>>
    BY <1>6 DEF ContinueArchive, Goto, store, ghosts
  <2> QED BY <1>1, <1>2, <2>1, CompleteStep DEF Archiving
<1> QED BY <1>3, <1>4, <1>5, <1>6

-----------------------------------------------------------------------------
(* Continuing and rotating *)

LEMMA ContinueInv == ASSUME Inv, Continue PROVE Inv'
<1>1. pc = "down" /\ run.status # "complete" /\ cur' = cur /\ UNCHANGED page /\ UNCHANGED ghosts /\ PageInv'
      /\ GoodRun(run) /\ cur \in Attempts
  BY PageSame DEF Continue, Inv, TypeInv
<1> DEFINE e == [type |-> "resumed"]
<1>2. e \in CalmEvents
  BY DEF CalmEvents
<1>3. CASE run.exec # NoCommand
  <2>1. Write(<<e>>, "execute")
    BY <1>3 DEF Continue
  <2> HIDE DEF e
  <2> QED BY <1>1, <1>2, <2>1, OneEventInv DEF Ordinary, Places, Asking, Archiving
<1>4. CASE run.exec = NoCommand
  <2>1. Write(<<e>>, "rotate")
    BY <1>4 DEF Continue
  <2>2. run' = RunResumed(run) /\ todo' = <<>> /\ pc' = "rotate" /\ then' = "none"
    BY <2>1, Write1 DEF Reduce
  <2>3. Good(run, run')
    BY <1>1, <2>2, RunResumedGood
  <2>4. run'.exec = NoCommand
    BY <1>4, <2>3 DEF Good, Calm
  <2> QED BY <1>1, <2>2, <2>3, <2>4, RotateStep
<1> QED BY <1>3, <1>4

LEMMA RotateOnRequestInv == ASSUME Inv, RotateOnRequest PROVE Inv'
<1>1. /\ pc = "rotate" /\ run.status # "complete" /\ UNCHANGED page /\ UNCHANGED ghosts /\ PageInv'
      /\ GoodRun(run) /\ cur \in Attempts /\ run.gen < MaxGen /\ run.exec = NoCommand
  BY Alive, PageSame DEF RotateOnRequest, Inv, TypeInv, ArchiveInv, Archiving
<1> DEFINE turn == CHOOSE t \in run.pending : TRUE
<1>2. ASSUME \E t \in run.pending : TRUE, UNCHANGED cur,
             Write(<<[type |-> "rotation_requested", turn |-> turn]>>, "open")
      PROVE  Inv'
  <2>1. turn \in Turn
    <3>1. run.pending \subseteq Turn
      BY <1>1, Fields
    <3> QED BY <1>2, <3>1
  <2> DEFINE e == [type |-> "rotation_requested", turn |-> turn]
  <2> HIDE DEF turn
  <2>2. run' = RotationRequested(run, turn) /\ todo' = <<>> /\ pc' = "open" /\ then' = "none"
    <3>1. Write(<<e>>, "open")
      BY <1>2
    <3>2. Reduce(run, e) = RotationRequested(run, turn)
      BY DEF Reduce
    <3> HIDE DEF e
    <3> QED BY <3>1, <3>2, Write1
  <2>3. Good(run, run')
    BY <1>1, <2>1, <2>2, RotationGood
  <2>4. run'.exec = NoCommand
    BY <1>1, <2>3 DEF Good, Calm
  <2> QED BY <1>1, <1>2, <2>2, <2>3, <2>4, RotateStep
<1>3. CASE FailOfPending("rotationUnsafe")
  BY <1>1, <1>3, FailOfPendingInv DEF Codes
<1> QED BY <1>2, <1>3 DEF RotateOnRequest

LEMMA RotateInv == ASSUME Inv, Rotate PROVE Inv'
<1>1. /\ pc = "rotate" /\ run.status # "complete" /\ UNCHANGED page /\ UNCHANGED ghosts /\ PageInv'
      /\ GoodRun(run) /\ cur' = cur /\ cur \in Attempts /\ run.exec = NoCommand /\ todo = <<>>
  BY Alive, PageSame DEF Rotate, Inv, TypeInv, ArchiveInv, Archiving
<1>2. ASSUME Write(<<[type |-> "activated"]>>, "reconcile")
      PROVE  Inv'
  <2> DEFINE e == [type |-> "activated"]
  <2>1. e \in CalmEvents /\ Write(<<e>>, "reconcile")
    BY <1>2 DEF CalmEvents
  <2> HIDE DEF e
  <2> QED BY <1>1, <2>1, OneEventInv DEF Ordinary, Places, Asking, Archiving
<1>3. CASE Goto("reconcile")
  BY <1>1, <1>3, OrdinaryGoto DEF Ordinary, Places, Asking, Archiving
<1>4. CASE Goto("open")
  <2>1. run' = run /\ todo' = <<>> /\ pc' = "open" /\ then' = "none"
    BY <1>1, <1>4 DEF Goto, store
  <2>2. Good(run, run')
    BY <1>1, <2>1, Unchanged
  <2> QED BY <1>1, <2>1, <2>2, RotateStep
<1> QED BY <1>2, <1>3, <1>4 DEF Rotate

LEMMA OpenInv == ASSUME Inv, Open PROVE Inv'
<1>1. /\ pc = "open" /\ run.status # "complete" /\ UNCHANGED <<talks, strayed>> /\ UNCHANGED ghosts
      /\ composer' \in {composer, EmptyComposer}
      /\ GoodRun(run) /\ cur \in Attempts /\ run.exec = NoCommand /\ todo = <<>>
  BY Alive DEF Open, Inv, TypeInv, ArchiveInv, Archiving
<1>2. PageInv'
  <2>1. EmptyComposer \in [kind : {"empty", "inline", "attach"}, rid : AnyId]
    BY DEF EmptyComposer, AnyId
  <2> QED BY <1>1, <2>1 DEF Inv, TypeInv, PageInv
<1>3. ASSUME UNCHANGED cur, Write(<<[type |-> "replaced"]>>, "reconcile")
      PROVE  Inv'
  <2>1. run' = ReplacementOpened(run) /\ todo' = <<>> /\ pc' = "reconcile" /\ then' = "none"
    BY <1>3, Write1 DEF Reduce
  <2>2. GoodRun(run') /\ run'.exec = run.exec /\ run'.status = run.status /\ run'.archive = run.archive
        /\ run'.delivery = run.delivery
    BY <1>1, <2>1, ReplacementGood
  <2>3. TypeInv'
    BY <1>1, <1>2, <1>3, <2>1, <2>2 DEF Inv, TypeInv, Places, Asking, ghosts
  <2>4. RetryInv'
    BY <1>1, <2>1, <2>2 DEF Inv, RetryInv, Rearming, Credit, ghosts
  <2>5. archived' = archived /\ archived = 0
    BY <1>1 DEF ghosts, Inv, ArchiveInv, TypeInv
  <2>6. ArchiveInv'
    BY <1>1, <2>1, <2>2, <2>5 DEF ArchiveInv, Archiving
  <2> QED BY <2>3, <2>4, <2>6 DEF Inv
<1>4. ASSUME NEW next \in {"reconcile", "down"}, Goto(next), cur' \in {cur, NoTurn}
      PROVE  Inv'
  BY <1>1, <1>2, <1>4, NoTurnTyped, OrdinaryGoto DEF Ordinary, Places, Asking, Archiving
<1>5. ASSUME Write(<<[type |-> "rotation_failed"]>>, "down"), cur' = NoTurn
      PROVE  Inv'
  <2> DEFINE e == [type |-> "rotation_failed"]
  <2>1. e \in CalmEvents /\ Write(<<e>>, "down")
    BY <1>5 DEF CalmEvents
  <2> HIDE DEF e
  <2> QED BY <1>1, <1>2, <1>5, <2>1, NoTurnTyped, OneEventInv DEF Ordinary, Places, Asking, Archiving
<1> QED BY <1>3, <1>4, <1>5 DEF Open, End, WriteAll

\* The process dies
LEMMA CrashInv == ASSUME Inv, Crash PROVE Inv'
<1>1. /\ pc' = "down" /\ then' = "none" /\ todo' = <<>> /\ cur' = NoTurn /\ run' = TakeoverConfirmed(run)
      /\ UNCHANGED page /\ UNCHANGED ghosts /\ GoodRun(run) /\ PageInv'
  BY PageSame DEF Crash, Inv, TypeInv
<1>2. GoodRun(run')
  BY <1>1, TakeoverConfirmedGood DEF Good
<1>3. /\ run'.exec = run.exec /\ run'.bound = run.bound /\ run'.status = run.status
      /\ run'.archive = run.archive /\ run'.delivery = run.delivery
  BY <1>1 DEF TakeoverConfirmed, GoodRun, Runs
<1>4. TypeInv'
  BY <1>1, <1>2, NoTurnTyped DEF Inv, TypeInv, Places, Asking, ghosts
<1>5. RetryInv'
  <2>1. \A i \in Ids : Credit(i)' => Credit(i)
    BY <1>1, <1>3 DEF Credit, Rearming
  <2> QED BY <1>1, <2>1 DEF Inv, RetryInv, Rearming, ghosts
<1>6. ArchiveInv'
  BY <1>1, <1>3 DEF Inv, ArchiveInv, Archiving, ghosts
<1> QED BY <1>4, <1>5, <1>6 DEF Inv
-----------------------------------------------------------------------------
(* Reconciling *)

LEMMA PendingTyped ==
    ASSUME Inv, NEW t \in run.pending
    PROVE  /\ t \in Turn /\ t.rid \in Ids /\ t.round \in 1..MaxRounds /\ t.base \in Nat
           /\ t.rid \in AnyId /\ t.round \in AnyRound
<1>1. t \in Turn
  BY Fields DEF Inv, TypeInv
<1> QED BY <1>1, TurnFields

\* The events that the reconciliation of a turn appends
LEMMA TurnEvents ==
    ASSUME NEW t \in Turn
    PROVE  /\ \A base \in Nat : NotSentEvent(t, base) \in CalmEvents
           /\ \A reason \in Reasons : \A unconsumed, fresh \in BOOLEAN :
                AbandonedEvent(t, reason, unconsumed, fresh) \in CalmEvents
           /\ [type |-> "waiting", turn |-> t] \in CalmEvents
           /\ [type |-> "manual", turn |-> t] \in CalmEvents
           /\ \A type \in {"failure_consumed", "failure_observed", "failure_authorized", "failure_skipped",
                           "timeout_observed", "reauthorized"} :
                [type |-> type, rid |-> t.rid, round |-> t.round] \in CalmEvents
           /\ \A code \in Codes : FailedEvent(code, t.rid, "possibly_sent") \in CalmEvents
           /\ Skip(t) \in Seq(CalmEvents)
<1>1. t.rid \in Ids /\ t.round \in 1..MaxRounds /\ t.rid \in AnyId
  BY TurnFields
<1>2. \A base \in Nat : NotSentEvent(t, base) \in CalmEvents
  BY DEF NotSentEvent, CalmEvents
<1>3. \A reason \in Reasons : \A unconsumed, fresh \in BOOLEAN :
        AbandonedEvent(t, reason, unconsumed, fresh) \in CalmEvents
  BY DEF AbandonedEvent, CalmEvents
<1>4. [type |-> "waiting", turn |-> t] \in CalmEvents /\ [type |-> "manual", turn |-> t] \in CalmEvents
  BY DEF CalmEvents
<1>5. \A type \in {"failure_consumed", "failure_observed", "failure_authorized", "failure_skipped",
                   "timeout_observed", "reauthorized"} :
        [type |-> type, rid |-> t.rid, round |-> t.round] \in CalmEvents
  BY <1>1 DEF CalmEvents
<1>6. \A code \in Codes : FailedEvent(code, t.rid, "possibly_sent") \in CalmEvents
  BY <1>1 DEF CalmEvents, FailedEvent, Subs
<1>7. Skip(t) \in Seq(CalmEvents)
  BY <1>5 DEF Skip
<1> QED BY <1>2, <1>3, <1>4, <1>5, <1>6, <1>7

LEMMA Singleton == ASSUME NEW S, NEW e \in S PROVE <<e>> \in Seq(S) /\ <<e>> # <<>> /\ <<>> \in Seq(S)
  OBVIOUS

LEMMA AttemptOfTyped ==
    ASSUME Inv, NEW t \in run.pending
    PROVE  AttemptOf(t) \in Attempts /\ AttemptOf(t).rid = t.rid /\ AttemptOf(t).round = t.round
<1> DEFINE kind == IF PostFixCandidate(run, t) THEN "postfix" ELSE "plain"
           good == Exact(t)
           a == [NoTurn EXCEPT !.rid = t.rid, !.round = t.round, !.attempt = t.attempt, !.manual = t.manual,
                   !.kind = kind, !.gen = run.gen,
                   !.base = t.base, !.comp = t.comp, !.recovered = TRUE, !.good = good]
<1>1. kind \in {"plain", "postfix"} /\ good \in BOOLEAN
  BY DEF Exact
<1>2. a = AttemptOf(t)
  BY DEF AttemptOf
<1> HIDE DEF kind, good
<1>3. /\ t.rid \in AnyId /\ t.round \in AnyRound /\ t.attempt \in Nat /\ t.manual \in BOOLEAN /\ t.base \in Nat
      /\ t.comp \in Comps
  <2>1. t \in Turn
    BY PendingTyped
  <2> QED BY <2>1, TurnFields
<1>4. run.gen \in 0..MaxGen
  BY TalkTyped
<1>5. a \in Attempts
  BY <1>1, <1>3, <1>4, NoTurnTyped DEF Attempts
<1>6. a.rid = t.rid /\ a.round = t.round
  BY NoTurnTyped DEF Attempts
<1> QED BY <1>2, <1>5, <1>6

\* Where the actions of the reconciliation start
Reconciling == pc = "reconcile" /\ UNCHANGED page

LEMMA AtReconcile ==
    ASSUME Inv, Reconciling
    PROVE  pc # "append" /\ run.status # "complete" /\ PageInv' /\ todo = <<>> /\ GoodRun(run) /\ cur \in Attempts
  BY Alive, PageSame DEF Reconciling, Archiving, Inv, TypeInv

\* The answer of the turn is found.
LEMMA FoundInv ==
    ASSUME Inv, Reconciling, UNCHANGED ghosts, NEW t \in run.pending, NEW q \in Seq(CalmEvents),
           WriteAll(q, "received"), cur' = AttemptOf(t)
    PROVE  Inv'
<1>1. cur' \in Attempts /\ cur'.rid \in Ids /\ cur'.round \in 1..MaxRounds
  BY AttemptOfTyped, PendingTyped
<1>2. CASE q = <<>>
  BY <1>1, <1>2, AtReconcile, OrdinaryGoto DEF WriteAll, Ordinary, Places, Asking, Archiving
<1>3. CASE q # <<>>
  BY <1>1, <1>3, AtReconcile, OrdinaryWrite DEF WriteAll, Ordinary, Places, Asking, Archiving
<1> QED BY <1>2, <1>3

\* The call ends with events, or with none.
LEMMA EndInv ==
    ASSUME Inv, Reconciling, UNCHANGED ghosts, NEW q \in Seq(CalmEvents), End(q)
    PROVE  Inv'
<1>1. CASE q = <<>>
  BY <1>1, AtReconcile, OrdinaryGoto, NoTurnTyped DEF End, WriteAll, Ordinary, Places, Asking, Archiving
<1>2. CASE q # <<>>
  BY <1>2, AtReconcile, OrdinaryWrite, NoTurnTyped DEF End, WriteAll, Ordinary, Places, Asking, Archiving
<1> QED BY <1>1, <1>2

LEMMA ReconcileFails ==
    ASSUME Inv, ReconcileNothing \/ ReconcileAmbiguous \/ ReconcileUnreadable
    PROVE  Inv'
<1>1. Reconciling /\ UNCHANGED ghosts
  BY DEF ReconcileNothing, ReconcileAmbiguous, ReconcileUnreadable, Reconciling
<1>2. pc # "append" /\ run.status # "complete" /\ PageInv' /\ todo = <<>>
  BY <1>1, AtReconcile
<1>3. CASE ReconcileNothing
  BY <1>1, <1>2, <1>3, NoTurnTyped, OrdinaryGoto DEF ReconcileNothing, Ordinary, Places, Asking, Archiving
<1>4. CASE ReconcileAmbiguous
  BY <1>1, <1>2, <1>4, FailInv DEF ReconcileAmbiguous, Codes, Subs, AnyId
<1>5. CASE ReconcileUnreadable
  <2>1. PICK t \in run.pending : Fail(IF strayed = t.rid THEN "mismatch" ELSE "unverified", t.rid, "possibly_sent")
    BY <1>5 DEF ReconcileUnreadable
  <2>2. t.rid \in AnyId
    BY PendingTyped
  <2> QED BY <1>1, <1>2, <2>1, <2>2, FailInv DEF Codes, Subs
<1> QED BY <1>3, <1>4, <1>5

LEMMA ReconcileUnsentInv == ASSUME Inv, ReconcileUnsent PROVE Inv'
<1>1. Reconciling /\ UNCHANGED ghosts
  BY DEF ReconcileUnsent, Reconciling
<1>2. run.status # "complete" /\ PageInv'
  BY <1>1, AtReconcile
<1>3. PICK t \in run.pending :
        LET keep == t.comp = "attach" /\ t.retryOf = None /\ ~t.manual /\ run.bound /\ run.notSent.of # t.rid
            events == (IF keep THEN <<NotSentEvent(t, t.base)>> ELSE <<>>)
                      \o <<AbandonedEvent(t, "definitely_not_sent_retry", TRUE, FALSE)>>
        IN (Write(events, "drive") /\ cur' = NoTurn) \/ Return(events)
  BY DEF ReconcileUnsent
<1> DEFINE keep == t.comp = "attach" /\ t.retryOf = None /\ ~t.manual /\ run.bound /\ run.notSent.of # t.rid
           n == NotSentEvent(t, t.base)
           a == AbandonedEvent(t, "definitely_not_sent_retry", TRUE, FALSE)
           p == IF keep THEN <<n>> ELSE <<>>
           q == p \o <<a>>
<1>4. (Write(q, "drive") /\ cur' = NoTurn) \/ Return(q)
  BY <1>3
<1>5. n \in CalmEvents /\ a \in CalmEvents
  BY PendingTyped, TurnEvents DEF Reasons
<1> HIDE DEF n, a, keep
<1>6. q \in Seq(CalmEvents) /\ q # <<>>
  <2>1. p \in Seq(CalmEvents) /\ <<a>> \in Seq(CalmEvents) /\ <<a>> # <<>>
    BY <1>5, Singleton
  <2> HIDE DEF p
  <2> QED BY <2>1, Joined
<1> HIDE DEF q
<1>7. CASE Write(q, "drive") /\ cur' = NoTurn
  BY <1>1, <1>2, <1>6, <1>7, NoTurnTyped, OrdinaryWrite DEF Ordinary, Places, Asking, Archiving
<1>8. CASE Return(q)
  BY <1>1, <1>2, <1>6, <1>8, ReturnInv
<1> QED BY <1>4, <1>7, <1>8

LEMMA ObserveAnswerInv == ASSUME Inv, ObserveAnswer PROVE Inv'
<1>1. Reconciling /\ UNCHANGED ghosts
  BY DEF ObserveAnswer, Reconciling
<1>2. run.status # "complete" /\ PageInv'
  BY <1>1, AtReconcile
<1>3. PICK t \in run.pending :
        \/ Return(Skip(t) \o <<FailedEvent("turnMismatch", t.rid, "possibly_sent")>>)
        \/ WriteAll(Skip(t), "received") /\ cur' = AttemptOf(t)
  BY DEF ObserveAnswer, Return
<1> DEFINE p == Skip(t)
           e == FailedEvent("turnMismatch", t.rid, "possibly_sent")
           q == p \o <<e>>
<1>4. p \in Seq(CalmEvents) /\ e \in CalmEvents
  BY PendingTyped, TurnEvents DEF Codes
<1>5. Return(q) \/ (WriteAll(p, "received") /\ cur' = AttemptOf(t))
  BY <1>3
<1> HIDE DEF p, e
<1>6. q \in Seq(CalmEvents) /\ q # <<>>
  <2>1. <<e>> \in Seq(CalmEvents) /\ <<e>> # <<>>
    BY <1>4, Singleton
  <2> QED BY <1>4, <2>1, Joined
<1> HIDE DEF q
<1>7. CASE Return(q)
  BY <1>1, <1>2, <1>6, <1>7, ReturnInv
<1>8. CASE WriteAll(p, "received") /\ cur' = AttemptOf(t)
  BY <1>1, <1>4, <1>8, FoundInv
<1> QED BY <1>5, <1>7, <1>8

LEMMA ObserveNotSentInv == ASSUME Inv, ObserveNotSent PROVE Inv'
<1>1. Reconciling /\ UNCHANGED ghosts
  BY DEF ObserveNotSent, Reconciling
<1>2. run.status # "complete" /\ PageInv'
  BY <1>1, AtReconcile
<1>3. PICK t \in run.pending :
        \/ Return(<<AbandonedEvent(t, "definitely_not_sent_retry", TRUE, TRUE)>>)
        \/ Return(<<[type |-> "waiting", turn |-> t]>>)
        \/ Return(Skip(t)
                  \o (IF run.notSent.of # t.rid THEN <<NotSentEvent(t, t.base)>> ELSE <<>>)
                  \o <<AbandonedEvent(t, "fresh_observation_definitely_not_sent", TRUE, TRUE)>>)
  BY DEF ObserveNotSent
<1> DEFINE a == AbandonedEvent(t, "definitely_not_sent_retry", TRUE, TRUE)
           w == [type |-> "waiting", turn |-> t]
           n == NotSentEvent(t, t.base)
           b == AbandonedEvent(t, "fresh_observation_definitely_not_sent", TRUE, TRUE)
           s == Skip(t)
           m == IF run.notSent.of # t.rid THEN <<n>> ELSE <<>>
           q == s \o m \o <<b>>
<1>4. a \in CalmEvents /\ w \in CalmEvents /\ n \in CalmEvents /\ b \in CalmEvents /\ s \in Seq(CalmEvents)
  BY PendingTyped, TurnEvents DEF Reasons
<1>5. Return(<<a>>) \/ Return(<<w>>) \/ Return(q)
  BY <1>3
<1> HIDE DEF a, w, n, b, s
<1>6. m \in Seq(CalmEvents)
  BY <1>4, Singleton
<1> HIDE DEF m
<1>7. q \in Seq(CalmEvents) /\ q # <<>>
  <2>1. s \o m \in Seq(CalmEvents) /\ <<b>> \in Seq(CalmEvents) /\ <<b>> # <<>>
    BY <1>4, <1>6, Joined, Singleton
  <2> QED BY <2>1, Joined
<1>8. /\ <<a>> \in Seq(CalmEvents) /\ <<a>> # <<>>
      /\ <<w>> \in Seq(CalmEvents) /\ <<w>> # <<>>
  BY <1>4, Singleton
<1> HIDE DEF q
<1> QED BY <1>1, <1>2, <1>5, <1>7, <1>8, ReturnInv

LEMMA ObserveFailureInv == ASSUME Inv, ObserveFailure PROVE Inv'
<1>1. Reconciling /\ UNCHANGED ghosts
  BY DEF ObserveFailure, Reconciling
<1>2. run.status # "complete" /\ PageInv' /\ pc # "append"
  BY <1>1, AtReconcile
<1>3. PICK t \in run.pending :
        \/ /\ Write(<<[type |-> "failure_consumed", rid |-> t.rid, round |-> t.round],
                      AbandonedEvent(t, "controller_response_retry_authorized", TRUE, FALSE)>>, "drive")
           /\ cur' = [NoTurn EXCEPT !.kind = "response", !.round = t.round, !.of = t.rid,
                                    !.gen = run.gen, !.count = Len(Talk)]
        \/ Return(<<[type |-> "failure_observed", rid |-> t.rid, round |-> t.round]>>)
        \/ ReturnNow
  BY DEF ObserveFailure
<1> DEFINE c == [type |-> "failure_consumed", rid |-> t.rid, round |-> t.round]
           a == AbandonedEvent(t, "controller_response_retry_authorized", TRUE, FALSE)
           o == [type |-> "failure_observed", rid |-> t.rid, round |-> t.round]
           v == [NoTurn EXCEPT !.kind = "response", !.round = t.round, !.of = t.rid,
                               !.gen = run.gen, !.count = Len(Talk)]
<1>4. c \in CalmEvents /\ a \in CalmEvents /\ o \in CalmEvents
  BY PendingTyped, TurnEvents DEF Reasons
<1>5. v \in Attempts
  <2>1. t.round \in AnyRound /\ t.rid \in AnyId
    BY PendingTyped
  <2>2. run.gen \in 0..MaxGen /\ Len(Talk) \in Nat
    BY TalkTyped
  <2> QED BY <2>1, <2>2, NoTurnTyped DEF Attempts
<1>6. (Write(<<c, a>>, "drive") /\ cur' = v) \/ Return(<<o>>) \/ ReturnNow
  BY <1>3
<1> HIDE DEF c, a, o, v
<1>7. <<c, a>> \in Seq(CalmEvents) /\ <<c, a>> # <<>>
  BY <1>4
<1>8. <<o>> \in Seq(CalmEvents) /\ <<o>> # <<>>
  BY <1>4
<1>9. CASE Write(<<c, a>>, "drive") /\ cur' = v
  BY <1>1, <1>2, <1>5, <1>7, <1>9, OrdinaryWrite DEF Ordinary, Places, Asking, Archiving
<1>10. CASE Return(<<o>>)
  BY <1>1, <1>2, <1>8, <1>10, ReturnInv
<1>11. CASE ReturnNow
  BY <1>1, <1>2, <1>11, ReturnNowInv
<1> QED BY <1>6, <1>9, <1>10, <1>11

LEMMA ObservePendingInv == ASSUME Inv, ObservePending PROVE Inv'
<1>1. Reconciling /\ UNCHANGED ghosts
  BY DEF ObservePending, Reconciling
<1>2. PICK t \in run.pending : End(Skip(t))
  BY DEF ObservePending
<1>3. Skip(t) \in Seq(CalmEvents)
  BY PendingTyped, TurnEvents
<1> QED BY <1>1, <1>2, <1>3, EndInv

LEMMA ReadTurnInv == ASSUME Inv, ReadTurn PROVE Inv'
<1>1. Reconciling /\ UNCHANGED ghosts
  BY DEF ReadTurn, Reconciling
<1>2. run.status # "complete" /\ PageInv' /\ pc # "append"
  BY <1>1, AtReconcile
<1>3. PICK t \in run.pending :
        \/ Fail("turnMismatch", t.rid, "possibly_sent")
        \/ Fail("confirmationConflict", t.rid, "possibly_sent")
        \/ Goto("received") /\ cur' = AttemptOf(t)
        \/ ReturnNow
  BY DEF ReadTurn
<1>4. CASE Goto("received") /\ cur' = AttemptOf(t)
  <2>1. cur' \in Attempts /\ cur'.rid \in Ids /\ cur'.round \in 1..MaxRounds
    BY <1>4, AttemptOfTyped, PendingTyped
  <2> QED BY <1>1, <1>2, <1>4, <2>1, OrdinaryGoto DEF Ordinary, Places, Asking, Archiving
<1>5. ASSUME NEW code \in {"turnMismatch", "confirmationConflict"}, Fail(code, t.rid, "possibly_sent")
      PROVE  Inv'
  <2>1. t.rid \in AnyId
    BY PendingTyped
  <2> QED BY <1>1, <1>2, <1>5, <2>1, FailInv DEF Codes, Subs
<1>6. CASE ReturnNow
  BY <1>1, <1>2, <1>6, ReturnNowInv
<1> QED BY <1>3, <1>4, <1>5, <1>6
-----------------------------------------------------------------------------
(* The Retry of the page *)

LEMMA SkippedRun ==
    ASSUME NEW s, GoodRun(s), NEW rid \in Ids, NEW round \in 1..MaxRounds
    PROVE  LET u == ResponseRetrySkipped(s, rid, round)
           IN Good(s, u) /\ u.delivery = s.delivery /\ u.last = s.last
<1>1. Good(s, ResponseRetrySkipped(s, rid, round))
  BY FailureGood
<1>2. LET u == ResponseRetrySkipped(s, rid, round) IN u.delivery = s.delivery /\ u.last = s.last
  BY DEF ResponseRetrySkipped, GoodRun, Runs
<1> QED BY <1>1, <1>2

\* The archive is not concerned.
LEMMA CalmArchive ==
    ASSUME Inv, Calm(run, run'), run.status # "complete", archived' = archived, todo' \in Seq(Events),
           \A n \in 1..Len(todo') : todo'[n].type # "accepted",
           pc' \notin Archiving \cup {"parse", "rotate", "open"}
    PROVE  ArchiveInv'
<1>1. archived = 0
  BY DEF Inv, ArchiveInv, TypeInv
<1> QED BY <1>1 DEF Inv, ArchiveInv, Calm, Archiving

\* The process goes on to the Retry with a permission that is on record.
LEMMA PermittedInv ==
    ASSUME Inv, Reconciling, UNCHANGED <<retries, archived>>, NEW t \in run.pending, cur' = AttemptOf(t),
           Good(run, run') \/ SameBut(run, run'), DeliveryAt(run', t.rid, t.round, "authorized"),
           pc' = "retry", then' = "none", todo' = <<>>,
           \/ UNCHANGED grants /\ run'.delivery = run.delivery
           \/ grants' = [grants EXCEPT ![t.rid] = @ + 1]
    PROVE  Inv'
<1>1. cur' \in Attempts /\ cur'.rid = t.rid /\ cur'.round = t.round /\ t.rid \in Ids /\ t.round \in 1..MaxRounds
  BY AttemptOfTyped, PendingTyped
<1>2. run.status # "complete" /\ PageInv' /\ pc = "reconcile"
  BY AtReconcile DEF Reconciling
<1>3. GoodRun(run') /\ Calm(run, run')
  BY DEF Good, SameBut
<1>4. grants' \in [Ids -> Nat] /\ \A i \in Ids : grants[i] <= grants'[i]
  BY <1>1 DEF Inv, TypeInv
<1>5. TypeInv'
  BY <1>1, <1>2, <1>3, <1>4 DEF Inv, TypeInv, Places, Asking
<1>6. RetryInv'
  <2>1. ~Rearming' /\ \A i \in Ids : Credit(i)' => i = t.rid
    BY DEF Rearming, Credit, DeliveryAt
  <2>2. retries[t.rid] < grants'[t.rid]
    <3>1. CASE UNCHANGED grants /\ run'.delivery = run.delivery
      <4>1. Credit(t.rid)
        BY <3>1 DEF Credit, DeliveryAt
      <4> QED BY <1>1, <3>1, <4>1 DEF Inv, RetryInv
    <3>2. CASE grants' = [grants EXCEPT ![t.rid] = @ + 1]
      <4>1. retries[t.rid] <= grants[t.rid] /\ grants[t.rid] \in Nat /\ retries[t.rid] \in Nat
        BY <1>1 DEF Inv, RetryInv, TypeInv
      <4> QED BY <1>1, <3>2, <4>1 DEF Inv, TypeInv
    <3> QED BY <3>1, <3>2
  <2>3. \A i \in Ids : retries'[i] <= grants'[i]
    BY <1>4 DEF Inv, RetryInv, TypeInv
  <2> QED BY <1>1, <2>1, <2>2, <2>3 DEF RetryInv
<1>7. ArchiveInv'
  BY <1>2, <1>3, CalmArchive DEF Archiving
<1> QED BY <1>5, <1>6, <1>7 DEF Inv

LEMMA PairOf == ASSUME NEW a, NEW b PROVE <<a>> \o <<b>> = <<a, b>>
<1> DEFINE S == {a, b}
           c == <<a>> \o <<b>>
           d == <<a, b>>
<1>1. /\ <<a>> \in Seq(S) /\ <<b>> \in Seq(S) /\ Len(<<a>>) = 1 /\ Len(<<b>>) = 1
      /\ <<a>>[1] = a /\ <<b>>[1] = b
      /\ d \in Seq(S) /\ Len(d) = 2 /\ d[1] = a /\ d[2] = b
  OBVIOUS
<1>2. c \in Seq(S) /\ Len(c) = 2 /\ c[1] = a /\ c[2] = b
  BY <1>1, ConcatProperties
<1> HIDE DEF c, d, S
<1>3. \A i \in 1..Len(c) : c[i] = d[i]
  BY <1>1, <1>2
<1>4. c = d
  BY <1>1, <1>2, <1>3, SeqEqual
<1> QED BY <1>4 DEF c, d

LEMMA ObserveTimeoutInv == ASSUME Inv, ObserveTimeout PROVE Inv'
<1>1. Reconciling /\ UNCHANGED <<retries, archived>> /\ (UNCHANGED grants => UNCHANGED ghosts)
  BY DEF ObserveTimeout, Reconciling, ghosts
<1>2. run.status # "complete" /\ PageInv' /\ pc = "reconcile" /\ todo = <<>> /\ GoodRun(run)
  BY <1>1, AtReconcile DEF Reconciling
<1>3. PICK t \in run.pending :
        \/ Return(Skip(t) \o <<[type |-> "timeout_observed", rid |-> t.rid, round |-> t.round]>>) /\ UNCHANGED grants
        \/ /\ DeliveryAt(run, t.rid, t.round, "authorized")
           /\ WriteAll(Skip(t), "retry") /\ cur' = AttemptOf(t) /\ UNCHANGED grants
        \/ /\ DeliveryAt(run, t.rid, t.round, "consumed")
           /\ run.last.code = "legacyPreClick" /\ run.last.rid = t.rid
           /\ cur' = AttemptOf(t) /\ grants' = [grants EXCEPT ![t.rid] = @ + 1]
           /\ Write(Skip(t) \o <<[type |-> "timeout_rearmed", rid |-> t.rid, round |-> t.round]>>, "retry")
        \/ End(Skip(t)) /\ UNCHANGED grants
  BY DEF ObserveTimeout
<1>4. t \in Turn /\ t.rid \in Ids /\ t.round \in 1..MaxRounds /\ Skip(t) \in Seq(CalmEvents)
  BY PendingTyped, TurnEvents
<1> DEFINE skip == [type |-> "failure_skipped", rid |-> t.rid, round |-> t.round]
           u == ResponseRetrySkipped(run, t.rid, t.round)
<1>5. Skip(t) \in {<<>>, <<skip>>} /\ Reduce(run, skip) = u
  BY DEF Skip, Reduce
<1>6. Good(run, u) /\ u.delivery = run.delivery /\ u.last = run.last
  BY <1>2, <1>4, SkippedRun
<1> HIDE DEF skip, u
<1>7. ASSUME Return(Skip(t) \o <<[type |-> "timeout_observed", rid |-> t.rid, round |-> t.round]>>), UNCHANGED grants
      PROVE  Inv'
  <2> DEFINE p == Skip(t)
             e == [type |-> "timeout_observed", rid |-> t.rid, round |-> t.round]
             q == p \o <<e>>
  <2>1. e \in CalmEvents /\ p \in Seq(CalmEvents)
    BY <1>4, TurnEvents
  <2>2. Return(q)
    BY <1>7
  <2> HIDE DEF p, e
  <2>3. q \in Seq(CalmEvents) /\ q # <<>>
    <3>1. <<e>> \in Seq(CalmEvents) /\ <<e>> # <<>>
      BY <2>1, Singleton
    <3> QED BY <2>1, <3>1, Joined
  <2> HIDE DEF q
  <2> QED BY <1>1, <1>2, <1>7, <2>2, <2>3, ReturnInv
<1>8. ASSUME DeliveryAt(run, t.rid, t.round, "authorized"), WriteAll(Skip(t), "retry"),
             cur' = AttemptOf(t), UNCHANGED grants
      PROVE  Inv'
  <2>1. /\ run' = run \/ run' = u
        /\ pc' = "retry" /\ then' = "none" /\ todo' = <<>>
    <3>1. CASE Skip(t) = <<>>
      BY <1>2, <1>8, <3>1 DEF WriteAll, Goto, store
    <3>2. CASE Skip(t) = <<skip>>
      <4>1. Write(<<skip>>, "retry")
        BY <1>8, <3>2 DEF WriteAll
      <4> QED BY <1>5, <4>1, Write1
    <3> QED BY <1>5, <3>1, <3>2
  <2>2. Good(run, run') /\ run'.delivery = run.delivery
    BY <1>2, <1>6, <2>1, Unchanged
  <2>3. DeliveryAt(run', t.rid, t.round, "authorized")
    BY <1>8, <2>2 DEF DeliveryAt
  <2> QED BY <1>1, <1>8, <2>1, <2>2, <2>3, PermittedInv
<1>9. ASSUME DeliveryAt(run, t.rid, t.round, "consumed"), run.last.code = "legacyPreClick", run.last.rid = t.rid,
             cur' = AttemptOf(t), grants' = [grants EXCEPT ![t.rid] = @ + 1],
             Write(Skip(t) \o <<[type |-> "timeout_rearmed", rid |-> t.rid, round |-> t.round]>>, "retry")
      PROVE  Inv'
  <2> DEFINE e == [type |-> "timeout_rearmed", rid |-> t.rid, round |-> t.round]
  <2>1. e \in Rearmings /\ Reduce(run, e) = DeliveryRetryRearmed(run, t.rid, t.round)
    BY <1>4 DEF Rearmings, Reduce
  <2>2. Write(Skip(t) \o <<e>>, "retry")
    BY <1>9
  <2>3. e = RearmOf(AttemptOf(t)) /\ AttemptOf(t) \in Attempts /\ AttemptOf(t).rid = t.rid /\ AttemptOf(t).round = t.round
    BY AttemptOfTyped DEF RearmOf
  <2> HIDE DEF e
  <2>4. CASE Skip(t) = <<>>
    <3>1. Skip(t) \o <<e>> = <<e>>
      BY <2>1, <2>4
    <3>2. Write(<<e>>, "retry")
      BY <2>2, <3>1
    <3>3. run' = DeliveryRetryRearmed(run, t.rid, t.round) /\ todo' = <<>> /\ pc' = "retry" /\ then' = "none"
      BY <2>1, <3>2, Write1
    <3>4. SameBut(run, run') /\ DeliveryAt(run', t.rid, t.round, "authorized")
      BY <1>2, <1>4, <1>9, <3>3, DeliveryGood
    <3> QED BY <1>1, <1>9, <3>3, <3>4, PermittedInv
  <2>5. CASE Skip(t) = <<skip>>
    <3>1. Skip(t) \o <<e>> = <<skip, e>>
      <4>1. <<skip>> \o <<e>> = <<skip, e>>
        BY PairOf
      <4> QED BY <2>5, <4>1
    <3>2. Write(<<skip, e>>, "retry")
      BY <2>2, <3>1
    <3>3. run' = u /\ todo' = <<e>> /\ pc' = "append" /\ then' = "retry"
      BY <1>5, <3>2, Write2
    <3>4. Good(run, run') /\ GoodRun(run') /\ run'.delivery = run.delivery /\ run'.last = run.last /\ Calm(run, run')
      BY <1>6, <3>3 DEF Good
    <3>5. grants' \in [Ids -> Nat] /\ (\A i \in Ids : grants[i] <= grants'[i]) /\ grants'[t.rid] = grants[t.rid] + 1
      BY <1>4, <1>9 DEF Inv, TypeInv
    <3>6. cur' \in Attempts /\ cur'.rid = t.rid /\ cur'.round = t.round /\ e = RearmOf(cur')
      BY <1>9, <2>3
    <3>7. todo' \in Seq(Events) /\ todo' # <<>> /\ \A n \in 1..Len(todo') : todo'[n].type # "accepted"
      BY <2>1, <3>3 DEF Events, Rearmings
    <3>8. TypeInv'
      BY <1>1, <1>2, <1>4, <3>3, <3>4, <3>5, <3>6, <3>7 DEF Inv, TypeInv, Places, Asking
    <3>9. RetryInv'
      <4>1. Rearming' /\ (todo = <<RearmOf(cur)>>)'
        BY <3>3, <3>6 DEF Rearming
      <4>2. \A i \in Ids : Credit(i)' => i = t.rid
        BY <1>9, <3>3, <3>4, <3>6 DEF Credit, DeliveryAt
      <4>3. \A i \in Ids : retries'[i] = retries[i] /\ retries[i] <= grants[i] /\ retries[i] \in Nat /\ grants[i] \in Nat
                           /\ grants'[i] \in Nat
        BY <1>1, <3>5 DEF Inv, RetryInv, TypeInv
      <4>4. \A i \in Ids : retries'[i] <= grants'[i] /\ (Credit(i)' => retries'[i] < grants'[i])
        BY <1>4, <3>5, <4>2, <4>3
      <4>5. DeliveryAt(run', cur'.rid, cur'.round, "consumed")
        BY <1>9, <3>4, <3>6 DEF DeliveryAt
      <4> QED BY <1>9, <3>3, <3>4, <3>6, <4>1, <4>4, <4>5 DEF RetryInv
    <3>10. ArchiveInv'
      BY <1>1, <1>2, <3>3, <3>4, <3>7, CalmArchive DEF Archiving
    <3> QED BY <3>8, <3>9, <3>10 DEF Inv
  <2> QED BY <1>5, <2>4, <2>5
<1>10. ASSUME End(Skip(t)), UNCHANGED grants
       PROVE  Inv'
  BY <1>1, <1>4, <1>10, EndInv
<1> QED BY <1>3, <1>7, <1>8, <1>9, <1>10

\* The attempt whose answer came in the meantime
LEMMA AnswerInsteadTyped ==
    ASSUME Inv, pc \in Asking, AnswerInstead
    PROVE  /\ cur' \in Attempts /\ cur'.rid = cur.rid /\ cur'.round = cur.round
           /\ cur.rid \in Ids /\ cur.round \in 1..MaxRounds
  BY AskingTyped DEF AnswerInstead, Attempts

LEMMA RetryCheckInv == ASSUME Inv, RetryCheck PROVE Inv'
<1>1. pc = "retry" /\ UNCHANGED page /\ UNCHANGED ghosts /\ PageInv' /\ GoodRun(run) /\ pc \in Asking
      /\ run.status # "complete" /\ DeliveryAt(run, cur.rid, cur.round, "authorized")
  BY PageSame, Alive DEF RetryCheck, Asking, Archiving, Inv, TypeInv, RetryInv
<1>2. cur \in Attempts /\ cur.rid \in Ids /\ cur.round \in 1..MaxRounds
  BY <1>1, AskingTyped
<1>3. CASE AnswerInstead
  <2>1. cur' \in Attempts /\ cur'.rid \in Ids /\ cur'.round \in 1..MaxRounds
    BY <1>1, <1>3, AnswerInsteadTyped
  <2> QED BY <1>1, <1>3, <2>1, OrdinaryGoto DEF AnswerInstead, Ordinary, Places, Asking, Archiving
<1>4. ASSUME Write(<<[type |-> "timeout_started", rid |-> cur.rid, round |-> cur.round]>>, "retryclick"), UNCHANGED cur
      PROVE  Inv'
  <2>1. run' = DeliveryRetryStarted(run, cur.rid, cur.round) /\ todo' = <<>> /\ pc' = "retryclick" /\ then' = "none"
    BY <1>4, Write1 DEF Reduce
  <2>2. Good(run, run') /\ ~DeliveryAt(run', cur.rid, cur.round, "authorized")
    BY <1>1, <1>2, <2>1, DeliveryGood
  <2>3. TypeInv'
    BY <1>1, <1>2, <1>4, <2>1, <2>2 DEF Inv, TypeInv, Places, Asking, ghosts, Good
  <2>4. RetryInv'
    <3>1. run'.delivery.status # "authorized"
      BY <1>1, <2>2 DEF Good, Revoking, DeliveryAt
    <3>2. ~Rearming' /\ \A i \in Ids : Credit(i)' => i = cur.rid
      BY <1>4, <2>1, <3>1 DEF Rearming, Credit
    <3>3. Credit(cur.rid)
      BY <1>1 DEF Credit, DeliveryAt
    <3> QED BY <1>1, <2>1, <3>1, <3>2, <3>3 DEF Inv, RetryInv, ghosts
  <2>5. ArchiveInv'
    BY <1>1, <2>1, <2>2, CalmArchive DEF Archiving, Good, ghosts
  <2> QED BY <2>3, <2>4, <2>5 DEF Inv
<1> QED BY <1>3, <1>4 DEF RetryCheck

LEMMA MessageTyped ==
    ASSUME NEW q \in Seq(Messages), NEW n, NEW a \in {"none", "good", "bad", "failed", "timeout", "late"}
    PROVE  [q EXCEPT ![n].ans = a] \in Seq(Messages)
<1>1. CASE n \in 1..Len(q)
  <2> DEFINE m == [q[n] EXCEPT !.ans = a]
  <2>1. m \in Messages
    <3>1. \A x \in Messages : [x EXCEPT !.ans = a] \in Messages
      BY DEF Messages
    <3>2. q[n] \in Messages
      BY <1>1, ElementOfSeq
    <3> QED BY <3>1, <3>2
  <2>2. [q EXCEPT ![n].ans = a] = [q EXCEPT ![n] = m]
    OBVIOUS
  <2> HIDE DEF m
  <2> QED BY <1>1, <2>1, <2>2, ExceptSeq
<1>2. CASE n \notin 1..Len(q)
  <2>1. DOMAIN q = 1..Len(q)
    OBVIOUS
  <2>2. [q EXCEPT ![n].ans = a] = [i \in DOMAIN q |-> q[i]]
    BY <1>2, <2>1
  <2>3. [i \in 1..Len(q) |-> q[i]] \in Seq(Messages)
    OBVIOUS
  <2> QED BY <2>1, <2>2, <2>3
<1> QED BY <1>1, <1>2

LEMMA AnsweredPage ==
    ASSUME Inv, NEW a \in {"none", "good", "bad", "failed", "timeout", "late"},
           talks' = [talks EXCEPT ![run.gen][Len(Talk)].ans = a], UNCHANGED <<composer, strayed>>
    PROVE  PageInv'
<1> DEFINE q == [Talk EXCEPT ![Len(Talk)].ans = a]
<1>1. q \in Seq(Messages)
  BY TalkTyped, MessageTyped
<1>2. talks' = [talks EXCEPT ![run.gen] = q]
  BY DEF Talk
<1> HIDE DEF q
<1> QED BY <1>1, <1>2 DEF Inv, TypeInv, PageInv

LEMMA RetryClickInv == ASSUME Inv, RetryClick PROVE Inv'
<1>1. /\ pc = "retryclick" /\ pc \in Asking /\ GoodRun(run) /\ run.status # "complete" /\ todo = <<>>
      /\ ~(run.delivery.rid = cur.rid /\ run.delivery.status = "authorized")
      /\ retries' = [retries EXCEPT ![cur.rid] = @ + 1] /\ UNCHANGED <<composer, strayed, grants, archived>>
  BY Alive DEF RetryClick, Asking, Archiving, Inv, TypeInv, RetryInv
<1>2. cur \in Attempts /\ cur.rid \in Ids /\ cur.round \in 1..MaxRounds /\ cur.rid \in AnyId
  BY <1>1, AskingTyped
<1>3. PageInv'
  <2>1. PageInv
    BY DEF Inv, TypeInv
  <2>2. CASE UNCHANGED talks
    BY <1>1, <2>1, <2>2 DEF PageInv
  <2>3. CASE talks' = [talks EXCEPT ![run.gen][Len(Talk)].ans = "none"]
    BY <1>1, <2>3, AnsweredPage
  <2> QED BY <2>2, <2>3 DEF RetryClick
<1>4. /\ Good(run, run') /\ todo' = <<>> /\ then' = "none" /\ cur' \in Attempts
      /\ \/ pc' = "down"
         \/ pc' = "received" /\ cur'.rid \in Ids /\ cur'.round \in 1..MaxRounds
  <2>1. CASE ReturnNow
    BY <1>1, <2>1, Unchanged, NoTurnTyped DEF ReturnNow, Goto, store
  <2>2. CASE AnswerInstead
    <3>1. cur' \in Attempts /\ cur'.rid \in Ids /\ cur'.round \in 1..MaxRounds
      BY <1>1, <2>2, AnswerInsteadTyped
    <3> QED BY <1>1, <2>2, <3>1, Unchanged DEF AnswerInstead, Goto, store
  <2>3. CASE Fail("legacyPreClick", cur.rid, "possibly_sent")
    <3> DEFINE e == FailedEvent("legacyPreClick", cur.rid, "possibly_sent")
    <3>1. Write(<<e>>, "down") /\ cur' = NoTurn
      BY <2>3 DEF Fail, Return
    <3>2. e \in CalmEvents
      BY <1>2 DEF FailedEvent, CalmEvents, Codes, Subs
    <3> HIDE DEF e
    <3>3. run' = Reduce(run, e) /\ todo' = <<>> /\ pc' = "down" /\ then' = "none"
      BY <3>1, Write1
    <3> QED BY <1>1, <3>1, <3>2, <3>3, CalmGood, NoTurnTyped
  <2> QED BY <2>1, <2>2, <2>3 DEF RetryClick
<1>5. retries' \in [Ids -> Nat]
  BY <1>1, <1>2 DEF Inv, TypeInv
<1>6. TypeInv'
  BY <1>1, <1>3, <1>4, <1>5 DEF Inv, TypeInv, Places, Asking, Good
<1>7. RetryInv'
  <2>1. ~Rearming'
    BY <1>4 DEF Rearming
  <2>2. \A i \in Ids : Credit(i)' => Credit(i) /\ i # cur.rid
    BY <1>1, <1>4, <2>1 DEF Credit, Good, Revoking
  <2>3. Credit(cur.rid)
    BY <1>1 DEF Credit
  <2>4. retries[cur.rid] < grants[cur.rid] /\ retries[cur.rid] \in Nat /\ grants[cur.rid] \in Nat
    BY <1>2, <2>3 DEF Inv, RetryInv, TypeInv
  <2>5. \A i \in Ids : retries'[i] <= grants'[i] /\ (Credit(i)' => retries'[i] < grants'[i])
    BY <1>1, <1>2, <2>2, <2>4 DEF Inv, RetryInv, TypeInv
  <2> QED BY <1>4, <2>1, <2>5 DEF RetryInv
<1>8. ArchiveInv'
  BY <1>1, <1>4, <1>6, CalmArchive DEF Archiving, Good, TypeInv
<1> QED BY <1>6, <1>7, <1>8 DEF Inv

-----------------------------------------------------------------------------
(* The page and the operator *)

LEMMA PageStep == ASSUME Inv, UNCHANGED <<store, local, ghosts>>, PageInv' PROVE Inv'
<1>1. run' = run /\ todo' = todo /\ pc' = pc /\ then' = then /\ cur' = cur /\ retries' = retries
      /\ grants' = grants /\ archived' = archived
  BY DEF store, local, ghosts
<1> QED BY <1>1 DEF Inv, TypeInv, RetryInv, ArchiveInv, Rearming, Credit

LEMMA PageNextInv == ASSUME Inv, PageNext PROVE Inv'
<1>1. UNCHANGED <<store, local, ghosts>>
  BY DEF PageNext, Answer, Vanish, Reload
<1>2. CASE Answer
  <2>1. PICK a \in {"good", "bad", "failed", "timeout", "late"} : talks' = [talks EXCEPT ![run.gen][Len(Talk)].ans = a]
    BY <1>2 DEF Answer
  <2>2. UNCHANGED <<composer, strayed>>
    BY <1>2 DEF Answer
  <2> QED BY <1>1, <2>1, <2>2, AnsweredPage, PageStep
<1>3. CASE Vanish
  <2>1. Talk \in Seq(Messages) /\ Talk # <<>> /\ Latest \in Messages /\ Latest.rid \in AnyId
    <3>1. Talk \in Seq(Messages) /\ Talk # <<>>
      BY <1>3, TalkTyped DEF Vanish, Answering
    <3>2. Latest \in Messages
      BY <3>1 DEF Latest
    <3> QED BY <3>1, <3>2 DEF Messages
  <2>2. SubSeq(Talk, 1, Len(Talk) - 1) \in Seq(Messages)
    BY <2>1
  <2>3. talks' \in [1..MaxGen -> Seq(Messages)]
    BY <1>3, <2>2 DEF Vanish, Inv, TypeInv, PageInv
  <2>4. composer' \in [kind : {"empty", "inline", "attach"}, rid : AnyId] /\ strayed' \in AnyId
    <3>1. composer \in [kind : {"empty", "inline", "attach"}, rid : AnyId] /\ strayed \in AnyId
      BY DEF Inv, TypeInv, PageInv
    <3>2. \A form \in Forms : [kind |-> form, rid |-> Latest.rid] \in [kind : {"empty", "inline", "attach"}, rid : AnyId]
      BY <2>1, TurnAssumption
    <3> QED BY <1>3, <2>1, <3>1, <3>2 DEF Vanish
  <2>5. PageInv'
    BY <2>3, <2>4 DEF PageInv
  <2> QED BY <1>1, <2>5, PageStep
<1>4. CASE Reload
  <2>1. EmptyComposer \in [kind : {"empty", "inline", "attach"}, rid : AnyId]
    BY DEF EmptyComposer, AnyId
  <2>2. PageInv'
    BY <1>4, <2>1 DEF Reload, Inv, TypeInv, PageInv
  <2> QED BY <1>1, <2>2, PageStep
<1> QED BY <1>2, <1>3, <1>4 DEF PageNext

\* An operator action appends its events while no process runs.
LEMMA OperatorWrites ==
    ASSUME Inv, run.status # "complete", NEW q \in Seq(CalmEvents), q # <<>>, Write(q, "down"),
           PageInv', UNCHANGED ghosts, cur' = cur
    PROVE  Inv'
<1>1. cur' \in Attempts
  BY DEF Inv, TypeInv
<1> QED BY <1>1, OrdinaryWrite DEF Ordinary, Places, Asking, Archiving

LEMMA ConfirmNotSentInv == ASSUME Inv, ConfirmNotSent PROVE Inv'
<1>1. /\ run.status # "complete" /\ UNCHANGED page /\ UNCHANGED ghosts /\ cur' = cur /\ PageInv'
  BY PageSame DEF ConfirmNotSent, Operator, Uninvolved, Inv, TypeInv
<1>2. PICK t \in run.pending : Write(NotSentConfirmed(t), "down")
  BY DEF ConfirmNotSent
<1> DEFINE n == NotSentEvent(t, t.base)
           a == AbandonedEvent(t, "operator_confirmed_not_sent", TRUE, FALSE)
           p == IF run.notSent.of # t.rid THEN <<n>> ELSE <<>>
           q == p \o <<a>>
<1>3. n \in CalmEvents /\ a \in CalmEvents
  BY PendingTyped, TurnEvents DEF Reasons
<1>4. Write(q, "down")
  BY <1>2 DEF NotSentConfirmed
<1> HIDE DEF n, a
<1>5. p \in Seq(CalmEvents) /\ <<a>> \in Seq(CalmEvents) /\ <<a>> # <<>>
  BY <1>3, Singleton
<1> HIDE DEF p
<1>6. q \in Seq(CalmEvents) /\ q # <<>>
  BY <1>5, Joined
<1> HIDE DEF q
<1> QED BY <1>1, <1>4, <1>6, OperatorWrites

LEMMA ManualConfirmInv == ASSUME Inv, ManualConfirm PROVE Inv'
<1>1. run.status # "complete" /\ UNCHANGED ghosts /\ cur' = cur
  BY DEF ManualConfirm
<1>2. PICK t \in run.pending \cup run.abandoned :
        /\ UNCHANGED page \/ Delivered(t.round)
        /\ Write((IF run.bound THEN <<>> ELSE <<[type |-> "bound"]>>) \o <<[type |-> "manual", turn |-> t]>>, "down")
  BY DEF ManualConfirm
<1>3. t \in Turn
  BY Fields DEF Inv, TypeInv
<1>4. PageInv'
  <2>1. t.round \in AnyRound
    BY <1>3, TurnFields
  <2> QED BY <1>2, <2>1, PageSame, DeliveredPage DEF Inv, TypeInv
<1> DEFINE b == [type |-> "bound"]
           m == [type |-> "manual", turn |-> t]
           p == IF run.bound THEN <<>> ELSE <<b>>
           q == p \o <<m>>
<1>5. b \in CalmEvents /\ m \in CalmEvents
  BY <1>3, TurnEvents DEF CalmEvents
<1>6. Write(q, "down")
  BY <1>2
<1> HIDE DEF b, m
<1>7. p \in Seq(CalmEvents) /\ <<m>> \in Seq(CalmEvents) /\ <<m>> # <<>>
  BY <1>5, Singleton
<1> HIDE DEF p
<1>8. q \in Seq(CalmEvents) /\ q # <<>>
  BY <1>7, Joined
<1> HIDE DEF q
<1> QED BY <1>1, <1>4, <1>6, <1>8, OperatorWrites

LEMMA ReauthorizeInv == ASSUME Inv, ReauthorizeRetry \/ ReauthorizeMismatch PROVE Inv'
<1>1. run.status # "complete" /\ UNCHANGED page /\ UNCHANGED ghosts /\ cur' = cur /\ PageInv'
  BY PageSame DEF ReauthorizeRetry, ReauthorizeMismatch, Operator, Uninvolved, Inv, TypeInv
<1>2. PICK t \in run.pending \cup run.abandoned :
        \/ Write(<<[type |-> "reauthorized", rid |-> t.rid, round |-> t.round],
                   AbandonedEvent(t, "post_fix_retry_reauthorized", TRUE, FALSE)>>, "down")
        \/ Write(<<[type |-> "reauthorized", rid |-> t.rid, round |-> t.round]>>, "down")
  BY DEF ReauthorizeRetry, ReauthorizeMismatch
<1>3. t \in Turn
  BY Fields DEF Inv, TypeInv
<1> DEFINE r == [type |-> "reauthorized", rid |-> t.rid, round |-> t.round]
           a == AbandonedEvent(t, "post_fix_retry_reauthorized", TRUE, FALSE)
<1>4. r \in CalmEvents /\ a \in CalmEvents
  BY <1>3, TurnEvents DEF Reasons
<1>5. Write(<<r, a>>, "down") \/ Write(<<r>>, "down")
  BY <1>2
<1> HIDE DEF r, a
<1>6. <<r, a>> \in Seq(CalmEvents) /\ <<r>> \in Seq(CalmEvents) /\ <<r, a>> # <<>> /\ <<r>> # <<>>
  BY <1>4
<1> QED BY <1>1, <1>5, <1>6, OperatorWrites

LEMMA AuthorizeResponseInv == ASSUME Inv, AuthorizeResponse PROVE Inv'
<1>1. run.status # "complete" /\ UNCHANGED page /\ UNCHANGED ghosts /\ cur' = cur /\ PageInv'
  BY PageSame DEF AuthorizeResponse, Operator, Uninvolved, Inv, TypeInv
<1>2. PICK t \in run.pending : Write(<<[type |-> "failure_authorized", rid |-> t.rid, round |-> t.round]>>, "down")
  BY DEF AuthorizeResponse
<1> DEFINE e == [type |-> "failure_authorized", rid |-> t.rid, round |-> t.round]
<1>3. e \in CalmEvents
  BY PendingTyped, TurnEvents
<1>4. Write(<<e>>, "down")
  BY <1>2
<1> HIDE DEF e
<1> QED BY <1>1, <1>3, <1>4, Singleton, OperatorWrites

LEMMA ConfirmMisdirectedInv == ASSUME Inv, ConfirmMisdirected PROVE Inv'
<1>1. run.status # "complete" /\ UNCHANGED page /\ UNCHANGED ghosts /\ cur' = cur /\ PageInv'
  BY PageSame DEF ConfirmMisdirected, Operator, Uninvolved, Inv, TypeInv
<1>2. PICK t \in run.pending :
        Write(<<NotSentEvent(t, Len(Talk)), AbandonedEvent(t, "misdirected_submission_confirmed", TRUE, FALSE)>>, "down")
  BY DEF ConfirmMisdirected
<1> DEFINE n == NotSentEvent(t, Len(Talk))
           a == AbandonedEvent(t, "misdirected_submission_confirmed", TRUE, FALSE)
<1>3. n \in CalmEvents /\ a \in CalmEvents
  BY PendingTyped, TurnEvents, TalkTyped DEF Reasons
<1>4. Write(<<n, a>>, "down")
  BY <1>2
<1> HIDE DEF n, a
<1>5. <<n, a>> \in Seq(CalmEvents) /\ <<n, a>> # <<>>
  BY <1>3
<1> QED BY <1>1, <1>4, <1>5, OperatorWrites

LEMMA AuthorizeDeliveryInv == ASSUME Inv, AuthorizeDelivery PROVE Inv'
<1>1. PICK t \in run.pending :
        /\ pc = "down" /\ run.status # "complete" /\ DeliveryAt(run, t.rid, t.round, "observed")
        /\ Write(<<[type |-> "timeout_authorized", rid |-> t.rid, round |-> t.round]>>, "down")
        /\ grants' = [grants EXCEPT ![t.rid] = @ + 1]
        /\ UNCHANGED <<cur, page, retries, archived>>
  BY DEF AuthorizeDelivery, Operator
<1>2. t.rid \in Ids /\ t.round \in 1..MaxRounds /\ GoodRun(run)
  BY PendingTyped DEF Inv, TypeInv
<1>3. run' = DeliveryRetryAuthorized(run, t.rid, t.round) /\ todo' = <<>> /\ pc' = "down" /\ then' = "none"
  BY <1>1, Write1 DEF Reduce
<1>4. SameBut(run, run') /\ DeliveryAt(run', t.rid, t.round, "authorized")
  BY <1>1, <1>2, <1>3, DeliveryGood
<1>5. PageInv' /\ cur' \in Attempts
  BY <1>1, PageSame DEF Inv, TypeInv
<1>6. grants' \in [Ids -> Nat] /\ (\A i \in Ids : grants[i] <= grants'[i]) /\ grants'[t.rid] = grants[t.rid] + 1
  BY <1>1, <1>2 DEF Inv, TypeInv
<1>7. TypeInv'
  BY <1>1, <1>3, <1>4, <1>5, <1>6 DEF Inv, TypeInv, Places, Asking, SameBut
<1>8. RetryInv'
  <2>1. ~Rearming' /\ \A i \in Ids : Credit(i)' => i = t.rid
    BY <1>3, <1>4 DEF Rearming, Credit, DeliveryAt
  <2>2. \A i \in Ids : retries'[i] = retries[i] /\ retries[i] <= grants[i] /\ retries[i] \in Nat /\ grants[i] \in Nat
                       /\ grants'[i] \in Nat
    BY <1>1, <1>6 DEF Inv, RetryInv, TypeInv
  <2>3. \A i \in Ids : retries'[i] <= grants'[i] /\ (Credit(i)' => retries'[i] < grants'[i])
    BY <1>2, <1>6, <2>1, <2>2
  <2> QED BY <1>3, <2>1, <2>3 DEF RetryInv
<1>9. ArchiveInv'
  BY <1>1, <1>3, <1>4, CalmArchive DEF Archiving, SameBut
<1> QED BY <1>7, <1>8, <1>9 DEF Inv

-----------------------------------------------------------------------------
(* The theorems *)

LEMMA StutterInv == ASSUME Inv, UNCHANGED vars PROVE Inv'
<1>1. UNCHANGED <<store, local, ghosts>> /\ UNCHANGED page
  BY DEF vars, store, local, ghosts, page
<1> QED BY <1>1, PageStep, PageSame DEF Inv, TypeInv

LEMMA NextInv == ASSUME Inv, [Next]_vars PROVE Inv'
<1>1. CASE UNCHANGED vars
  BY <1>1, StutterInv
<1>2. CASE Continue \/ ContinueArchive \/ Crash \/ PageNext
  BY <1>2, ContinueInv, ArchiveActionsInv, CrashInv, PageNextInv
<1>3. CASE OperatorNext
  BY <1>3, ConfirmNotSentInv, ManualConfirmInv, ReauthorizeInv, AuthorizeDeliveryInv, AuthorizeResponseInv,
     ConfirmMisdirectedInv DEF OperatorNext
<1>4. CASE ProcessNext
  BY <1>4, Append1Inv, DriveInv, SendingFails, ComposeInv, CheckpointInv, ClickInv, ClickErrorInv, ClickedInv,
     AcknowledgeInv, WaitInv, ReceiveInv, RejectInv, AcceptInv, ExecuteInv, ArchiveActionsInv, RotateOnRequestInv,
     RotateInv, OpenInv, ReconcileFails, ReconcileUnsentInv, ObserveAnswerInv, ObserveNotSentInv, ObserveFailureInv,
     ObserveTimeoutInv, ObservePendingInv, RetryCheckInv, RetryClickInv, ReadTurnInv DEF ProcessNext
<1> QED BY <1>1, <1>2, <1>3, <1>4 DEF Next

\* The inductive invariant: the shape of the state, the permissions for the
\* Retry of the page, and the checkpoint of the archive.
THEOREM Invariance == Spec => []Inv
<1>1. Init => Inv
  BY InitInv
<1>2. Inv /\ [Next]_vars => Inv'
  BY NextInv
<1> QED BY <1>1, <1>2, PTL DEF Spec

\* Every event of the log keeps the shape of the state that reduceRunState
\* makes of it, whatever the process, the page and the operator do.
THEOREM TypesHold == Spec => []TypeOK
<1>1. Inv => TypeOK
  <2> SUFFICES ASSUME Inv PROVE TypeOK
    OBVIOUS
  <2>1. /\ run.status \in Statuses /\ run.round \in AnyRound /\ run.gen \in 1..MaxGen
        /\ run.pending \subseteq Turn /\ run.abandoned \subseteq Turn
    BY Fields DEF Inv, TypeInv
  <2>2. cur.rid \in AnyId /\ cur.base \in Nat
    BY DEF Inv, TypeInv, Attempts
  <2>3. composer.kind \in {"empty", "inline", "attach"} /\ strayed \in AnyId
    BY DEF Inv, TypeInv, PageInv
  <2> QED BY <2>1, <2>2, <2>3 DEF TypeOK, Statuses, AnyRound, AnyId, Turn
<1> QED BY <1>1, Invariance, PTL

\* retryDeliveryTimeout never clicks Retry more often than it was permitted, by
\* the operator or by the failure of an old adapter before its click: whatever
\* crashes between the permission, its checkpoint and the click.
THEOREM RetryPermitted == Spec => []RetryWithinGrant
<1>1. Inv => RetryWithinGrant
  BY DEF Inv, RetryInv, RetryWithinGrant
<1> QED BY <1>1, Invariance, PTL

\* settleControllerConversationArchive clicks Archive at most once, and only
\* for a completed run, however often the run is continued after a crash.
THEOREM ArchivedOnce == Spec => []ArchiveOnce
<1>1. Inv => ArchiveOnce
  BY DEF Inv, ArchiveInv, ArchiveOnce
<1> QED BY <1>1, Invariance, PTL
=============================================================================
