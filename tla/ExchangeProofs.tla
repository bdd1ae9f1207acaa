--------------------------- MODULE ExchangeProofs ---------------------------
(***************************************************************************)
(* Proofs that the controller keeps the promise of Exchange, for every     *)
(* bound and every plan of faults in which the word of the operator is     *)
(* true, as long as no prompt goes with the attachment of another request. *)
(* The heart of it: all the turns and messages whose rounds have no        *)
(* command are of the same round, a message that is still awaited is the   *)
(* last one and stands while the composer is empty, and a pending turn     *)
(* past its checkpoint covers it.                                          *)
(***************************************************************************)
EXTENDS HandoffProofs

\* No word of the operator is wrong.
Truthful == "operator" \notin trouble.faults

\* Where the process is once the events that wait are on record
place == IF pc = "append" THEN then ELSE pc

-----------------------------------------------------------------------------
(* Of the state s of the log, the conversation w and the requests issued   *)

Active(s) == s.status \in {"running", "failed"}

\* The round has its command; or it is the one before the first.
Commanded(s, round) == \E n \in DOMAIN s.commands : s.commands[n].round = round
Reached(s, round) == round = 0 \/ Commanded(s, round)

\* The request has its command.
Used(s, rid) == \E n \in DOMAIN s.commands : s.commands[n].rid = rid
Known(s, requests, rid) == rid \in DOMAIN requests /\ ~Used(s, rid)

\* An answer may still come for the message, or has come, and its round has no
\* command.  A delivery timeout that was taken for the answer is done with.
Awaited(s, m) ==
    /\ m.ans \in {"none", "good"} \/ (m.ans = "timeout" /\ m.rid \notin s.answered)
    /\ ~Commanded(s, m.round)
NoneAwaited(s, w) == \A i \in DOMAIN w : ~Awaited(s, w[i])

Shows(w, rid) == \E i \in DOMAIN w : w[i].rid = rid
HasAnswer(w, rid, round) == \E i \in DOMAIN w : w[i].rid = rid /\ w[i].round = round /\ Command(w[i])

\* All the pending turns, at least one, are of this request.
Only(s, rid) == s.pending # {} /\ \A t \in s.pending : t.rid = rid

\* A round is or will be asked again that has its command: a message confirmed
\* by hand was answered after its round was given up.
Behind(s) == Commanded(s, s.round + 1) \/ \E t \in s.pending : Commanded(s, t.round)

GoodTurn(s, t) ==
    /\ t \in Turn
    /\ Reached(s, t.round - 1) /\ t.gen <= s.gen
    /\ Behind(s) /\ t.gen = s.gen => Commanded(s, t.round)
GoodMessage(s, m) ==
    /\ m.round \in 1..MaxRounds
    /\ Reached(s, m.round - 1)
    /\ Behind(s) => Commanded(s, m.round)

\* The turn stands for a message that may have been sent.
Covers(t, w) == t.sub # "requested" /\ (t.manual \/ Shows(w, t.rid))

-----------------------------------------------------------------------------
(* The invariant: of the log s with the events q to come, the place p, the *)
(* attempt c, the conversations T, the composer k and the requests         *)

Closed(s) == \A n \in DOMAIN s.commands : \A r \in 1..s.commands[n].round : Commanded(s, r)

\* A command is the answer to a message of its own.
Backed(s, T) ==
    /\ \A m, n \in DOMAIN s.commands : s.commands[m].rid = s.commands[n].rid => m = n
    /\ \A n \in DOMAIN s.commands : \E g \in 1..MaxGen : HasAnswer(T[g], s.commands[n].rid, s.commands[n].round)
    /\ \A g \in 1..MaxGen : g > s.gen => T[g] = <<>>

\* A request id names what it was issued for: no command uses it twice.
Issued(s, requests) ==
    /\ requests \in Seq([round : Nat, of : AnyId, after : Nat])
    /\ \A n \in DOMAIN s.commands : s.commands[n].rid \in DOMAIN requests /\ requests[s.commands[n].rid].after < n
    /\ \A i \in DOMAIN requests : requests[i].after \in 0..Len(s.commands)
    /\ \A t \in s.pending \cup s.abandoned : t.rid \in DOMAIN requests
    /\ \A t \in s.pending : ~Used(s, t.rid)
    /\ s.notSent.of # None => Known(s, requests, s.notSent.of)

Rounds(s, w) ==
    /\ \A t \in s.pending \cup s.abandoned : GoodTurn(s, t)
    /\ \A t, v \in s.pending : t.rid = v.rid => t.round = v.round
    /\ \A i \in DOMAIN w : GoodMessage(s, w[i])
    /\ s.rollover.status = "opening" => Reached(s, Lower(s.rollover.round))
    /\ Active(s) => Reached(s, s.round) \/ \E t \in s.pending : t.round = s.round

Confirms(q) == \E i \in DOMAIN q : q[i].type = "manual"

Covered(s, q, w, k) ==
    Active(s) => \A i \in DOMAIN w : Awaited(s, w[i]) =>
        /\ i = Len(w) /\ k = EmptyComposer
        /\ Confirms(q) \/ \E t \in s.pending : Covers(t, w)

\* What came after the baseline of the only turn is its own, unless it has its
\* answer already.
Based(s, q, w) ==
    \A t \in s.pending :
        Only(s, t.rid) /\ ~t.manual /\ t.comp # "none" /\ ~Confirms(q) =>
            \/ HasAnswer(w, t.rid, t.round)
            \/ \A i \in DOMAIN w : i > t.base => w[i].rid = t.rid

\* Events that leave the turns alone
QuietTypes == {"resumed", "bound", "executed", "failed", "conflict", "reauthorized", "waiting",
               "failure_observed", "failure_authorized", "failure_consumed", "failure_resent", "failure_skipped",
               "timeout_observed", "timeout_authorized", "timeout_started", "timeout_rearmed",
               "activated", "rotation_failed"}
Quiet(ev) == ev.type \in QuietTypes
AllQuiet(q) == \A i \in DOMAIN q : Quiet(q[i])

Sending == {"compose", "stage", "target", "click", "ack", "clicked", "wait"}

\* The answer at hand is no command, and is more than a refused confirmation.
Rejected(c) == ~c.good /\ ~(c.first /\ c.manual)

AtRest(s, p, c) ==
    /\ p = "drive" => s.pending = {}
    /\ p = "execute" /\ c # NoTurn => s.pending = {}
    /\ p = "down" => c = NoTurn
AtSending(s, w, p, c) ==
    /\ p \in Sending => Only(s, c.rid) /\ \A t \in s.pending : t.round = c.round /\ t.gen = s.gen
    /\ p \in {"compose", "stage", "target", "click"} => NoneAwaited(s, w)
    /\ p \in {"click", "ack", "clicked", "wait"} => \A t \in s.pending : t.sub # "requested"
    /\ p \in {"stage", "target", "click"} => Len(w) <= c.base
    /\ p \in {"ack", "clicked", "wait"} => \A i \in DOMAIN w : i > c.base => w[i].rid = c.rid
AtAnswer(s, q, w, p, c) ==
    /\ p \in {"received", "parse"} =>
        /\ \E t \in s.pending : t.rid = c.rid /\ t.round = c.round /\ t.sub # "requested"
        /\ Only(s, c.rid) \/ (c.good /\ c.recovered /\ ~Commanded(s, c.round))
        /\ c.good => HasAnswer(w, c.rid, c.round)
    /\ p = "received" /\ Rejected(c) =>
        \A i \in DOMAIN w : Awaited(s, w[i]) => w[i].ans = "timeout" /\ w[i].rid = c.rid /\ q = <<>>
    /\ p = "parse" /\ Rejected(c) => NoneAwaited(s, w)
AtRetry(s, w, k, p, c) ==
    p \in {"retry", "retryclick"} =>
        /\ Only(s, c.rid) /\ \E t \in s.pending : t.round = c.round /\ Covers(t, w)
        /\ k = EmptyComposer /\ w # <<>> /\ w[Len(w)].ans # "none"
Going(s, q, w, k, p, c) ==
    AllQuiet(q) /\ AtRest(s, p, c) /\ AtSending(s, w, p, c) /\ AtAnswer(s, q, w, p, c) /\ AtRetry(s, w, k, p, c)

\* A turn is given up that was not sent.
Abandoning(s, q, w, p, c) ==
    /\ p = "drive" \/ (p = "down" /\ c = NoTurn)
    /\ Active(s) /\ NoneAwaited(s, w)
    /\ q # <<>> /\ q[Len(q)].type = "abandoned" /\ q[Len(q)].unconsumed
    /\ GoodTurn(s, q[Len(q)].turn) /\ Only(s, q[Len(q)].turn.rid)
    /\ \A t \in s.pending : t.round = q[Len(q)].turn.round
    /\ \A i \in 1..(Len(q) - 1) : Quiet(q[i]) \/ (q[i].type = "not_sent" /\ q[i].turn = q[Len(q)].turn)

\* A command is accepted, after the turns that its answer was preferred to.
Accepting(s, q, w, requests, p, c) ==
    /\ p = "execute" \/ (p = "down" /\ c = NoTurn)
    /\ Active(s)
    /\ q # <<>> /\ q[Len(q)].type = "accepted"
    /\ Len(q) = 1 \/ ~Commanded(s, q[Len(q)].round)
    /\ \E t \in s.pending : t.rid = q[Len(q)].rid /\ t.round = q[Len(q)].round /\ t.sub # "requested"
    /\ HasAnswer(w, q[Len(q)].rid, q[Len(q)].round)
    /\ \A i \in 1..(Len(q) - 1) :
        /\ q[i].type = "abandoned" /\ ~q[i].unconsumed /\ q[i].reason = "operator_selected"
        /\ GoodTurn(s, q[i].turn) /\ q[i].turn.rid # q[Len(q)].rid /\ q[i].turn.rid \in DOMAIN requests
    /\ \A t \in s.pending : t.rid = q[Len(q)].rid \/ \E i \in 1..(Len(q) - 1) : q[i].turn.rid = t.rid

\* The operator confirms a message sent by hand.
Confirming(s, q, requests, p, c) ==
    /\ p = "down" /\ c = NoTurn /\ Active(s)
    /\ q # <<>> /\ q[Len(q)].type = "manual"
    /\ GoodTurn(s, q[Len(q)].turn) /\ q[Len(q)].turn.gen = s.gen
    /\ ~Commanded(s, q[Len(q)].turn.round) /\ Known(s, requests, q[Len(q)].turn.rid)
    /\ \A i \in 1..(Len(q) - 1) : Quiet(q[i])

Ending(s, q, p) ==
    ~Active(s) => p \in Archiving \cup {"down"} /\ \A i \in DOMAIN q : q[i].type = "executed"

\* What is on record and on the page
Lasting(s, q, T, k, requests) ==
    /\ Closed(s) /\ Backed(s, T) /\ Issued(s, requests)
    /\ Rounds(s, T[s.gen]) /\ Covered(s, q, T[s.gen], k) /\ Based(s, q, T[s.gen])

\* What the process is at
Course(s, q, p, c, T, k, requests) ==
    /\ Ending(s, q, p)
    /\ \/ Going(s, q, T[s.gen], k, p, c)
       \/ Abandoning(s, q, T[s.gen], p, c)
       \/ Accepting(s, q, T[s.gen], requests, p, c)
       \/ Confirming(s, q, requests, p, c)

Sound(s, q, p, c, T, k, requests) == Lasting(s, q, T, k, requests) /\ Course(s, q, p, c, T, k, requests)

Keeps == Sound(run, todo, place, cur, talks, composer, issued)

-----------------------------------------------------------------------------
(* Rounds                                                                  *)

LEMMA CommandRounds ==
    ASSUME NEW s, GoodRun(s)
    PROVE  \A n \in DOMAIN s.commands : s.commands[n].rid \in Ids /\ s.commands[n].round \in 1..MaxRounds
<1> DEFINE S == [rid : Ids, round : 1..MaxRounds]
<1>1. s.commands \in Seq(S)
  BY Fields DEF Accepted
<1>2. \A e \in S : e.rid \in Ids /\ e.round \in 1..MaxRounds
  OBVIOUS
<1> HIDE DEF S
<1>3. \A n \in DOMAIN s.commands : s.commands[n] \in S
  BY <1>1
<1> QED BY <1>2, <1>3

LEMMA Below ==
    ASSUME NEW s, GoodRun(s), Closed(s), NEW a \in 1..MaxRounds, NEW b \in Nat, b >= a, Commanded(s, b)
    PROVE  Commanded(s, a)
<1>1. PICK n \in DOMAIN s.commands : s.commands[n].round = b
  BY DEF Commanded
<1>2. a \in 1..s.commands[n].round
  BY <1>1, TurnAssumption
<1> QED BY <1>2 DEF Closed

\* Only one round can be reached and have no command.
LEMMA SameRound ==
    ASSUME NEW s, GoodRun(s), Closed(s), NEW a \in 1..MaxRounds, NEW b \in 1..MaxRounds,
           Reached(s, a - 1), Reached(s, b - 1), ~Commanded(s, a), ~Commanded(s, b)
    PROVE  a = b
<1>1. ASSUME NEW x \in 1..MaxRounds, NEW y \in 1..MaxRounds, Reached(s, y - 1), ~Commanded(s, x), x < y PROVE FALSE
  <2>1. y - 1 \in Nat /\ y - 1 >= x /\ y - 1 # 0
    BY <1>1, TurnAssumption
  <2> QED BY <1>1, <2>1, Below DEF Reached
<1> QED BY <1>1, TurnAssumption

-----------------------------------------------------------------------------
(* Events that leave the turns alone                                       *)

\* A failure puts on record that a submission was under way.
Like(t, v) ==
    /\ v.rid = t.rid /\ v.round = t.round /\ v.gen = t.gen
    /\ v.manual = t.manual /\ v.comp = t.comp /\ v.base = t.base
    /\ t.sub # "requested" => v.sub # "requested"
SameLog(s, u) ==
    /\ u.round = s.round /\ u.gen = s.gen /\ u.commands = s.commands /\ u.abandoned = s.abandoned
    /\ u.notSent.of = s.notSent.of
    /\ u.rollover.status = "opening" => s.rollover.status = "opening" /\ u.rollover.round = s.rollover.round
    /\ s.answered \subseteq u.answered
    /\ Active(u) <=> Active(s)
Kept(s, u) ==
    /\ SameLog(s, u)
    /\ \A v \in u.pending : \E t \in s.pending : Like(t, v)
    /\ \A t \in s.pending : \E v \in u.pending : Like(t, v)

LEMMA KeptSame == ASSUME NEW s, NEW u, SameLog(s, u), u.pending = s.pending PROVE Kept(s, u)
  BY DEF Kept, Like

LEMMA KeptCommands ==
    ASSUME NEW s, NEW u, Kept(s, u)
    PROVE  /\ \A r : Commanded(u, r) <=> Commanded(s, r)
           /\ \A r : Reached(u, r) <=> Reached(s, r)
           /\ \A r : Used(u, r) <=> Used(s, r)
           /\ \A r : Only(u, r) <=> Only(s, r)
           /\ Behind(u) <=> Behind(s)
           /\ \A m : Awaited(u, m) => Awaited(s, m)
<1>1. \A r : (Commanded(u, r) <=> Commanded(s, r)) /\ (Used(u, r) <=> Used(s, r))
  BY DEF Kept, SameLog, Commanded, Used
<1>2. \A r : Reached(u, r) <=> Reached(s, r)
  BY <1>1 DEF Reached
<1>3. \A r : Only(u, r) <=> Only(s, r)
  BY DEF Kept, Like, Only
<1>4. Behind(u) <=> Behind(s)
  BY <1>1 DEF Kept, SameLog, Like, Behind
<1>5. \A m : Awaited(u, m) => Awaited(s, m)
  BY <1>1 DEF Kept, SameLog, Awaited
<1> QED BY <1>1, <1>2, <1>3, <1>4, <1>5

LEMMA KeptTurn ==
    ASSUME NEW s, NEW u, Kept(s, u), NEW t, GoodTurn(s, t)
    PROVE  GoodTurn(u, t)
  BY KeptCommands DEF GoodTurn, Kept, SameLog

LEMMA KeptRounds ==
    ASSUME NEW s, NEW u, GoodRun(u), Kept(s, u), NEW w, Rounds(s, w)
    PROVE  Rounds(u, w)
<1> USE KeptCommands
<1>1. ASSUME NEW t, GoodTurn(s, t) PROVE GoodTurn(u, t)
  BY <1>1 DEF GoodTurn, Kept, SameLog
<1>2. ASSUME NEW v \in u.pending PROVE GoodTurn(u, v)
  <2>1. PICK t \in s.pending : Like(t, v)
    BY DEF Kept
  <2>2. GoodTurn(s, t) /\ v \in Turn
    BY Fields DEF Rounds
  <2> QED BY <2>1, <2>2 DEF GoodTurn, Like, Kept, SameLog
<1>3. \A t \in u.abandoned : GoodTurn(u, t)
  BY <1>1 DEF Rounds, Kept, SameLog
<1>4. \A i \in DOMAIN w : GoodMessage(u, w[i])
  BY DEF Rounds, GoodMessage
<1>5. u.rollover.status = "opening" => Reached(u, Lower(u.rollover.round))
  BY DEF Rounds, Kept, SameLog
<1>6. Active(u) => Reached(u, u.round) \/ \E t \in u.pending : t.round = u.round
  BY DEF Rounds, Kept, SameLog, Like
<1>7. \A t, v \in u.pending : t.rid = v.rid => t.round = v.round
  BY DEF Rounds, Kept, Like
<1> QED BY <1>2, <1>3, <1>4, <1>5, <1>6, <1>7 DEF Rounds

LEMMA KeptLasting ==
    ASSUME NEW s, NEW u, GoodRun(u), Kept(s, u), NEW q, NEW r, Confirms(q) => Confirms(r),
           NEW T, NEW k, NEW requests, Lasting(s, q, T, k, requests)
    PROVE  Lasting(u, r, T, k, requests)
<1> USE KeptCommands DEF Lasting
<1> DEFINE w == T[s.gen]
<1>1. T[u.gen] = w
  BY DEF Kept, SameLog
<1> HIDE DEF w
<1>2. Closed(u) /\ Backed(u, T)
  BY DEF Closed, Backed, Kept, SameLog
<1>3. Issued(u, requests)
  <2>1. \A v \in u.pending : v.rid \in DOMAIN requests /\ ~Used(u, v.rid)
    BY DEF Issued, Kept, Like
  <2>2. u.commands = s.commands /\ u.abandoned = s.abandoned /\ u.notSent.of = s.notSent.of /\ \A x : Used(u, x) <=> Used(s, x)
    BY DEF Kept, SameLog
  <2>3. Issued(s, requests)
    OBVIOUS
  <2> HIDE KeptCommands DEF Lasting
  <2> QED BY <2>1, <2>2, <2>3 DEF Issued, Known
<1>4. Rounds(u, w)
  BY KeptRounds DEF w
<1>5. Covered(u, r, w, k)
  <2>1. Covered(s, q, w, k) /\ (Active(u) => Active(s))
    BY DEF w, Kept, SameLog
  <2>2. ASSUME NEW t \in s.pending, Covers(t, w) PROVE \E v \in u.pending : Covers(v, w)
    BY <2>2 DEF Kept, Like, Covers
  <2> QED BY <2>1, <2>2 DEF Covered
<1>6. Based(u, r, w)
  <2>1. Based(s, q, w)
    BY DEF w
  <2> QED BY <2>1 DEF Based, Kept, Like
<1> QED BY <1>1, <1>2, <1>3, <1>4, <1>5, <1>6

LEMMA KeptGoing ==
    ASSUME NEW s, NEW u, Kept(s, u), NEW q, NEW r, AllQuiet(r), q = <<>> => r = <<>>, NEW w, NEW k, NEW p, NEW c,
           Going(s, q, w, k, p, c)
    PROVE  Going(u, r, w, k, p, c)
<1> USE KeptCommands DEF Going
<1>1. AtRest(u, p, c)
  BY DEF AtRest, Kept
<1>2. AtSending(u, w, p, c)
  <2>1. NoneAwaited(s, w) => NoneAwaited(u, w)
    BY DEF NoneAwaited
  <2>2. u.gen = s.gen
    BY DEF Kept, SameLog
  <2> QED BY <2>1, <2>2 DEF AtSending, Kept, Like
<1>3. AtAnswer(u, r, w, p, c)
  <2>1. NoneAwaited(s, w) => NoneAwaited(u, w)
    BY DEF NoneAwaited
  <2>2. p \in {"received", "parse"} => \E t \in u.pending : t.rid = c.rid /\ t.round = c.round /\ t.sub # "requested"
    BY DEF AtAnswer, Kept, Like
  <2> QED BY <2>1, <2>2 DEF AtAnswer
<1>4. AtRetry(u, w, k, p, c)
  BY DEF AtRetry, Kept, Like, Covers
<1> QED BY <1>1, <1>2, <1>3, <1>4

LEMMA FailedKept ==
    ASSUME NEW s, GoodRun(s), Active(s), NEW code, NEW rid, NEW sub
    PROVE  Kept(s, RunFailed(s, code, rid, sub))
<1> DEFINE u == RunFailed(s, code, rid, sub)
           F(t) == IF t.rid = rid /\ t.sub # "submitted" /\ sub \in {"submitting", "possibly_sent", "submitted"}
                   THEN [t EXCEPT !.sub = sub] ELSE t
<1>1. u.pending = {F(t) : t \in s.pending}
  BY DEF RunFailed, GoodRun, Runs
<1>2. ASSUME NEW t \in s.pending PROVE Like(t, F(t))
  <2>1. t \in Turn
    BY Fields
  <2> QED BY <2>1 DEF Like, Turn, Turns
<1>3. SameLog(s, u)
  <2>1. /\ u.round = s.round /\ u.gen = s.gen /\ u.commands = s.commands /\ u.abandoned = s.abandoned
        /\ u.rollover = s.rollover /\ u.answered = s.answered /\ u.status = "failed"
    BY DEF RunFailed, GoodRun, Runs
  <2>2. u.notSent = IF code = "confirmationConflict" /\ s.notSent.of # None
                    THEN [s.notSent EXCEPT !.status = "conflict", !.code = code] ELSE s.notSent
    BY DEF RunFailed, GoodRun, Runs
  <2>3. u.notSent.of = s.notSent.of
    BY <2>2, Fields DEF Recoveries
  <2> QED BY <2>1, <2>3 DEF SameLog, Active
<1> QED BY <1>1, <1>2, <1>3 DEF Kept

\* Events about the failures of the page, the conversation and the permissions
LEMMA SettledKept ==
    ASSUME NEW s, GoodRun(s), NEW rid, NEW round, NEW x
    PROVE  /\ Kept(s, ConversationBound(s)) /\ Kept(s, ExecutionCompleted(s)) /\ Kept(s, s)
           /\ Kept(s, TakeoverConfirmed(s))
           /\ Kept(s, ResponseFailureObserved(s, rid, round)) /\ Kept(s, ResponseRetryAuthorized(s, rid, round))
           /\ Kept(s, ResponseRetryConsumed(s, rid, round)) /\ Kept(s, ResponseRetryResent(s, rid, round, x))
           /\ Kept(s, ResponseRetrySkipped(s, rid, round)) /\ Kept(s, DeliveryTimeoutObserved(s, rid, round))
           /\ Kept(s, DeliveryRetryAuthorized(s, rid, round)) /\ Kept(s, DeliveryRetryStarted(s, rid, round))
           /\ Kept(s, DeliveryRetryRearmed(s, rid, round))
           /\ Kept(s, RotationActivated(s)) /\ Kept(s, RotationFailed(s))
           /\ Kept(s, ResponseReceived(s, rid, round))
<1>1. Kept(s, s)
  BY KeptSame DEF SameLog
<1> DEFINE Same(u) == /\ u.round = s.round /\ u.gen = s.gen /\ u.commands = s.commands /\ u.abandoned = s.abandoned
                      /\ u.notSent = s.notSent /\ u.pending = s.pending /\ s.answered \subseteq u.answered
                      /\ u.status = s.status
<1>2. ASSUME NEW u, Same(u), u.rollover = s.rollover PROVE Kept(s, u)
  BY <1>2, KeptSame DEF SameLog, Active
<1>3. ASSUME NEW u, Same(u), u.rollover.status # "opening" PROVE Kept(s, u)
  BY <1>3, KeptSame DEF SameLog, Active
<1>4. Kept(s, ConversationBound(s)) /\ Kept(s, ExecutionCompleted(s)) /\ Kept(s, TakeoverConfirmed(s))
  <2>1. Same(ConversationBound(s)) /\ ConversationBound(s).rollover = s.rollover
    BY DEF ConversationBound, GoodRun, Runs
  <2>2. Same(ExecutionCompleted(s)) /\ ExecutionCompleted(s).rollover = s.rollover
    BY DEF ExecutionCompleted, GoodRun, Runs
  <2>3. Same(TakeoverConfirmed(s)) /\ TakeoverConfirmed(s).rollover = s.rollover
    BY DEF TakeoverConfirmed, GoodRun, Runs
  <2> QED BY <2>1, <2>2, <2>3, <1>2
<1>5. \A f : Kept(s, [s EXCEPT !.failure = f])
  BY <1>2 DEF GoodRun, Runs
<1>6. \A d : Kept(s, [s EXCEPT !.delivery = d])
  BY <1>2 DEF GoodRun, Runs
<1>7. \A d : Kept(s, [s EXCEPT !.failure.status = d]) /\ Kept(s, [s EXCEPT !.delivery.status = d])
             /\ Kept(s, [s EXCEPT !.failure.status = "resent", !.failure.retry = d])
  <2> SUFFICES ASSUME NEW d
               PROVE  /\ Kept(s, [s EXCEPT !.failure.status = d]) /\ Kept(s, [s EXCEPT !.delivery.status = d])
                      /\ Kept(s, [s EXCEPT !.failure.status = "resent", !.failure.retry = d])
    OBVIOUS
  <2>1. LET u == [s EXCEPT !.failure.status = d] IN Same(u) /\ u.rollover = s.rollover
    BY DEF GoodRun, Runs
  <2>2. LET u == [s EXCEPT !.delivery.status = d] IN Same(u) /\ u.rollover = s.rollover
    BY DEF GoodRun, Runs
  <2>3. LET u == [s EXCEPT !.failure.status = "resent", !.failure.retry = d] IN Same(u) /\ u.rollover = s.rollover
    BY DEF GoodRun, Runs
  <2> QED BY <2>1, <2>2, <2>3, <1>2
<1>8. /\ Kept(s, ResponseFailureObserved(s, rid, round)) /\ Kept(s, ResponseRetryAuthorized(s, rid, round))
      /\ Kept(s, ResponseRetryConsumed(s, rid, round)) /\ Kept(s, ResponseRetryResent(s, rid, round, x))
      /\ Kept(s, ResponseRetrySkipped(s, rid, round))
  BY <1>1, <1>5, <1>7 DEF ResponseFailureObserved, ResponseRetryAuthorized, ResponseRetryConsumed, ResponseRetryResent,
     ResponseRetrySkipped
<1>9. /\ Kept(s, DeliveryTimeoutObserved(s, rid, round)) /\ Kept(s, DeliveryRetryAuthorized(s, rid, round))
      /\ Kept(s, DeliveryRetryStarted(s, rid, round)) /\ Kept(s, DeliveryRetryRearmed(s, rid, round))
  BY <1>1, <1>6, <1>7 DEF DeliveryTimeoutObserved, DeliveryRetryAuthorized, DeliveryRetryStarted, DeliveryRetryRearmed
<1>10. \A y \in {"active", "failed"} : Kept(s, [s EXCEPT !.rollover.status = y])
  <2> SUFFICES ASSUME NEW y \in {"active", "failed"} PROVE Kept(s, [s EXCEPT !.rollover.status = y])
    OBVIOUS
  <2> DEFINE u == [s EXCEPT !.rollover.status = y]
  <2>1. Same(u)
    BY DEF GoodRun, Runs
  <2>2. u.rollover = [s.rollover EXCEPT !.status = y]
    BY DEF GoodRun, Runs
  <2>3. u.rollover.status # "opening"
    BY <2>2, Fields DEF Rollovers
  <2> QED BY <2>1, <2>3, <1>3
<1>11. Kept(s, RotationActivated(s)) /\ Kept(s, RotationFailed(s))
  BY <1>1, <1>10 DEF RotationActivated, RotationFailed
<1>12. Kept(s, ResponseReceived(s, rid, round))
  <2> DEFINE u == ResponseReceived(s, rid, round)
  <2>1. Same(u) /\ u.rollover = s.rollover
    BY DEF ResponseReceived, GoodRun, Runs
  <2> QED BY <2>1, <1>2
<1> QED BY <1>1, <1>4, <1>8, <1>9, <1>11, <1>12

\* Events about the recovery of a prompt that was not sent
LEMMA RecoveryKept ==
    ASSUME NEW s, GoodRun(s), Active(s), NEW rid, NEW round, NEW code, NEW t
    PROVE  /\ Kept(s, RunResumed(s)) /\ Kept(s, RetryConflict(s, rid, code))
           /\ Kept(s, PostFixReauthorized(s, rid, round)) /\ Kept(s, PostFixReconciliationWaiting(s, t))
<1>1. Kept(s, s)
  BY SettledKept
<1> DEFINE Same(u) == /\ u.round = s.round /\ u.gen = s.gen /\ u.commands = s.commands /\ u.abandoned = s.abandoned
                      /\ u.notSent.of = s.notSent.of /\ u.pending = s.pending /\ s.answered \subseteq u.answered
                      /\ Active(u) /\ u.rollover = s.rollover
<1>2. ASSUME NEW u, Same(u) PROVE Kept(s, u)
  BY <1>2, KeptSame DEF SameLog
<1>3. Kept(s, RunResumed(s)) /\ Kept(s, [s EXCEPT !.status = "failed"])
  BY <1>2 DEF RunResumed, GoodRun, Runs, Active
<1>4. Kept(s, RetryConflict(s, rid, code))
  <2> DEFINE u == RetryConflict(s, rid, code)
  <2>1. u.notSent = IF s.notSent.of = None THEN s.notSent ELSE [s.notSent EXCEPT !.status = "conflict", !.code = code]
    BY DEF RetryConflict, GoodRun, Runs
  <2>2. u.notSent.of = s.notSent.of
    BY <2>1, Fields DEF Recoveries
  <2>3. /\ u.round = s.round /\ u.gen = s.gen /\ u.commands = s.commands /\ u.abandoned = s.abandoned
        /\ u.pending = s.pending /\ u.answered = s.answered /\ u.status = "failed" /\ u.rollover = s.rollover
    BY DEF RetryConflict, GoodRun, Runs
  <2> QED BY <2>2, <2>3, <1>2 DEF Active
<1>5. ASSUME NEW p, NEW cy PROVE Kept(s, [s EXCEPT !.notSent = [@ EXCEPT !.status = "confirmed", !.retry = None, !.code = "none", !.lineage = 0],
                                               !.postfix = p, !.cycle = cy])
  <2> DEFINE ns == [s.notSent EXCEPT !.status = "confirmed", !.retry = None, !.code = "none", !.lineage = 0]
             u == [s EXCEPT !.notSent = ns, !.postfix = p, !.cycle = cy]
  <2>1. ns.of = s.notSent.of
    BY Fields DEF Recoveries
  <2> HIDE DEF ns
  <2>2. Same(u)
    BY <2>1 DEF GoodRun, Runs, Active
  <2>3. Kept(s, u)
    BY <2>2, <1>2
  <2> QED BY <2>3 DEF ns
<1>6. Kept(s, PostFixReauthorized(s, rid, round))
  BY <1>1, <1>5 DEF PostFixReauthorized
<1> QED BY <1>1, <1>3, <1>4, <1>6 DEF PostFixReconciliationWaiting

LEMMA QuietKept ==
    ASSUME NEW s, GoodRun(s), NEW ev, Quiet(ev), Active(s) \/ ev.type = "executed"
    PROVE  Kept(s, Reduce(s, ev))
<1>1. CASE ev.type \in {"bound", "executed", "failure_observed", "failure_authorized", "failure_consumed", "failure_resent",
                        "failure_skipped", "timeout_observed", "timeout_authorized", "timeout_started", "timeout_rearmed",
                        "activated", "rotation_failed"}
  BY <1>1, SettledKept DEF Reduce
<1>2. CASE ev.type \in {"resumed", "conflict", "reauthorized", "waiting"}
  BY <1>2, RecoveryKept DEF Reduce
<1>3. CASE ev.type = "failed"
  BY <1>3, FailedKept DEF Reduce
<1> QED BY <1>1, <1>2, <1>3 DEF Quiet, QuietTypes

-----------------------------------------------------------------------------
(* Turns that are given up, and commands that are accepted                 *)

\* The round and its command, before a step and after
SameCommands(s, u) ==
    /\ u.commands = s.commands /\ u.gen = s.gen /\ u.answered = s.answered
    /\ u.rollover = s.rollover /\ u.status = s.status

LEMMA SameFacts ==
    ASSUME NEW s, NEW u, SameCommands(s, u)
    PROVE  /\ \A r : Commanded(u, r) <=> Commanded(s, r)
           /\ \A r : Reached(u, r) <=> Reached(s, r)
           /\ \A r : Used(u, r) <=> Used(s, r)
           /\ \A m : Awaited(u, m) <=> Awaited(s, m)
           /\ Active(u) <=> Active(s)
           /\ Closed(s) => Closed(u)
           /\ \A T : Backed(s, T) => Backed(u, T)
           /\ \A I, r : Known(u, I, r) <=> Known(s, I, r)
<1>1. \A r : (Commanded(u, r) <=> Commanded(s, r)) /\ (Used(u, r) <=> Used(s, r)) /\ (Reached(u, r) <=> Reached(s, r))
  BY DEF SameCommands, Commanded, Used, Reached
<1> QED BY <1>1 DEF SameCommands, Awaited, Active, Closed, Backed, Known

LEMMA LowerFacts ==
    ASSUME NEW n \in 1..MaxRounds
    PROVE  Lower(n) = n - 1 /\ Lower(n) + 1 = n
  BY TurnAssumption DEF Lower

LEMMA PendingGood ==
    ASSUME NEW s, GoodRun(s), NEW w, Rounds(s, w), NEW t \in s.pending
    PROVE  GoodTurn(s, t) /\ t \in Turn /\ t.round \in 1..MaxRounds /\ t.rid \in Ids /\ t.gen \in 1..MaxGen
           /\ Reached(s, t.round - 1)
  BY Fields, TurnFields DEF Rounds, GoodTurn

Abandonments == [type : {"abandoned"}, turn : Turn, reason : Reasons, unconsumed : BOOLEAN, fresh : BOOLEAN]

LEMMA AbandonedFields ==
    ASSUME NEW s, GoodRun(s), NEW ev \in Abandonments, NEW u, u = Reduce(s, ev)
    PROVE  /\ SameCommands(s, u)
           /\ u.round = (IF ev.unconsumed /\ ev.turn.round = s.round THEN Lower(s.round) ELSE s.round)
           /\ u.pending = Without(s.pending, ev.turn.rid)
           /\ u.abandoned = Without(s.abandoned, ev.turn.rid) \cup {ev.turn}
           /\ u.notSent.of \in {s.notSent.of, ev.turn.rid}
           /\ ev.reason = "operator_selected" => u.notSent.of = s.notSent.of
<1> DEFINE t == ev.turn
           lineage == s.notSent.lineage + (IF PostFixLineage(s, t, ev.fresh) THEN 1 ELSE 0)
           again == [s.notSent EXCEPT !.status = "confirmed", !.retry = None, !.code = "none", !.lineage = lineage]
           notSent == IF t.retryOf # None /\ ev.reason = "definitely_not_sent_retry" /\ s.notSent.of = t.retryOf
                      THEN again ELSE IF ev.reason = "operator_confirmed_not_sent" THEN RecoveryOf(s, t, t.base) ELSE s.notSent
<1>1. u = TurnAbandoned(s, t, ev.reason, ev.unconsumed, ev.fresh)
  BY DEF Reduce, Abandonments
<1>2. u.notSent = notSent
  BY <1>1 DEF TurnAbandoned, GoodRun, Runs
<1>3. again.of = s.notSent.of
  BY Fields DEF Recoveries
<1>4. RecoveryOf(s, t, t.base).of = t.rid
  BY DEF RecoveryOf
<1>5. u.notSent.of \in {s.notSent.of, t.rid} /\ (ev.reason = "operator_selected" => u.notSent.of = s.notSent.of)
  BY <1>2, <1>3, <1>4
<1> HIDE DEF notSent
<1>6. /\ SameCommands(s, u)
      /\ u.round = (IF ev.unconsumed /\ t.round = s.round THEN Lower(s.round) ELSE s.round)
      /\ u.pending = Without(s.pending, t.rid)
      /\ u.abandoned = Without(s.abandoned, t.rid) \cup {t}
  BY <1>1 DEF TurnAbandoned, GoodRun, Runs, SameCommands
<1> QED BY <1>5, <1>6

\* A turn that was not sent is given up with its round.
LEMMA AbandonedLasting ==
    ASSUME NEW s, GoodRun(s), NEW q, NEW r, NEW T, NEW k, NEW I, Lasting(s, q, T, k, I), NoneAwaited(s, T[s.gen]),
           NEW ev \in Abandonments, ev.unconsumed, GoodTurn(s, ev.turn), Only(s, ev.turn.rid),
           \A x \in s.pending : x.round = ev.turn.round,
           NEW u, u = Reduce(s, ev), GoodRun(u)
    PROVE  Lasting(u, r, T, k, I) /\ u.pending = {} /\ (Active(u) <=> Active(s))
<1> USE DEF Lasting
<1> DEFINE w == T[s.gen]
           t == ev.turn
<1>1. /\ SameCommands(s, u) /\ u.abandoned = Without(s.abandoned, t.rid) \cup {t}
      /\ u.round = (IF t.round = s.round THEN Lower(s.round) ELSE s.round)
      /\ u.pending = Without(s.pending, t.rid) /\ u.notSent.of \in {s.notSent.of, t.rid}
  BY AbandonedFields
<1>f. /\ \A x : Commanded(u, x) <=> Commanded(s, x)
      /\ \A x : Reached(u, x) <=> Reached(s, x)
      /\ \A x : Used(u, x) <=> Used(s, x)
      /\ \A m : Awaited(u, m) <=> Awaited(s, m)
      /\ Active(u) <=> Active(s)
      /\ Closed(u) /\ Backed(u, T)
      /\ \A x : Known(u, I, x) <=> Known(s, I, x)
  BY <1>1, SameFacts
<1>2. u.pending = {}
  BY <1>1 DEF Only, Without
<1>3. GoodTurn(s, t) /\ t.round \in 1..MaxRounds /\ s.round \in Nat /\ Reached(s, t.round - 1)
  BY Fields, TurnFields, TurnAssumption DEF AnyRound, GoodTurn
<1>10. PICK v \in s.pending : v.rid = t.rid /\ v.round = t.round
  BY DEF Only
<1>4. Behind(u) => Behind(s)
  <2>1. Behind(u) => Commanded(s, u.round + 1)
    BY <1>1, <1>2, <1>f DEF Behind
  <2>2. u.round + 1 = s.round + 1 \/ u.round + 1 = t.round
    BY <1>1, <1>3, LowerFacts
  <2> QED BY <2>1, <2>2, <1>10 DEF Behind
<1> HIDE DEF w, t
<1>5. Rounds(u, w)
  <2>1. ASSUME NEW x, GoodTurn(s, x) PROVE GoodTurn(u, x)
    BY <2>1, <1>1, <1>4, <1>f DEF GoodTurn, SameCommands
  <2>2. \A x \in u.pending \cup u.abandoned : GoodTurn(u, x)
    BY <2>1, <1>1, <1>2, <1>3 DEF Rounds, Without, w
  <2>3. \A i \in DOMAIN w : GoodMessage(u, w[i])
    BY <1>1, <1>4, <1>f DEF Rounds, GoodMessage, w
  <2>4. u.rollover.status = "opening" => Reached(u, Lower(u.rollover.round))
    BY <1>1, <1>f DEF Rounds, SameCommands
  <2>5. Active(u) => Reached(u, u.round)
    <3>1. CASE t.round = s.round
      BY <3>1, <1>1, <1>3, <1>f, LowerFacts DEF GoodTurn
    <3>2. CASE t.round # s.round
      BY <3>2, <1>1, <1>f DEF Rounds, t
    <3> QED BY <3>1, <3>2
  <2> QED BY <2>2, <2>3, <2>4, <2>5, <1>2 DEF Rounds
<1>6. Covered(u, r, w, k)
  BY <1>1, <1>f DEF Covered, NoneAwaited, w
<1>7. Based(u, r, w)
  BY <1>2 DEF Based
<1>8. Issued(u, I)
  <2>1. Known(s, I, t.rid) /\ (s.notSent.of # None => Known(s, I, s.notSent.of))
    BY <1>10 DEF Issued, Known
  <2>2. u.notSent.of # None => Known(u, I, u.notSent.of)
    BY <1>1, <1>f, <2>1
  <2>3. \A x \in u.abandoned : x.rid \in DOMAIN I
    BY <1>1, <2>1 DEF Issued, Without, Known
  <2> QED BY <1>1, <1>2, <2>2, <2>3 DEF Issued, SameCommands
<1>9. Closed(u) /\ Backed(u, T) /\ T[u.gen] = w
  BY <1>1, <1>f DEF SameCommands, w
<1> QED BY <1>1, <1>2, <1>5, <1>6, <1>7, <1>8, <1>9, <1>f

LEMMA NotSentLasting ==
    ASSUME NEW s, GoodRun(s), NEW q, NEW r, Confirms(q) => Confirms(r), NEW T, NEW k, NEW I, Lasting(s, q, T, k, I),
           NEW t, Known(s, I, t.rid), NEW base, NEW u, u = TurnNotSentConfirmed(s, t, base)
    PROVE  /\ Lasting(u, r, T, k, I) /\ SameCommands(s, u)
           /\ u.pending = s.pending /\ u.abandoned = s.abandoned /\ u.round = s.round
<1> USE DEF Lasting
<1> DEFINE w == T[s.gen]
<1>1. /\ SameCommands(s, u) /\ u.pending = s.pending /\ u.abandoned = s.abandoned /\ u.round = s.round
      /\ u.notSent = RecoveryOf(s, t, base)
  BY DEF TurnNotSentConfirmed, GoodRun, Runs, SameCommands
<1>f. /\ \A x : Commanded(u, x) <=> Commanded(s, x)
      /\ \A x : Reached(u, x) <=> Reached(s, x)
      /\ \A x : Used(u, x) <=> Used(s, x)
      /\ \A m : Awaited(u, m) <=> Awaited(s, m)
      /\ Active(u) <=> Active(s)
      /\ Closed(u) /\ Backed(u, T)
      /\ \A x : Known(u, I, x) <=> Known(s, I, x)
  BY <1>1, SameFacts
<1>2. u.notSent.of = t.rid
  BY <1>1 DEF RecoveryOf
<1>3. Behind(u) <=> Behind(s)
  BY <1>1, <1>f DEF Behind
<1>4. T[u.gen] = w
  BY <1>1 DEF SameCommands
<1> HIDE DEF w
<1>5. Rounds(u, w)
  BY <1>1, <1>3, <1>f DEF Rounds, GoodTurn, GoodMessage, SameCommands, w
<1>6. Covered(u, r, w, k)
  BY <1>1, <1>f DEF Covered, w
<1>7. Based(u, r, w)
  BY <1>1 DEF Based, Only, w
<1>8. Issued(u, I)
  BY <1>1, <1>2, <1>f DEF Issued, SameCommands
<1> QED BY <1>1, <1>4, <1>5, <1>6, <1>7, <1>8, <1>f

\* A turn is given up for another one, whose answer has come.
LEMMA SelectedLasting ==
    ASSUME NEW s, GoodRun(s), NEW q, NEW r, Confirms(q) => Confirms(r), NEW T, NEW k, NEW I, Lasting(s, q, T, k, I),
           NEW ev \in Abandonments, ~ev.unconsumed, ev.reason = "operator_selected", GoodTurn(s, ev.turn), ev.turn.rid \in DOMAIN I,
           NEW e \in s.pending, e.rid # ev.turn.rid, e.sub # "requested", ~Commanded(s, e.round),
           HasAnswer(T[s.gen], e.rid, e.round), NEW u, u = Reduce(s, ev), GoodRun(u)
    PROVE  /\ Lasting(u, r, T, k, I) /\ SameCommands(s, u)
           /\ u.pending = Without(s.pending, ev.turn.rid) /\ (Behind(u) => Behind(s))
<1> USE DEF Lasting
<1> DEFINE w == T[s.gen]
           t == ev.turn
<1>1. /\ SameCommands(s, u) /\ u.abandoned = Without(s.abandoned, t.rid) \cup {t} /\ u.round = s.round
      /\ u.pending = Without(s.pending, t.rid) /\ u.notSent.of = s.notSent.of
  BY AbandonedFields
<1>f. /\ \A x : Commanded(u, x) <=> Commanded(s, x)
      /\ \A x : Reached(u, x) <=> Reached(s, x)
      /\ \A x : Used(u, x) <=> Used(s, x)
      /\ \A m : Awaited(u, m) <=> Awaited(s, m)
      /\ Active(u) <=> Active(s)
      /\ Closed(u) /\ Backed(u, T)
      /\ \A x : Known(u, I, x) <=> Known(s, I, x)
  BY <1>1, SameFacts
<1>2. e \in u.pending /\ u.pending \subseteq s.pending
  BY <1>1 DEF Without
<1>3. Behind(u) => Behind(s)
  BY <1>1, <1>2, <1>f DEF Behind
<1>4. ~Behind(s)
  <2>1. PICK i \in DOMAIN w : w[i].round = e.round
    BY DEF HasAnswer
  <2>2. GoodMessage(s, w[i])
    BY DEF Rounds
  <2> QED BY <2>1, <2>2 DEF GoodMessage
<1>5. \A x \in s.pending : x.round = e.round
  <2> SUFFICES ASSUME NEW x \in s.pending PROVE x.round = e.round
    OBVIOUS
  <2>1. /\ x.round \in 1..MaxRounds /\ Reached(s, x.round - 1)
        /\ e.round \in 1..MaxRounds /\ Reached(s, e.round - 1)
    BY PendingGood
  <2>2. ~Commanded(s, x.round)
    BY <1>4 DEF Behind
  <2> QED BY <2>1, <2>2, SameRound
<1> HIDE DEF w, t
<1>6. Rounds(u, w)
  <2>1. ASSUME NEW x, GoodTurn(s, x) PROVE GoodTurn(u, x)
    BY <2>1, <1>1, <1>3, <1>f DEF GoodTurn, SameCommands
  <2>2. \A x \in u.pending \cup u.abandoned : GoodTurn(u, x)
    BY <2>1, <1>1, <1>2 DEF Rounds, Without, w, t
  <2>3. \A i \in DOMAIN w : GoodMessage(u, w[i])
    BY <1>3, <1>f DEF Rounds, GoodMessage, w
  <2>4. u.rollover.status = "opening" => Reached(u, Lower(u.rollover.round))
    BY <1>1, <1>f DEF Rounds, SameCommands
  <2>5. Active(u) => Reached(u, u.round) \/ \E x \in u.pending : x.round = u.round
    BY <1>1, <1>2, <1>5, <1>f DEF Rounds
  <2>6. \A x, v \in u.pending : x.rid = v.rid => x.round = v.round
    BY <1>2, <1>5
  <2> QED BY <2>2, <2>3, <2>4, <2>5, <2>6 DEF Rounds
<1>7. Covers(e, w)
  BY DEF Covers, HasAnswer, Shows, w
<1>8. Covered(u, r, w, k)
  BY <1>2, <1>7, <1>f DEF Covered, w
<1>9. Based(u, r, w)
  <2>1. \A x \in u.pending : Only(u, x.rid) => HasAnswer(w, x.rid, x.round)
    BY <1>2, <1>5 DEF Only, w
  <2> QED BY <2>1 DEF Based
<1>10. Issued(u, I)
  <2>1. \A x \in u.pending \cup u.abandoned : x.rid \in DOMAIN I
    BY <1>1, <1>2 DEF Issued, Without, t
  <2> QED BY <1>1, <1>2, <1>f, <2>1 DEF Issued, SameCommands
<1>11. Closed(u) /\ Backed(u, T) /\ T[u.gen] = w
  BY <1>1, <1>f DEF SameCommands, w
<1> QED BY <1>1, <1>3, <1>6, <1>8, <1>9, <1>10, <1>11 DEF t

WithCommand(s, ev) == Append(s.commands, [rid |-> ev.rid, round |-> ev.round])

Accepts(s, ev, u) ==
    /\ u.commands = WithCommand(s, ev)
    /\ u.pending = Without(s.pending, ev.rid)
    /\ u.abandoned = s.abandoned /\ u.round = s.round /\ u.gen = s.gen /\ u.answered = s.answered
    /\ u.rollover = s.rollover /\ u.status = s.status
    /\ u.notSent.of \in {None, s.notSent.of} /\ (u.notSent.of = None \/ u.notSent.of # ev.rid)

LEMMA AcceptedFields ==
    ASSUME NEW s, GoodRun(s), NEW ev \in Acceptances, NEW u, u = Reduce(s, ev)
    PROVE  Accepts(s, ev, u)
<1>1. u = CommandAccepted(s, ev.rid, ev.round, ev.action)
  BY DEF Reduce, Acceptances
<1>2. u.notSent = IF ev.rid \in {s.notSent.of, s.notSent.retry} THEN NoRecovery ELSE s.notSent
  BY <1>1 DEF CommandAccepted, GoodRun, Runs
<1>3. u.notSent.of \in {None, s.notSent.of} /\ (u.notSent.of = None \/ u.notSent.of # ev.rid)
  BY <1>2 DEF NoRecovery
<1>4. /\ u.commands = WithCommand(s, ev)
      /\ u.pending = Without(s.pending, ev.rid)
      /\ u.abandoned = s.abandoned /\ u.round = s.round /\ u.gen = s.gen /\ u.answered = s.answered
      /\ u.rollover = s.rollover /\ u.status = s.status
  BY <1>1 DEF CommandAccepted, GoodRun, Runs, WithCommand
<1> QED BY <1>3, <1>4 DEF Accepts

Appends(s, ev, u) ==
    /\ Len(s.commands) \in Nat /\ DOMAIN s.commands = 1..Len(s.commands)
    /\ Len(u.commands) = Len(s.commands) + 1 /\ DOMAIN u.commands = 1..(Len(s.commands) + 1)
    /\ \A n \in 1..Len(s.commands) : u.commands[n] = s.commands[n]
    /\ u.commands[Len(s.commands) + 1].rid = ev.rid
    /\ u.commands[Len(s.commands) + 1].round = ev.round
    /\ \A r : Commanded(u, r) <=> Commanded(s, r) \/ r = ev.round
    /\ \A r : Used(u, r) <=> Used(s, r) \/ r = ev.rid

LEMMA AppendedCommand ==
    ASSUME NEW s, GoodRun(s), NEW ev, NEW u, u.commands = WithCommand(s, ev)
    PROVE  Appends(s, ev, u)
<1> DEFINE S == [rid : Ids, round : 1..MaxRounds]
           e == [rid |-> ev.rid, round |-> ev.round]
<1>1. s.commands \in Seq(S) /\ u.commands = Append(s.commands, e)
  BY Fields DEF Accepted, WithCommand
<1> HIDE DEF S, e
<1>2. /\ Len(s.commands) \in Nat /\ DOMAIN s.commands = 1..Len(s.commands)
      /\ Len(u.commands) = Len(s.commands) + 1 /\ DOMAIN u.commands = 1..(Len(s.commands) + 1)
      /\ \A n \in 1..Len(s.commands) : u.commands[n] = s.commands[n]
      /\ u.commands[Len(s.commands) + 1] = e
  BY <1>1
<1>3. e.rid = ev.rid /\ e.round = ev.round
  BY DEF e
<1> HIDE <1>1
<1>4. \A n \in 1..(Len(s.commands) + 1) : n \in 1..Len(s.commands) \/ n = Len(s.commands) + 1
  BY <1>2
<1>5. Len(s.commands) + 1 \in 1..(Len(s.commands) + 1) /\ 1..Len(s.commands) \subseteq 1..(Len(s.commands) + 1)
  BY <1>2
<1>6. \A r : Commanded(u, r) <=> Commanded(s, r) \/ r = ev.round
  BY <1>2, <1>3, <1>4, <1>5 DEF Commanded
<1>7. \A r : Used(u, r) <=> Used(s, r) \/ r = ev.rid
  BY <1>2, <1>3, <1>4, <1>5 DEF Used
<1> QED BY <1>2, <1>3, <1>6, <1>7 DEF Appends

\* The command of the only request is accepted: all the turns and messages of the
\* conversation then have their command.
LEMMA AcceptedLasting ==
    ASSUME NEW s, GoodRun(s), NEW q, NEW r, NEW T, NEW k, NEW I, Lasting(s, q, T, k, I), s.gen \in 1..MaxGen,
           NEW ev \in Acceptances, Only(s, ev.rid), NEW e \in s.pending, e.rid = ev.rid, e.round = ev.round,
           HasAnswer(T[s.gen], ev.rid, ev.round), NEW u, u = Reduce(s, ev), GoodRun(u)
    PROVE  Lasting(u, r, T, k, I) /\ u.pending = {} /\ (Active(u) <=> Active(s)) /\ u.gen = s.gen
<1>0. Accepts(s, ev, u)
  BY AcceptedFields
<1>1. /\ u.commands = WithCommand(s, ev) /\ u.pending = Without(s.pending, ev.rid)
      /\ u.abandoned = s.abandoned /\ u.round = s.round /\ u.gen = s.gen /\ u.answered = s.answered
      /\ u.rollover = s.rollover /\ u.status = s.status
      /\ u.notSent.of \in {None, s.notSent.of} /\ (u.notSent.of = None \/ u.notSent.of # ev.rid)
  BY <1>0 DEF Accepts
<1>a. Appends(s, ev, u)
  BY <1>1, AppendedCommand
<1>2. /\ Len(s.commands) \in Nat /\ DOMAIN s.commands = 1..Len(s.commands)
      /\ Len(u.commands) = Len(s.commands) + 1 /\ DOMAIN u.commands = 1..(Len(s.commands) + 1)
      /\ \A n \in 1..Len(s.commands) : u.commands[n] = s.commands[n]
      /\ u.commands[Len(s.commands) + 1].rid = ev.rid
      /\ u.commands[Len(s.commands) + 1].round = ev.round
  BY <1>a DEF Appends
<1>3. /\ \A x : Commanded(u, x) <=> Commanded(s, x) \/ x = ev.round
      /\ \A x : Used(u, x) <=> Used(s, x) \/ x = ev.rid
  BY <1>a DEF Appends
<1> DEFINE w == T[s.gen]
<1>4. /\ Closed(s) /\ Backed(s, T) /\ Issued(s, I) /\ Rounds(s, w)
      /\ GoodTurn(s, e) /\ ev.round \in 1..MaxRounds /\ Reached(s, ev.round - 1)
  BY PendingGood DEF Lasting
<1>5. u.pending = {}
  BY <1>1 DEF Only, Without
<1>6. \A x : Reached(s, x) => Reached(u, x)
  BY <1>3 DEF Reached
<1>7. ASSUME NEW x \in 1..MaxRounds, Reached(s, x - 1), Behind(s) => Commanded(s, x) PROVE Commanded(u, x)
  <2>1. CASE Commanded(s, ev.round)
    BY <2>1, <1>7, <1>3 DEF Behind
  <2>2. CASE ~Commanded(s, ev.round)
    BY <2>2, <1>7, <1>3, <1>4, SameRound
  <2> QED BY <2>1, <2>2
<1> HIDE DEF w
<1>8. Closed(u)
  <2>1. ASSUME NEW n \in 1..Len(s.commands), NEW x \in 1..s.commands[n].round PROVE Commanded(s, x)
    BY <2>1, <1>2, <1>4 DEF Closed
  <2>2. ASSUME NEW x \in 1..ev.round PROVE Commanded(u, x)
    <3>1. CASE x = ev.round
      BY <3>1, <1>3
    <3>2. CASE x # ev.round
      <4>1. x \in 1..MaxRounds /\ ev.round - 1 \in Nat /\ ev.round - 1 >= x /\ ev.round - 1 # 0
        BY <3>2, <1>4, TurnAssumption
      <4> QED BY <4>1, <1>3, <1>4, Below DEF Reached
    <3> QED BY <3>1, <3>2
  <2>3. ASSUME NEW n \in 1..(Len(s.commands) + 1), NEW x \in 1..u.commands[n].round PROVE Commanded(u, x)
    <3>1. n \in 1..Len(s.commands) \/ n = Len(s.commands) + 1
      BY <1>2
    <3> QED BY <3>1, <2>1, <2>2, <2>3, <1>2, <1>3
  <2> QED BY <2>3, <1>2 DEF Closed
<1>9. Backed(u, T)
  <2>1. \A n \in 1..Len(s.commands) : s.commands[n].rid # ev.rid
    BY <1>2, <1>4 DEF Issued, Used
  <2>2. \A m, n \in DOMAIN u.commands : u.commands[m].rid = u.commands[n].rid => m = n
    <3>1. \A n \in 1..(Len(s.commands) + 1) : n \in 1..Len(s.commands) \/ n = Len(s.commands) + 1
      BY <1>2
    <3>2. \A m, n \in 1..Len(s.commands) : s.commands[m].rid = s.commands[n].rid => m = n
      BY <1>2, <1>4 DEF Backed
    <3>3. ASSUME NEW n \in 1..Len(s.commands) PROVE u.commands[n].rid # ev.rid /\ u.commands[n].rid = s.commands[n].rid
      BY <2>1, <1>2
    <3> QED BY <3>1, <3>2, <3>3, <1>2
  <2>3. ASSUME NEW n \in DOMAIN u.commands
        PROVE  \E g \in 1..MaxGen : HasAnswer(T[g], u.commands[n].rid, u.commands[n].round)
    <3>1. n \in 1..Len(s.commands) \/ n = Len(s.commands) + 1
      BY <1>2
    <3> QED BY <3>1, <1>2, <1>4 DEF Backed
  <2>4. \A g \in 1..MaxGen : g > u.gen => T[g] = <<>>
    BY <1>1, <1>4 DEF Backed
  <2> QED BY <2>2, <2>3, <2>4 DEF Backed
<1>10. Issued(u, I)
  <2>1. ev.rid \in DOMAIN I /\ I[ev.rid].after \in 0..Len(s.commands)
    BY <1>4 DEF Issued
  <2>2. \A n \in DOMAIN u.commands : u.commands[n].rid \in DOMAIN I /\ I[u.commands[n].rid].after < n
    <3>1. \A n \in 1..(Len(s.commands) + 1) : n \in 1..Len(s.commands) \/ n = Len(s.commands) + 1
      BY <1>2
    <3>2. ASSUME NEW n \in 1..Len(s.commands)
          PROVE  u.commands[n].rid \in DOMAIN I /\ I[u.commands[n].rid].after < n
      BY <1>2, <1>4 DEF Issued
    <3>3. LET n == Len(s.commands) + 1 IN u.commands[n].rid \in DOMAIN I /\ I[u.commands[n].rid].after < n
      BY <2>1, <1>2
    <3> QED BY <3>1, <3>2, <3>3, <1>2
  <2>3. \A i \in DOMAIN I : I[i].after \in 0..Len(u.commands)
    <3>1. \A i \in DOMAIN I : I[i].after \in 0..Len(s.commands)
      BY <1>4 DEF Issued
    <3>2. 0..Len(s.commands) \subseteq 0..Len(u.commands)
      BY <1>2
    <3> QED BY <3>1, <3>2
  <2>4. u.notSent.of # None => Known(u, I, u.notSent.of)
    BY <1>1, <1>3, <1>4 DEF Issued, Known
  <2> QED BY <2>2, <2>3, <2>4, <1>1, <1>4, <1>5 DEF Issued
<1>11. \A i \in DOMAIN w : GoodMessage(s, w[i]) /\ Commanded(u, w[i].round)
  <2> SUFFICES ASSUME NEW i \in DOMAIN w PROVE GoodMessage(s, w[i]) /\ Commanded(u, w[i].round)
    OBVIOUS
  <2>1. GoodMessage(s, w[i])
    BY <1>4 DEF Rounds
  <2> QED BY <2>1, <1>7 DEF GoodMessage
<1>12. ASSUME NEW t \in u.abandoned PROVE GoodTurn(u, t)
  <2>1. GoodTurn(s, t) /\ t \in Turn
    BY <1>1, <1>4 DEF Rounds, GoodTurn
  <2>2. t.gen = s.gen => Commanded(u, t.round)
    BY <2>1, <1>7, TurnFields DEF GoodTurn
  <2> QED BY <2>1, <2>2, <1>1, <1>6 DEF GoodTurn
<1>13. Rounds(u, w)
  <2>1. \A i \in DOMAIN w : GoodMessage(u, w[i])
    BY <1>6, <1>11 DEF GoodMessage
  <2>2. u.rollover.status = "opening" => Reached(u, Lower(u.rollover.round))
    BY <1>1, <1>4, <1>6 DEF Rounds
  <2>3. Active(u) => Reached(u, u.round)
    <3>1. Active(s) => Reached(s, s.round) \/ s.round = ev.round
      BY <1>4 DEF Rounds, Only
    <3> QED BY <3>1, <1>1, <1>3, <1>6 DEF Active, Reached
  <2> QED BY <2>1, <2>2, <2>3, <1>5, <1>12 DEF Rounds
<1>14. Covered(u, r, w, k)
  BY <1>11 DEF Covered, Awaited
<1>15. Based(u, r, w)
  BY <1>5 DEF Based
<1> QED BY <1>1, <1>5, <1>8, <1>9, <1>10, <1>13, <1>14, <1>15 DEF Lasting, w, Active

\* The operator confirms a message of a turn that no command has superseded.
LEMMA ManualLasting ==
    ASSUME NEW s, GoodRun(s), NEW q, NEW r, NEW T, NEW k, NEW I, Lasting(s, q, T, k, I), Confirms(q),
           NEW t, GoodTurn(s, t), t.gen = s.gen, ~Commanded(s, t.round), Known(s, I, t.rid),
           NEW u, u = ManualSubmissionConfirmed(s, t), GoodRun(u)
    PROVE  Lasting(u, r, T, k, I) /\ (Active(u) <=> Active(s)) /\ u.gen = s.gen
<1> DEFINE w == T[s.gen]
           v == [t EXCEPT !.sub = "submitted", !.manual = TRUE]
<1>1. /\ SameCommands(s, u) /\ u.round = s.round /\ u.notSent = s.notSent
      /\ u.pending = Without(s.pending, t.rid) \cup {v} /\ u.abandoned = Without(s.abandoned, t.rid)
  BY DEF ManualSubmissionConfirmed, GoodRun, Runs, SameCommands
<1>f. /\ \A x : Commanded(u, x) <=> Commanded(s, x)
      /\ \A x : Reached(u, x) <=> Reached(s, x)
      /\ \A x : Used(u, x) <=> Used(s, x)
      /\ \A m : Awaited(u, m) <=> Awaited(s, m)
      /\ Active(u) <=> Active(s)
      /\ Closed(s) => Closed(u)
      /\ Backed(s, T) => Backed(u, T)
      /\ \A x : Known(u, I, x) <=> Known(s, I, x)
  BY <1>1, SameFacts
<1>2. /\ v.rid = t.rid /\ v.round = t.round /\ v.gen = t.gen /\ v.sub = "submitted" /\ v.manual
      /\ v \in Turn /\ t.round \in 1..MaxRounds /\ Reached(s, t.round - 1)
  BY TurnFields DEF GoodTurn, Turn, Turns
<1> HIDE DEF w, v
<1>3. Closed(s) /\ Backed(s, T) /\ Issued(s, I) /\ Rounds(s, w) /\ Covered(s, q, w, k)
  BY DEF Lasting, w
<1>4. ~Behind(s) /\ ~Behind(u)
  <2>1. ~Behind(s)
    BY DEF GoodTurn
  <2> QED BY <2>1, <1>1, <1>2, <1>f DEF Behind, Without
<1>5. Issued(u, I)
  BY <1>1, <1>2, <1>3, <1>f DEF Issued, Known, SameCommands, Without
<1>6. Rounds(u, w)
  <2>1. ASSUME NEW x, GoodTurn(s, x) PROVE GoodTurn(u, x)
    BY <2>1, <1>1, <1>4, <1>f DEF GoodTurn, SameCommands
  <2>2. GoodTurn(u, v)
    BY <1>1, <1>2, <1>4, <1>f DEF GoodTurn, SameCommands
  <2>3. \A x \in u.pending \cup u.abandoned : GoodTurn(u, x)
    BY <2>1, <2>2, <1>1, <1>3 DEF Rounds, Without
  <2>4. \A x, y \in u.pending : x.rid = y.rid => x.round = y.round
    BY <1>1, <1>2, <1>3 DEF Rounds, Without
  <2>5. \A i \in DOMAIN w : GoodMessage(u, w[i])
    BY <1>3, <1>4, <1>f DEF Rounds, GoodMessage
  <2>6. u.rollover.status = "opening" => Reached(u, Lower(u.rollover.round))
    BY <1>1, <1>3, <1>f DEF Rounds, SameCommands
  <2>7. Active(u) => Reached(u, u.round) \/ \E x \in u.pending : x.round = u.round
    <3> SUFFICES ASSUME Active(s), ~Reached(s, s.round) PROVE \E x \in u.pending : x.round = u.round
      BY <1>1, <1>f
    <3>1. PICK x \in s.pending : x.round = s.round
      BY <1>3 DEF Rounds
    <3>2. CASE x.rid # t.rid
      BY <3>1, <3>2, <1>1 DEF Without
    <3>3. CASE x.rid = t.rid
      <4>1. x.round \in 1..MaxRounds /\ Reached(s, x.round - 1) /\ ~Commanded(s, x.round)
        BY <1>3, <1>4, PendingGood DEF Behind
      <4>2. x.round = t.round
        BY <4>1, <1>2, <1>3, SameRound
      <4> QED BY <3>1, <4>2, <1>1, <1>2
    <3> QED BY <3>2, <3>3
  <2> QED BY <2>3, <2>4, <2>5, <2>6, <2>7 DEF Rounds
<1>7. Covered(u, r, w, k)
  <2>1. v \in u.pending /\ Covers(v, w)
    BY <1>1, <1>2 DEF Covers
  <2> QED BY <2>1, <1>3, <1>f DEF Covered
<1>8. Based(u, r, w)
  <2>1. \A x \in u.pending : Only(u, x.rid) => x.manual
    BY <1>1, <1>2 DEF Only, Without
  <2> QED BY <2>1 DEF Based
<1> QED BY <1>1, <1>3, <1>5, <1>6, <1>7, <1>8, <1>f DEF Lasting, w, SameCommands

-----------------------------------------------------------------------------
(* Appending the first of the events that wait                             *)

Shorter(q, r) ==
    /\ Len(q) \in Nat /\ Len(q) > 0 /\ Len(r) = Len(q) - 1 /\ Len(r) \in Nat
    /\ DOMAIN q = 1..Len(q) /\ DOMAIN r = 1..Len(r) /\ 1 \in DOMAIN q
    /\ \A i \in DOMAIN r : i + 1 \in DOMAIN q /\ r[i] = q[i + 1]
    /\ \A i \in 1..Len(r) : i + 1 \in 1..Len(q) /\ r[i] = q[i + 1]
    /\ \A i \in 1..Len(q) : i = 1 \/ (i - 1 \in 1..Len(r) /\ q[i] = r[i - 1])
    /\ r = <<>> <=> Len(q) = 1
    /\ Len(q) # 1 => 1 # Len(q) /\ Len(r) # 0 /\ r[Len(r)] = q[Len(q)] /\ 1 \in 1..(Len(q) - 1)
    /\ \A i \in 1..(Len(r) - 1) : i + 1 \in 1..(Len(q) - 1) /\ r[i] = q[i + 1]
    /\ \A i \in 1..(Len(q) - 1) : i = 1 \/ (i - 1 \in 1..(Len(r) - 1) /\ q[i] = r[i - 1])

LEMMA TailShorter ==
    ASSUME NEW S, NEW q \in Seq(S), q # <<>>
    PROVE  Shorter(q, Tail(q)) /\ Head(q) = q[1] /\ q[1] \in S /\ q[Len(q)] \in S /\ Tail(q) \in Seq(S)
<1>1. Len(q) \in Nat /\ DOMAIN q = 1..Len(q) /\ Len(q) > 0 /\ Tail(q) \in Seq(S)
  OBVIOUS
<1>2. /\ Len(Tail(q)) = Len(q) - 1 /\ DOMAIN Tail(q) = 1..Len(Tail(q))
      /\ \A i \in 1..(Len(q) - 1) : Tail(q)[i] = q[i + 1]
  OBVIOUS
<1>3. Tail(q) = <<>> <=> Len(q) = 1
  <2>1. Tail(q) = <<>> <=> Len(Tail(q)) = 0
    BY <1>1, EmptySeq
  <2> QED BY <2>1, <1>1, <1>2
<1>4. Head(q) = q[1] /\ q[1] \in S /\ q[Len(q)] \in S
  BY <1>1
<1> DEFINE r == Tail(q)
<1>5. /\ Len(r) = Len(q) - 1 /\ Len(r) \in Nat /\ DOMAIN r = 1..Len(r)
      /\ \A i \in 1..(Len(q) - 1) : r[i] = q[i + 1]
      /\ r = <<>> <=> Len(q) = 1
  BY <1>1, <1>2, <1>3
<1> HIDE DEF r
<1>6. \A i \in 1..Len(r) : i + 1 \in 1..Len(q) /\ r[i] = q[i + 1]
  BY <1>1, <1>5
<1>7. \A i \in 1..Len(q) : i = 1 \/ (i - 1 \in 1..Len(r) /\ q[i] = r[i - 1])
  <2>1. ASSUME NEW i \in 1..Len(q), i # 1 PROVE i - 1 \in 1..Len(r) /\ i - 1 \in 1..(Len(q) - 1) /\ (i - 1) + 1 = i
    BY <2>1, <1>1, <1>5
  <2> QED BY <2>1, <1>5
<1>8. Len(q) # 1 => 1 # Len(q) /\ Len(r) # 0 /\ r[Len(r)] = q[Len(q)] /\ 1 \in 1..(Len(q) - 1)
  <2>1. Len(q) # 1 => Len(r) \in 1..(Len(q) - 1) /\ Len(r) + 1 = Len(q) /\ Len(r) # 0 /\ 1 \in 1..(Len(q) - 1)
    BY <1>1, <1>5
  <2> QED BY <2>1, <1>5
<1>9. \A i \in 1..(Len(r) - 1) : i + 1 \in 1..(Len(q) - 1) /\ r[i] = q[i + 1]
  BY <1>1, <1>5
<1>10. \A i \in 1..(Len(q) - 1) : i = 1 \/ (i - 1 \in 1..(Len(r) - 1) /\ q[i] = r[i - 1])
  <2>1. ASSUME NEW i \in 1..(Len(q) - 1), i # 1 PROVE i - 1 \in 1..(Len(r) - 1) /\ i \in 1..Len(q)
    BY <2>1, <1>1, <1>5
  <2> QED BY <2>1, <1>7
<1>11. 1 \in DOMAIN q
  BY <1>1
<1>12. Shorter(q, r)
  BY <1>1, <1>5, <1>6, <1>7, <1>8, <1>9, <1>10, <1>11 DEF Shorter
<1> QED BY <1>1, <1>4, <1>12 DEF r

LEMMA EventTypes ==
    ASSUME NEW ev \in Events
    PROVE  /\ ev.type = "abandoned" => ev \in Abandonments
           /\ ev.type = "accepted" => ev \in Acceptances
           /\ ev.type = "manual" => ev \in [type : {"requested", "manual", "waiting"}, turn : Turn]
           /\ ev.type = "not_sent" => ev \in [type : {"not_sent"}, turn : Turn, base : Nat]
  BY DEF Events, CalmEvents, Rearmings, Acceptances, Abandonments

LEMMA GoingSound ==
    ASSUME NEW s, GoodRun(s), NEW q, NEW r, Shorter(q, r), NEW T, NEW k, NEW I, NEW p, NEW c,
           Lasting(s, q, T, k, I), Ending(s, q, p), Going(s, q, T[s.gen], k, p, c),
           NEW u, u = Reduce(s, q[1]), GoodRun(u)
    PROVE  Sound(u, r, p, c, T, k, I)
<1>1. Quiet(q[1]) /\ AllQuiet(r)
  <2>1. AllQuiet(q)
    BY DEF Going
  <2> QED BY <2>1 DEF AllQuiet, Shorter
<1>2. Active(s) \/ q[1].type = "executed"
  BY DEF Ending, Shorter
<1>3. Kept(s, u)
  BY <1>1, <1>2, QuietKept
<1>4. ~Confirms(q)
  BY DEF Going, AllQuiet, Quiet, QuietTypes, Confirms
<1>5. Lasting(u, r, T, k, I)
  BY <1>3, <1>4, KeptLasting
<1>6. u.gen = s.gen /\ (Active(u) <=> Active(s))
  BY <1>3 DEF Kept, SameLog
<1>7. q # <<>>
  BY DEF Shorter
<1>8. Going(u, r, T[u.gen], k, p, c)
  BY <1>1, <1>3, <1>6, <1>7, KeptGoing
<1>9. Ending(u, r, p)
  BY <1>6 DEF Ending, Shorter
<1> QED BY <1>5, <1>8, <1>9 DEF Sound, Course

\* Between two events the process does nothing.
LEMMA RestGoing ==
    ASSUME NEW s, NEW w, NEW k, NEW p, NEW c, p \in {"drive", "execute"} => s.pending = {},
           p \in {"drive", "execute"} \/ (p = "down" /\ c = NoTurn)
    PROVE  Going(s, <<>>, w, k, p, c)
  BY DEF Going, AllQuiet, AtRest, AtSending, AtAnswer, AtRetry, Sending

\* Events of a turn that is given up
LEMMA AbandoningSound ==
    ASSUME NEW s, GoodRun(s), NEW q, NEW r, Shorter(q, r), q[1] \in Events, NEW T, NEW k, NEW I, NEW p, NEW c,
           Lasting(s, q, T, k, I), Abandoning(s, q, T[s.gen], p, c),
           NEW u, u = Reduce(s, q[1]), GoodRun(u)
    PROVE  Sound(u, r, p, c, T, k, I)
<1> DEFINE w == T[s.gen]
           t == q[Len(q)].turn
<1>1. /\ p = "drive" \/ (p = "down" /\ c = NoTurn)
      /\ Active(s) /\ NoneAwaited(s, w)
      /\ q[Len(q)].type = "abandoned" /\ q[Len(q)].unconsumed
      /\ GoodTurn(s, t) /\ Only(s, t.rid) /\ \A x \in s.pending : x.round = t.round
      /\ \A i \in 1..(Len(q) - 1) : Quiet(q[i]) \/ (q[i].type = "not_sent" /\ q[i].turn = t)
  BY DEF Abandoning
<1>2. ~Confirms(q)
  <2>1. \A i \in 1..Len(q) : i = Len(q) \/ i \in 1..(Len(q) - 1)
    BY DEF Shorter
  <2> QED BY <2>1, <1>1 DEF Confirms, Quiet, QuietTypes, Shorter
<1>3. CASE Len(q) = 1
  <2>1. q[1] \in Abandonments
    BY <1>1, <1>3, EventTypes
  <2>2. Lasting(u, r, T, k, I) /\ u.pending = {} /\ (Active(u) <=> Active(s))
    BY <1>1, <1>3, <2>1, AbandonedLasting
  <2>3. r = <<>>
    BY <1>3 DEF Shorter
  <2> QED BY <1>1, <2>2, <2>3, RestGoing DEF Sound, Course, Ending
<1>4. ASSUME Len(q) # 1, u.gen = s.gen, Active(u), GoodTurn(u, t), Only(u, t.rid), NoneAwaited(u, w),
             \A x \in u.pending : x.round = t.round, Lasting(u, r, T, k, I)
      PROVE  Sound(u, r, p, c, T, k, I)
  <2>1. r # <<>> /\ r[Len(r)] = q[Len(q)]
    BY <1>4 DEF Shorter
  <2>2. \A i \in 1..(Len(r) - 1) : Quiet(r[i]) \/ (r[i].type = "not_sent" /\ r[i].turn = t)
    BY <1>1 DEF Shorter
  <2>3. Abandoning(u, r, T[u.gen], p, c)
    BY <1>1, <1>4, <2>1, <2>2 DEF Abandoning
  <2> QED BY <1>4, <2>3 DEF Sound, Course, Ending
<1>5. CASE Len(q) # 1 /\ Quiet(q[1])
  <2>1. Kept(s, u)
    BY <1>1, <1>5, QuietKept
  <2>2. Lasting(u, r, T, k, I)
    BY <1>2, <2>1, KeptLasting
  <2>3. u.gen = s.gen /\ Active(u) /\ \A x \in u.pending : x.round = t.round
    BY <1>1, <2>1 DEF Kept, SameLog, Like
  <2>4. GoodTurn(u, t) /\ Only(u, t.rid) /\ NoneAwaited(u, w)
    BY <1>1, <2>1, KeptTurn, KeptCommands DEF NoneAwaited
  <2> QED BY <1>4, <1>5, <2>2, <2>3, <2>4
<1>6. CASE Len(q) # 1 /\ ~Quiet(q[1])
  <2>1. q[1].type = "not_sent" /\ q[1].turn = t
    BY <1>1, <1>6 DEF Shorter
  <2>2. u = TurnNotSentConfirmed(s, t, q[1].base)
    BY <2>1 DEF Reduce
  <2>3. PICK v \in s.pending : v.rid = t.rid
    BY <1>1 DEF Only
  <2>4. Known(s, I, t.rid)
    BY <2>3 DEF Lasting, Issued, Known
  <2>5. Lasting(u, r, T, k, I) /\ SameCommands(s, u) /\ u.pending = s.pending /\ u.round = s.round
    BY <1>2, <2>2, <2>4, NotSentLasting
  <2>6. /\ \A x : Commanded(u, x) <=> Commanded(s, x)
        /\ \A x : Reached(u, x) <=> Reached(s, x)
        /\ \A m : Awaited(u, m) <=> Awaited(s, m)
        /\ Active(u) <=> Active(s)
    BY <2>5, SameFacts
  <2>7. u.gen = s.gen /\ GoodTurn(u, t)
    BY <1>1, <2>5, <2>6 DEF GoodTurn, Behind, SameCommands
  <2> QED BY <1>1, <1>4, <1>6, <2>5, <2>6, <2>7 DEF Only, NoneAwaited
<1> QED BY <1>3, <1>5, <1>6

\* Events of an answer that is accepted
LEMMA AcceptingSound ==
    ASSUME NEW s, GoodRun(s), NEW q, NEW r, Shorter(q, r), q[1] \in Events, NEW T, NEW k, NEW I, NEW p, NEW c,
           Lasting(s, q, T, k, I), Accepting(s, q, T[s.gen], I, p, c),
           NEW u, u = Reduce(s, q[1]), GoodRun(u)
    PROVE  Sound(u, r, p, c, T, k, I)
<1> DEFINE w == T[s.gen]
           a == q[Len(q)]
<1>1. /\ p = "execute" \/ (p = "down" /\ c = NoTurn)
      /\ Active(s) /\ a.type = "accepted"
      /\ Len(q) = 1 \/ ~Commanded(s, a.round)
      /\ HasAnswer(w, a.rid, a.round)
      /\ \A i \in 1..(Len(q) - 1) :
            /\ q[i].type = "abandoned" /\ ~q[i].unconsumed /\ q[i].reason = "operator_selected"
            /\ GoodTurn(s, q[i].turn) /\ q[i].turn.rid # a.rid /\ q[i].turn.rid \in DOMAIN I
      /\ \A t \in s.pending : t.rid = a.rid \/ \E i \in 1..(Len(q) - 1) : q[i].turn.rid = t.rid
  BY DEF Accepting
<1>2. PICK e \in s.pending : e.rid = a.rid /\ e.round = a.round /\ e.sub # "requested"
  BY DEF Accepting
<1>3. ~Confirms(q)
  <2>1. \A i \in 1..Len(q) : i = Len(q) \/ i \in 1..(Len(q) - 1)
    BY DEF Shorter
  <2> QED BY <2>1, <1>1 DEF Confirms, Shorter
<1>4. CASE Len(q) = 1
  <2>1. q[1] = a /\ a \in Acceptances /\ 1..(Len(q) - 1) = {}
    BY <1>1, <1>4, EventTypes
  <2>2. Only(s, a.rid)
    BY <1>1, <1>2, <2>1 DEF Only
  <2>3. s.gen \in 1..MaxGen
    BY Fields
  <2> HIDE DEF a, w
  <2>4. Lasting(u, r, T, k, I) /\ u.pending = {} /\ (Active(u) <=> Active(s))
    BY <1>1, <1>2, <2>1, <2>2, <2>3, AcceptedLasting DEF w
  <2>5. r = <<>>
    BY <1>4 DEF Shorter
  <2> QED BY <1>1, <2>4, <2>5, RestGoing DEF Sound, Course, Ending
<1>5. CASE Len(q) # 1
  <2>1. 1 \in 1..(Len(q) - 1) /\ q[1] \in Abandonments
    BY <1>1, <1>5, EventTypes DEF Shorter
  <2>2. /\ ~q[1].unconsumed /\ q[1].reason = "operator_selected" /\ GoodTurn(s, q[1].turn)
        /\ q[1].turn.rid # a.rid /\ q[1].turn.rid \in DOMAIN I
    BY <1>1, <2>1
  <2>3. ~Commanded(s, e.round) /\ HasAnswer(w, e.rid, e.round)
    BY <1>1, <1>2, <1>5
  <2> DEFINE ev == q[1]
  <2>a. /\ ev \in Abandonments /\ ~ev.unconsumed /\ ev.reason = "operator_selected" /\ GoodTurn(s, ev.turn)
        /\ ev.turn.rid # e.rid /\ ev.turn.rid \in DOMAIN I /\ u = Reduce(s, ev)
    BY <1>2, <2>1, <2>2
  <2>b. HasAnswer(T[s.gen], e.rid, e.round)
    BY <2>3
  <2> HIDE DEF a, ev, w
  <2>c. Lasting(u, r, T, k, I) /\ SameCommands(s, u) /\ u.pending = Without(s.pending, ev.turn.rid) /\ (Behind(u) => Behind(s))
    BY <1>2, <1>3, <2>a, <2>b, <2>3, SelectedLasting
  <2>4. /\ Lasting(u, r, T, k, I) /\ SameCommands(s, u)
        /\ u.pending = Without(s.pending, q[1].turn.rid) /\ (Behind(u) => Behind(s))
    BY <2>c DEF ev
  <2>5. /\ \A x : Commanded(u, x) <=> Commanded(s, x)
        /\ \A x : Reached(u, x) <=> Reached(s, x)
        /\ Active(u) <=> Active(s)
    BY <2>4, SameFacts
  <2>6. u.gen = s.gen
    BY <2>4 DEF SameCommands
  <2>7. r # <<>> /\ r[Len(r)] = a
    BY <1>5 DEF Shorter, a
  <2>8. e \in u.pending
    BY <1>2, <2>2, <2>4 DEF Without
  <2>9. \A i \in 1..(Len(r) - 1) :
            /\ r[i].type = "abandoned" /\ ~r[i].unconsumed /\ r[i].reason = "operator_selected"
            /\ GoodTurn(u, r[i].turn) /\ r[i].turn.rid # a.rid /\ r[i].turn.rid \in DOMAIN I
    <3>1. \A t : GoodTurn(s, t) => GoodTurn(u, t)
      BY <2>4, <2>5, <2>6 DEF GoodTurn
    <3>2. \A i \in 1..(Len(r) - 1) : i + 1 \in 1..(Len(q) - 1) /\ r[i] = q[i + 1]
      BY DEF Shorter
    <3> QED BY <3>1, <3>2, <1>1
  <2>10. \A t \in u.pending : t.rid = a.rid \/ \E i \in 1..(Len(r) - 1) : r[i].turn.rid = t.rid
    <3> SUFFICES ASSUME NEW t \in u.pending, t.rid # a.rid PROVE \E i \in 1..(Len(r) - 1) : r[i].turn.rid = t.rid
      OBVIOUS
    <3>1. t \in s.pending /\ t.rid # q[1].turn.rid
      BY <2>4 DEF Without
    <3>2. PICK i \in 1..(Len(q) - 1) : q[i].turn.rid = t.rid
      BY <3>1, <1>1
    <3>3. i - 1 \in 1..(Len(r) - 1) /\ q[i] = r[i - 1]
      BY <3>1, <3>2 DEF Shorter
    <3> QED BY <3>2, <3>3
  <2> USE DEF w
  <2>11. Accepting(u, r, T[u.gen], I, p, c)
    BY <1>1, <1>2, <1>5, <2>5, <2>6, <2>7, <2>8, <2>9, <2>10 DEF Accepting
  <2> QED BY <1>1, <2>4, <2>5, <2>11 DEF Sound, Course, Ending
<1> QED BY <1>4, <1>5

\* Events of a confirmation by hand
LEMMA ConfirmingSound ==
    ASSUME NEW s, GoodRun(s), NEW q, NEW r, Shorter(q, r), q[1] \in Events, NEW T, NEW k, NEW I, NEW p, NEW c,
           Lasting(s, q, T, k, I), Confirming(s, q, I, p, c),
           NEW u, u = Reduce(s, q[1]), GoodRun(u)
    PROVE  Sound(u, r, p, c, T, k, I)
<1> DEFINE t == q[Len(q)].turn
<1>1. /\ p = "down" /\ c = NoTurn /\ Active(s) /\ q[Len(q)].type = "manual"
      /\ GoodTurn(s, t) /\ t.gen = s.gen /\ ~Commanded(s, t.round) /\ Known(s, I, t.rid)
      /\ \A i \in 1..(Len(q) - 1) : Quiet(q[i])
  BY DEF Confirming
<1>2. CASE Len(q) = 1
  <2>1. u = ManualSubmissionConfirmed(s, t)
    BY <1>1, <1>2 DEF Reduce
  <2>2. Confirms(q)
    BY <1>1, <1>2 DEF Confirms, Shorter
  <2> HIDE DEF t
  <2>3. Lasting(u, r, T, k, I) /\ (Active(u) <=> Active(s))
    BY <1>1, <2>1, <2>2, ManualLasting
  <2>4. r = <<>>
    BY <1>2 DEF Shorter
  <2> QED BY <1>1, <2>3, <2>4, RestGoing DEF Sound, Course, Ending
<1>3. CASE Len(q) # 1
  <2>1. Kept(s, u)
    BY <1>1, <1>3, QuietKept DEF Shorter
  <2>2. r # <<>> /\ r[Len(r)] = q[Len(q)] /\ Len(r) \in DOMAIN r
    BY <1>3 DEF Shorter
  <2>3. Confirms(r)
    BY <1>1, <2>2 DEF Confirms
  <2>4. Lasting(u, r, T, k, I)
    BY <2>1, <2>3, KeptLasting
  <2>5. \A i \in 1..(Len(r) - 1) : Quiet(r[i])
    BY <1>1 DEF Shorter
  <2>6. u.gen = s.gen /\ Active(u)
    BY <1>1, <2>1 DEF Kept, SameLog
  <2>7. GoodTurn(u, t) /\ ~Commanded(u, t.round) /\ Known(u, I, t.rid)
    BY <1>1, <2>1, KeptTurn, KeptCommands DEF Known
  <2>8. Confirming(u, r, I, p, c)
    BY <1>1, <2>2, <2>5, <2>6, <2>7 DEF Confirming
  <2> QED BY <2>4, <2>6, <2>8 DEF Sound, Course, Ending
<1> QED BY <1>2, <1>3

LEMMA AppendSound ==
    ASSUME NEW s, GoodRun(s), NEW q \in Seq(Events), q # <<>>, NEW T, NEW k, NEW I, NEW p, NEW c,
           Sound(s, q, p, c, T, k, I), NEW u, u = Reduce(s, Head(q)), GoodRun(u)
    PROVE  Sound(u, Tail(q), p, c, T, k, I)
<1> DEFINE r == Tail(q)
<1>1. Shorter(q, r) /\ Head(q) = q[1] /\ q[1] \in Events
  BY TailShorter
<1>2. u = Reduce(s, q[1])
  BY <1>1
<1> HIDE DEF r
<1>3. Lasting(s, q, T, k, I) /\ Ending(s, q, p)
  BY DEF Sound, Course
<1>4. CASE Going(s, q, T[s.gen], k, p, c)
  BY <1>1, <1>2, <1>3, <1>4, GoingSound DEF r
<1>5. CASE Abandoning(s, q, T[s.gen], p, c)
  BY <1>1, <1>2, <1>3, <1>5, AbandoningSound DEF r
<1>6. CASE Accepting(s, q, T[s.gen], I, p, c)
  BY <1>1, <1>2, <1>3, <1>6, AcceptingSound DEF r
<1>7. CASE Confirming(s, q, I, p, c)
  BY <1>1, <1>2, <1>3, <1>7, ConfirmingSound DEF r
<1> QED BY <1>4, <1>5, <1>6, <1>7 DEF Sound, Course

-----------------------------------------------------------------------------
(* Steps of the process                                                    *)

LEMMA AtPlace ==
    ASSUME Inv, Keeps, pc # "append"
    PROVE  /\ todo = <<>> /\ place = pc
           /\ Lasting(run, <<>>, talks, composer, issued)
           /\ Going(run, <<>>, Talk, composer, pc, cur)
           /\ pc \notin Archiving \cup {"down"} => Active(run)
<1>1. todo = <<>> /\ place = pc
  BY DEF Inv, TypeInv, place
<1>2. /\ Lasting(run, <<>>, talks, composer, issued) /\ Ending(run, <<>>, pc)
      /\ Going(run, <<>>, Talk, composer, pc, cur)
  BY <1>1 DEF Keeps, Sound, Course, Abandoning, Accepting, Confirming, Talk
<1> QED BY <1>1, <1>2 DEF Ending

LEMMA LastingWith ==
    ASSUME NEW s, GoodRun(s), NEW q, NEW T, NEW k, NEW I, Lasting(s, <<>>, T, k, I)
    PROVE  Lasting(s, q, T, k, I)
<1>1. ~Confirms(<<>>)
  BY DEF Confirms
<1>2. Kept(s, s)
  BY SettledKept
<1> QED BY <1>1, <1>2, KeptLasting

\* A composer that was emptied
LEMMA LastingEmptied ==
    ASSUME NEW s, NEW q, NEW T, NEW k, NEW l, NEW I, Lasting(s, q, T, k, I),
           l \in {k, EmptyComposer} \/ NoneAwaited(s, T[s.gen])
    PROVE  Lasting(s, q, T, l, I)
  BY DEF Lasting, Covered, NoneAwaited

LEMMA WriteTail ==
    ASSUME NEW events, NEW next, next # "append", Write(events, next),
           Sound(Reduce(run, Head(events)), Tail(events), next, cur', talks', composer', issued')
    PROVE  Keeps'
<1>1. todo' = Tail(events) /\ run' = Reduce(run, Head(events)) /\ place' = next
  BY DEF Write, place
<1> QED BY <1>1 DEF Keeps

LEMMA WriteSound ==
    ASSUME Inv, Inv', NEW events \in Seq(Events), events # <<>>, NEW next, next # "append", Write(events, next),
           Sound(run, events, next, cur', talks', composer', issued')
    PROVE  Keeps'
<1>1. GoodRun(run) /\ GoodRun(run') /\ run' = Reduce(run, Head(events))
  BY DEF Inv, TypeInv, Write
<1>2. Sound(run', Tail(events), next, cur', talks', composer', issued')
  BY <1>1, AppendSound
<1> QED BY <1>1, <1>2, WriteTail

\* The events leave the turns alone and the process goes on.
LEMMA QuietWrite ==
    ASSUME Inv, Inv', NEW S, NEW events \in Seq(S), events # <<>>, NEW next, next # "append", Write(events, next),
           Active(run), Lasting(run, <<>>, talks', composer', issued'),
           Going(run, events, talks'[run.gen], composer', next, cur')
    PROVE  Keeps'
<1> DEFINE rest == Tail(events)
<1>1. GoodRun(run) /\ GoodRun(run') /\ run' = Reduce(run, Head(events))
  BY DEF Inv, TypeInv, Write
<1>2. Shorter(events, rest) /\ Head(events) = events[1]
  BY TailShorter
<1>3. Lasting(run, events, talks', composer', issued')
  BY <1>1, LastingWith
<1>4. Ending(run, events, next)
  BY DEF Ending
<1>5. run' = Reduce(run, events[1])
  BY <1>1, <1>2
<1> HIDE DEF rest
<1>6. Sound(run', rest, next, cur', talks', composer', issued')
  BY <1>1, <1>2, <1>3, <1>4, <1>5, GoingSound
<1> QED BY <1>1, <1>6, WriteTail DEF rest

LEMMA GotoSound ==
    ASSUME Inv, NEW next, next # "append", Goto(next), pc # "append", Active(run) \/ next \in Archiving \cup {"down"},
           Lasting(run, <<>>, talks', composer', issued'), Going(run, <<>>, talks'[run.gen], composer', next, cur')
    PROVE  Keeps'
<1>1. todo = <<>>
  BY DEF Inv, TypeInv
<1>2. todo' = <<>> /\ run' = run /\ place' = next
  BY <1>1 DEF Goto, place, store
<1>3. Ending(run, <<>>, next)
  BY DEF Ending
<1> QED BY <1>2, <1>3 DEF Keeps, Sound, Course

LEMMA DownGoing ==
    ASSUME NEW s, NEW q, AllQuiet(q), NEW w, NEW k
    PROVE  Going(s, q, w, k, "down", NoTurn)
  BY DEF Going, AtRest, AtSending, AtAnswer, AtRetry, Sending

LEMMA GoingWith ==
    ASSUME NEW s, NEW q, AllQuiet(q), NEW w, NEW k, NEW p, p # "received", NEW c, Going(s, <<>>, w, k, p, c)
    PROVE  Going(s, q, w, k, p, c)
  BY DEF Going, AtAnswer

\* The call returns, with events that leave the turns alone.
Ends(events) ==
    /\ Inv /\ Inv' /\ Active(run) /\ Lasting(run, <<>>, talks', composer', issued')
    /\ events # <<>> /\ AllQuiet(events) /\ \E S : events \in Seq(S)

LEMMA ReturnSound == ASSUME NEW events, Ends(events), Return(events) PROVE Keeps'
<1>1. PICK S : events \in Seq(S)
  BY DEF Ends
<1>2. Write(events, "down") /\ cur' = NoTurn
  BY DEF Return
<1> QED BY <1>1, <1>2, DownGoing, QuietWrite DEF Ends

LEMMA Alone == ASSUME NEW e, Quiet(e) PROVE AllQuiet(<<e>>) /\ <<e>> # <<>> /\ \E S : <<e>> \in Seq(S)
<1>1. <<e>> \in Seq({e})
  OBVIOUS
<1>2. <<e>> # <<>>
  OBVIOUS
<1>3. AllQuiet(<<e>>)
  <2>1. \A i \in DOMAIN <<e>> : <<e>>[i] = e
    OBVIOUS
  <2> QED BY <2>1 DEF AllQuiet
<1> QED BY <1>1, <1>2, <1>3

LEMMA Together ==
    ASSUME NEW e, NEW f, Quiet(e), Quiet(f)
    PROVE  AllQuiet(<<e, f>>) /\ <<e, f>> # <<>> /\ \E S : <<e, f>> \in Seq(S)
<1>1. <<e, f>> \in Seq({e, f})
  OBVIOUS
<1>2. <<e, f>> # <<>>
  OBVIOUS
<1>3. AllQuiet(<<e, f>>)
  <2>1. \A i \in DOMAIN <<e, f>> : <<e, f>>[i] \in {e, f}
    OBVIOUS
  <2> QED BY <2>1 DEF AllQuiet
<1> QED BY <1>1, <1>2, <1>3

LEMMA FailSound ==
    ASSUME Inv, Inv', Active(run), Lasting(run, <<>>, talks', composer', issued'), NEW code, NEW rid, NEW sub,
           Fail(code, rid, sub)
    PROVE  Keeps'
<1>1. Quiet(FailedEvent(code, rid, sub))
  BY DEF Quiet, QuietTypes, FailedEvent
<1> QED BY <1>1, Alone, ReturnSound DEF Fail, Ends

LEMMA FailOfPendingSound ==
    ASSUME Inv, Inv', Active(run), Lasting(run, <<>>, talks', composer', issued'), NEW code, FailOfPending(code)
    PROVE  Keeps'
<1>1. \E rid, sub : Fail(code, rid, sub)
  BY DEF FailOfPending
<1> QED BY <1>1, FailSound

LEMMA ReturnNowSound ==
    ASSUME Inv, pc # "append", Lasting(run, <<>>, talks', composer', issued'), ReturnNow
    PROVE  Keeps'
<1>1. AllQuiet(<<>>)
  BY DEF AllQuiet
<1>2. Goto("down") /\ cur' = NoTurn
  BY DEF ReturnNow
<1> QED BY <1>1, <1>2, DownGoing, GotoSound

LEMMA EndSound ==
    ASSUME Inv, Inv', pc # "append", Active(run), Lasting(run, <<>>, talks', composer', issued'),
           NEW events, AllQuiet(events), NEW S, events \in Seq(S), End(events)
    PROVE  Keeps'
<1>1. CASE events = <<>>
  <2>1. ReturnNow
    BY <1>1 DEF End, WriteAll, ReturnNow
  <2> QED BY <2>1, ReturnNowSound
<1>2. CASE events # <<>>
  <2>1. Return(events)
    BY <1>2 DEF End, WriteAll, Return
  <2> QED BY <1>2, <2>1, ReturnSound DEF Ends
<1> QED BY <1>1, <1>2

-----------------------------------------------------------------------------
(* Asking                                                                  *)

\* The requests J are those of I and new ones of now.
Issuing(s, I, J) ==
    /\ J \in Seq([round : Nat, of : AnyId, after : Nat])
    /\ \A i \in DOMAIN I : i \in DOMAIN J /\ J[i] = I[i]
    /\ \A i \in DOMAIN J : J[i].after \in 0..Len(s.commands)

Asks(s, u, t, T, k, J) ==
    /\ Lasting(u, <<>>, T, k, J) /\ u.pending = {t} /\ u.gen = s.gen /\ NoneAwaited(u, T[s.gen])
    /\ Active(u) <=> Active(s)

LEMMA AskedLasting ==
    ASSUME NEW s, GoodRun(s), NEW T, NEW k, NEW I, NEW J, Lasting(s, <<>>, T, k, I), NoneAwaited(s, T[s.gen]),
           NEW t \in Turn, t.comp = "none", t.gen = s.gen, Reached(s, t.round - 1),
           Commanded(s, t.round) => Behind(s), \A x \in s.pending : x.rid = t.rid,
           Issuing(s, I, J), Known(s, J, t.rid), NEW u, u = TurnRequested(s, t)
    PROVE  Asks(s, u, t, T, k, J)
<1> DEFINE w == T[s.gen]
           notSent == IF t.retryOf # None /\ s.notSent.of = t.retryOf
                      THEN [s.notSent EXCEPT !.status = "retry_pending", !.retry = t.rid, !.code = "none"]
                      ELSE s.notSent
<1>1. /\ SameCommands(s, u) /\ u.round = t.round /\ u.notSent = notSent
      /\ u.pending = Without(s.pending, t.rid) \cup {t} /\ u.abandoned = Without(s.abandoned, t.rid)
  BY DEF TurnRequested, GoodRun, Runs, SameCommands
<1>2. notSent.of = s.notSent.of
  BY Fields DEF Recoveries
<1> HIDE DEF notSent, w
<1>3. u.pending = {t} /\ u.notSent.of = s.notSent.of /\ u.abandoned \subseteq s.abandoned
  BY <1>1, <1>2 DEF Without
<1>f. /\ \A x : Commanded(u, x) <=> Commanded(s, x)
      /\ \A x : Reached(u, x) <=> Reached(s, x)
      /\ \A x : Used(u, x) <=> Used(s, x)
      /\ \A m : Awaited(u, m) <=> Awaited(s, m)
      /\ Active(u) <=> Active(s)
      /\ Closed(s) => Closed(u)
      /\ Backed(s, T) => Backed(u, T)
  BY <1>1, SameFacts
<1>4. Closed(s) /\ Backed(s, T) /\ Issued(s, I) /\ Rounds(s, w)
  BY DEF Lasting, w
<1>5. t.round \in 1..MaxRounds
  BY TurnFields
<1>6. Behind(u) => Behind(s) /\ Commanded(s, t.round)
  <2>1. Behind(u) => Commanded(s, t.round + 1) \/ Commanded(s, t.round)
    BY <1>1, <1>3, <1>f DEF Behind
  <2>2. Commanded(s, t.round + 1) => Commanded(s, t.round)
    BY <1>4, <1>5, Below, TurnAssumption
  <2> QED BY <2>1, <2>2
<1>7. u.gen = s.gen
  BY <1>1 DEF SameCommands
<1>8. Rounds(u, w)
  <2>1. GoodTurn(u, t)
    BY <1>6, <1>7, <1>f, TurnAssumption, Fields DEF GoodTurn
  <2>2. \A x \in u.abandoned : GoodTurn(u, x)
    BY <1>3, <1>4, <1>6, <1>7, <1>f DEF Rounds, GoodTurn
  <2>3. \A i \in DOMAIN w : GoodMessage(u, w[i])
    BY <1>4, <1>6, <1>f DEF Rounds, GoodMessage
  <2>4. u.rollover.status = "opening" => Reached(u, Lower(u.rollover.round))
    BY <1>1, <1>4, <1>f DEF Rounds, SameCommands
  <2> QED BY <2>1, <2>2, <2>3, <2>4, <1>1, <1>3 DEF Rounds
<1>9. Issued(u, J)
  <2>1. u.commands = s.commands
    BY <1>1 DEF SameCommands
  <2>2. \A n \in DOMAIN u.commands : u.commands[n].rid \in DOMAIN J /\ J[u.commands[n].rid].after < n
    BY <2>1, <1>4 DEF Issued, Issuing
  <2>3. \A x \in u.pending \cup u.abandoned : x.rid \in DOMAIN J
    BY <1>3, <1>4 DEF Issued, Issuing, Known
  <2>4. \A x \in u.pending : ~Used(u, x.rid)
    BY <1>3, <1>f DEF Known
  <2>5. u.notSent.of # None => Known(u, J, u.notSent.of)
    BY <1>3, <1>4, <1>f DEF Issued, Issuing, Known
  <2> QED BY <2>1, <2>2, <2>3, <2>4, <2>5 DEF Issued, Issuing
<1>10. Covered(u, <<>>, w, k) /\ NoneAwaited(u, w)
  BY <1>f DEF Covered, NoneAwaited, w
<1>11. Based(u, <<>>, w)
  BY <1>3 DEF Based
<1> QED BY <1>3, <1>4, <1>7, <1>8, <1>9, <1>10, <1>11, <1>f DEF Lasting, w, Asks

LEMMA RequestSound ==
    ASSUME Inv, Inv', Active(run), Lasting(run, <<>>, talks, composer, issued), NoneAwaited(run, Talk),
           UNCHANGED <<talks, composer>>, NEW c, RequestTurn(c), Reached(run, c.round - 1),
           Commanded(run, c.round) => Behind(run), \A x \in run.pending : x.rid = c.rid,
           Issuing(run, issued, issued'), Known(run, issued', c.rid)
    PROVE  Keeps'
<1> DEFINE replay == c.first /\ c.kind # "plain"
           t == [rid |-> c.rid, round |-> c.round, gen |-> run.gen, attempt |-> c.attempt, sub |-> "requested",
                 comp |-> "none", base |-> 0, retryOf |-> IF replay THEN c.of ELSE None,
                 manual |-> FALSE, grant |-> replay /\ c.grant]
           ev == [type |-> "requested", turn |-> t]
<1>1. Write(<<ev>>, "compose") /\ cur' = c
  BY DEF RequestTurn
<1>2. ev.type = "requested" /\ ev.turn = t
  OBVIOUS
<1>3. t.rid = c.rid /\ t.round = c.round /\ t.gen = run.gen /\ t.comp = "none"
  OBVIOUS
<1> HIDE DEF ev, t
<1>4. Head(<<ev>>) = ev /\ Tail(<<ev>>) = <<>>
  OBVIOUS
<1>5. run' = TurnRequested(run, t) /\ run' = Reduce(run, ev)
  BY <1>1, <1>2, <1>4 DEF Write, Reduce
<1>6. GoodRun(run) /\ GoodRun(run')
  BY DEF Inv, TypeInv
<1>7. t \in Turn
  <2>1. t \in run'.pending
    BY <1>5, <1>6 DEF TurnRequested, GoodRun, Runs
  <2> QED BY <2>1, <1>6, Fields
<1>8. /\ Lasting(run', <<>>, talks, composer, issued') /\ run'.pending = {t} /\ run'.gen = run.gen
      /\ NoneAwaited(run', talks[run.gen]) /\ (Active(run') <=> Active(run))
  <2>1. NoneAwaited(run, talks[run.gen])
    BY DEF Talk
  <2>2. Asks(run, run', t, talks, composer, issued')
    BY <2>1, <1>3, <1>5, <1>6, <1>7, AskedLasting
  <2> QED BY <2>2 DEF Asks
<1>9. Going(run', <<>>, talks[run'.gen], composer, "compose", c)
  BY <1>3, <1>8 DEF Going, AllQuiet, AtRest, AtSending, AtAnswer, AtRetry, Only, Sending
<1>10. Sound(run', <<>>, "compose", cur', talks', composer', issued')
  BY <1>1, <1>8, <1>9 DEF Sound, Course, Ending
<1> QED BY <1>1, <1>4, <1>5, <1>10, WriteTail

LEMMA DriveKeeps == ASSUME Inv, Inv', Keeps, Drive PROVE Keeps'
<1>1. PICK rid \in Ids : RequestIdFor(NextAttempt(rid), rid) /\ RequestTurn(NextAttempt(rid))
  BY DEF Drive
<1> DEFINE c == NextAttempt(rid)
           key == [round |-> c.round, of |-> c.of, after |-> Len(run.commands)]
           base == [NoTurn EXCEPT !.rid = rid, !.round = run.round + 1, !.gen = run.gen]
<1>2. pc = "drive" /\ UNCHANGED <<talks, composer>> /\ run.round < MaxRounds
  BY DEF Drive, page, BelowLimit
<1>3. /\ Lasting(run, <<>>, talks, composer, issued) /\ Active(run) /\ run.pending = {}
  BY <1>2, AtPlace DEF Going, AtRest, Archiving
<1>4. GoodRun(run) /\ run.round \in Nat /\ run.notSent \in Recoveries
  BY Fields, TurnAssumption DEF Inv, TypeInv, AnyRound
<1>5. NoneAwaited(run, Talk) /\ Reached(run, run.round)
  <2>1. ~Confirms(<<>>)
    BY DEF Confirms
  <2> QED BY <1>3, <2>1 DEF Lasting, Covered, Rounds, NoneAwaited, Talk
<1>6. c.rid = rid /\ c.round = run.round + 1 /\ (c.attach => c.of = run.notSent.of) /\ c.of \in AnyId
  <2>1. base.rid = rid /\ base.round = run.round + 1 /\ ~base.attach /\ base.of = None
    BY DEF NoTurn
  <2>2. cur.of \in AnyId /\ run.notSent.of \in AnyId /\ None \in AnyId
    BY <1>4 DEF Inv, TypeInv, Attempts, Recoveries, AnyId
  <2> QED BY <2>1, <2>2 DEF NextAttempt, NoTurn
<1> HIDE DEF c
<1>7. Issued(run, issued) /\ Len(run.commands) \in Nat
  <2>1. run.commands \in Accepted
    BY <1>4, Fields
  <2>2. Len(run.commands) \in Nat
    BY <2>1 DEF Accepted
  <2> QED BY <1>3, <2>2 DEF Lasting
<1>8. key \in [round : Nat, of : AnyId, after : Nat] /\ key.after = Len(run.commands)
  BY <1>4, <1>6, <1>7
<1>9. \A i \in DOMAIN issued : issued[i].after = Len(run.commands) => Known(run, issued, i)
  <2> SUFFICES ASSUME NEW i \in DOMAIN issued, issued[i].after = Len(run.commands), NEW n \in DOMAIN run.commands,
                      run.commands[n].rid = i
               PROVE  FALSE
    BY DEF Known, Used
  <2>1. Len(run.commands) < n
    BY <1>7 DEF Issued
  <2>2. n \in 1..Len(run.commands)
    BY <1>4, CommandRounds, Fields DEF Accepted
  <2> QED BY <2>1, <2>2, <1>7
<1>10. Issuing(run, issued, issued') /\ Known(run, issued', c.rid)
  <2>1. Issuing(run, issued, issued)
    BY <1>7 DEF Issuing, Issued
  <2>2. CASE c.attach
    <3>1. rid = run.notSent.of /\ issued' = issued /\ rid # None
      BY <1>1, <1>6, <2>2 DEF RequestIdFor, c, Ids, None
    <3> QED BY <3>1, <2>1, <1>6, <1>7 DEF Issued
  <2>3. CASE issued' = issued /\ rid \in DOMAIN issued /\ issued[rid] = key
    BY <2>1, <2>3, <1>6, <1>8, <1>9
  <2>4. CASE rid = Len(issued) + 1 /\ issued' = Append(issued, key)
    <3> DEFINE S == [round : Nat, of : AnyId, after : Nat]
    <3>1. issued \in Seq(S) /\ key \in S /\ (\A i \in DOMAIN issued : issued[i].after \in 0..Len(run.commands))
      BY <1>7, <1>8 DEF Issued
    <3> HIDE DEF S, key
    <3>2. /\ issued' \in Seq(S) /\ Len(issued) \in Nat /\ DOMAIN issued = 1..Len(issued)
          /\ DOMAIN issued' = 1..(Len(issued) + 1) /\ issued'[Len(issued) + 1] = key
          /\ \A i \in 1..Len(issued) : issued'[i] = issued[i]
      BY <2>4, <3>1
    <3>3. \A i \in 1..(Len(issued) + 1) : i \in 1..Len(issued) \/ i = Len(issued) + 1
      BY <3>2
    <3>4. key.after \in 0..Len(run.commands)
      BY <1>7, <1>8
    <3>8. \A i \in DOMAIN issued : i \in DOMAIN issued' /\ issued'[i] = issued[i]
      BY <3>2
    <3>9. \A i \in DOMAIN issued' : issued'[i].after \in 0..Len(run.commands)
      BY <3>1, <3>2, <3>3, <3>4
    <3>5. Issuing(run, issued, issued')
      BY <3>2, <3>8, <3>9 DEF Issuing, S
    <3>6. rid \in DOMAIN issued' /\ rid \notin DOMAIN issued
      BY <2>4, <3>2
    <3>7. ~Used(run, rid)
      BY <3>6, <1>7 DEF Issued, Used
    <3> QED BY <3>5, <3>6, <3>7, <1>6 DEF Known
  <2> QED BY <1>1, <2>2, <2>3, <2>4, <1>6 DEF RequestIdFor, c
<1>11. c.round - 1 = run.round /\ (Commanded(run, c.round) => Behind(run))
  BY <1>4, <1>6 DEF Behind
<1> QED BY <1>1, <1>2, <1>3, <1>5, <1>10, <1>11, RequestSound DEF c

-----------------------------------------------------------------------------
(* Sending                                                                 *)

\* The turns have a new baseline.
Marked(t, v, base) ==
    /\ v.rid = t.rid /\ v.round = t.round /\ v.gen = t.gen /\ v.manual = t.manual /\ v.base = base
    /\ t.sub # "requested" => v.sub # "requested"
Restamped(s, u, base) ==
    /\ SameCommands(s, u) /\ u.round = s.round /\ u.abandoned = s.abandoned /\ u.notSent.of = s.notSent.of
    /\ \A v \in u.pending : \E t \in s.pending : Marked(t, v, base)
    /\ \A t \in s.pending : \E v \in u.pending : Marked(t, v, base)

Sends(s, c) == Only(s, c.rid) /\ \A t \in s.pending : t.round = c.round /\ t.gen = s.gen

LEMMA RestampedLasting ==
    ASSUME NEW s, NEW u, GoodRun(u), NEW base, Restamped(s, u, base), NEW T, NEW k, NEW I, Lasting(s, <<>>, T, k, I),
           NEW c, Sends(s, c), \A i \in DOMAIN T[s.gen] : i > base => T[s.gen][i].rid = c.rid
    PROVE  /\ Lasting(u, <<>>, T, k, I) /\ Sends(u, c) /\ u.gen = s.gen
           /\ (Active(u) <=> Active(s)) /\ (NoneAwaited(s, T[s.gen]) => NoneAwaited(u, T[u.gen]))
<1> DEFINE w == T[s.gen]
<1>1. /\ SameCommands(s, u) /\ u.round = s.round /\ u.abandoned = s.abandoned /\ u.notSent.of = s.notSent.of
      /\ \A v \in u.pending : \E t \in s.pending : Marked(t, v, base)
      /\ \A t \in s.pending : \E v \in u.pending : Marked(t, v, base)
  BY DEF Restamped
<1>f. /\ \A x : Commanded(u, x) <=> Commanded(s, x)
      /\ \A x : Reached(u, x) <=> Reached(s, x)
      /\ \A x : Used(u, x) <=> Used(s, x)
      /\ \A m : Awaited(u, m) <=> Awaited(s, m)
      /\ Active(u) <=> Active(s)
      /\ Closed(s) => Closed(u)
      /\ Backed(s, T) => Backed(u, T)
      /\ \A x : Known(u, I, x) <=> Known(s, I, x)
  BY <1>1, SameFacts
<1>2. u.gen = s.gen /\ u.rollover = s.rollover /\ u.commands = s.commands
  BY <1>1 DEF SameCommands
<1> HIDE DEF w
<1>3. Closed(s) /\ Backed(s, T) /\ Issued(s, I) /\ Rounds(s, w) /\ Covered(s, <<>>, w, k)
  BY DEF Lasting, w
<1>4. Behind(u) <=> Behind(s)
  BY <1>1, <1>f DEF Behind, Marked
<1>5. Rounds(u, w)
  <2>1. ASSUME NEW v \in u.pending PROVE GoodTurn(u, v)
    <3>1. PICK t \in s.pending : Marked(t, v, base)
      BY <1>1
    <3>2. GoodTurn(s, t) /\ v \in Turn
      BY <1>3, Fields DEF Rounds
    <3> QED BY <3>1, <3>2, <1>2, <1>4, <1>f DEF GoodTurn, Marked
  <2>2. \A x \in u.abandoned : GoodTurn(u, x)
    BY <1>1, <1>2, <1>3, <1>4, <1>f DEF Rounds, GoodTurn
  <2>3. \A i \in DOMAIN w : GoodMessage(u, w[i])
    BY <1>3, <1>4, <1>f DEF Rounds, GoodMessage
  <2>4. u.rollover.status = "opening" => Reached(u, Lower(u.rollover.round))
    BY <1>2, <1>3, <1>f DEF Rounds
  <2>5. Active(u) => Reached(u, u.round) \/ \E t \in u.pending : t.round = u.round
    BY <1>1, <1>3, <1>f DEF Rounds, Marked
  <2>6. \A t, v \in u.pending : t.rid = v.rid => t.round = v.round
    BY <1>1, <1>3 DEF Rounds, Marked
  <2> QED BY <2>1, <2>2, <2>3, <2>4, <2>5, <2>6 DEF Rounds
<1>6. Issued(u, I)
  <2>1. \A v \in u.pending : v.rid \in DOMAIN I /\ ~Used(u, v.rid)
    BY <1>1, <1>3, <1>f DEF Issued, Marked
  <2> QED BY <2>1, <1>1, <1>2, <1>3, <1>f DEF Issued
<1>7. Covered(u, <<>>, w, k)
  <2>1. ASSUME NEW t \in s.pending, Covers(t, w) PROVE \E v \in u.pending : Covers(v, w)
    BY <2>1, <1>1 DEF Marked, Covers
  <2> QED BY <2>1, <1>3, <1>f DEF Covered
<1>8. Sends(u, c)
  BY <1>1, <1>2 DEF Sends, Only, Marked
<1>9. Based(u, <<>>, w)
  BY <1>1, <1>8 DEF Based, Sends, Only, Marked, w
<1> QED BY <1>2, <1>3, <1>5, <1>6, <1>7, <1>8, <1>9, <1>f DEF Lasting, w, NoneAwaited

LEMMA StagedFields ==
    ASSUME NEW s, GoodRun(s), NEW rid, Only(s, rid), NEW comp, NEW base, NEW u, u = PromptStaged(s, rid, comp, base)
    PROVE  Restamped(s, u, base)
<1> DEFINE F(t) == IF t.rid = rid THEN [t EXCEPT !.comp = comp, !.base = base] ELSE t
<1>1. u.pending = {F(t) : t \in s.pending}
  BY DEF PromptStaged, GoodRun, Runs
<1>2. ASSUME NEW t \in s.pending PROVE Marked(t, F(t), base)
  <2>1. t \in Turn /\ t.rid = rid
    BY Fields DEF Only
  <2> QED BY <2>1 DEF Marked, Turn, Turns
<1>3. SameCommands(s, u) /\ u.round = s.round /\ u.abandoned = s.abandoned /\ u.notSent = s.notSent
  BY DEF PromptStaged, GoodRun, Runs, SameCommands
<1> HIDE DEF F
<1> QED BY <1>1, <1>2, <1>3 DEF Restamped

LEMMA SubmittedFields ==
    ASSUME NEW s, GoodRun(s), NEW rid, Only(s, rid), NEW sub, sub # "requested", NEW comp, NEW base, NEW url,
           NEW u, u = Submission(s, rid, sub, comp, base, url)
    PROVE  Restamped(s, u, base) /\ \A v \in u.pending : v.sub # "requested"
<1> DEFINE F(t) == IF t.rid = rid THEN [t EXCEPT !.sub = sub, !.comp = comp, !.base = base] ELSE t
<1>1. TurnOf(s.pending, rid) # {}
  BY DEF TurnOf, Only
<1>2. u.pending = {F(t) : t \in s.pending}
  BY <1>1 DEF Submission, GoodRun, Runs
<1>3. ASSUME NEW t \in s.pending PROVE Marked(t, F(t), base) /\ F(t).sub # "requested"
  <2>1. t \in Turn /\ t.rid = rid
    BY Fields DEF Only
  <2> QED BY <2>1 DEF Marked, Turn, Turns
<1>4. SameCommands(s, u) /\ u.round = s.round /\ u.abandoned = s.abandoned /\ u.notSent = s.notSent
  BY <1>1 DEF Submission, GoodRun, Runs, SameCommands
<1> HIDE DEF F
<1> QED BY <1>2, <1>3, <1>4 DEF Restamped

\* What holds while a prompt is sent
LEMMA AtSend ==
    ASSUME Inv, Keeps, pc \in Sending
    PROVE  /\ pc # "append" /\ GoodRun(run) /\ Active(run) /\ Lasting(run, <<>>, talks, composer, issued)
           /\ Going(run, <<>>, Talk, composer, pc, cur) /\ Sends(run, cur) /\ AtSending(run, Talk, pc, cur)
           /\ cur.rid \in Ids /\ cur.round \in 1..MaxRounds /\ Len(Talk) \in Nat /\ DOMAIN Talk = 1..Len(Talk)
<1>1. pc # "append" /\ pc \notin Archiving \cup {"down"} /\ pc \in Asking
  BY DEF Sending, Archiving, Asking
<1>2. Active(run) /\ Lasting(run, <<>>, talks, composer, issued) /\ Going(run, <<>>, Talk, composer, pc, cur)
  BY <1>1, AtPlace
<1>3. AtSending(run, Talk, pc, cur)
  BY <1>2 DEF Going
<1>4. Sends(run, cur)
  BY <1>3 DEF AtSending, Sends
<1>5. Talk \in Seq(Messages)
  BY TalkTyped
<1>6. Len(Talk) \in Nat /\ DOMAIN Talk = 1..Len(Talk)
  BY <1>5
<1> QED BY <1>1, <1>2, <1>3, <1>4, <1>6 DEF Inv, TypeInv

SendSub(p) == p \in {"click", "ack", "clicked", "wait"}

LEMMA SendGoing ==
    ASSUME NEW s, NEW w, NEW k, NEW p, NEW c, p \in Sending, Sends(s, c),
           SendSub(p) => \A t \in s.pending : t.sub # "requested",
           p \in {"compose", "stage", "target", "click"} => NoneAwaited(s, w),
           p \in {"stage", "target", "click"} => Len(w) <= c.base,
           p \in {"ack", "clicked", "wait"} => \A i \in DOMAIN w : i > c.base => w[i].rid = c.rid
    PROVE  Going(s, <<>>, w, k, p, c)
  BY DEF Going, AllQuiet, AtRest, AtSending, AtAnswer, AtRetry, Sending, Sends, SendSub

LEMMA BeforeSending ==
    ASSUME Inv, Inv', Keeps, DrivePromptMismatch \/ DriveNoMore \/ Refuse
    PROVE  Keeps'
<1>1. pc \in {"drive", "compose"} /\ UNCHANGED <<talks, composer, issued>>
  BY DEF DrivePromptMismatch, DriveNoMore, Refuse, page
<1>2. Active(run) /\ Lasting(run, <<>>, talks', composer', issued')
  BY <1>1, AtPlace DEF Archiving
<1>3. CASE DrivePromptMismatch
  <2> DEFINE ev == [type |-> "conflict", rid |-> run.notSent.of, code |-> "promptMismatch"]
  <2>1. Quiet(ev) /\ Return(<<ev>>)
    BY <1>3 DEF DrivePromptMismatch, Quiet, QuietTypes
  <2> QED BY <1>2, <2>1, Alone, ReturnSound DEF Ends
<1>4. CASE DriveNoMore
  BY <1>2, <1>4, FailOfPendingSound DEF DriveNoMore
<1>5. CASE Refuse
  BY <1>2, <1>5, FailSound DEF Refuse
<1> QED BY <1>3, <1>4, <1>5

LEMMA ComposeKeeps == ASSUME Inv, Inv', Keeps, Compose PROVE Keeps'
<1>1. PICK form \in Forms : /\ cur' = [cur EXCEPT !.base = Len(Talk), !.comp = form]
                            /\ Goto(IF form = "attach" THEN "stage" ELSE "target")
  BY DEF Compose
<1> DEFINE next == IF form = "attach" THEN "stage" ELSE "target"
<1>2. pc = "compose" /\ UNCHANGED <<talks, issued>>
  BY DEF Compose
<1>3. /\ Active(run) /\ Lasting(run, <<>>, talks, composer, issued) /\ Sends(run, cur) /\ AtSending(run, Talk, pc, cur)
      /\ Len(Talk) \in Nat /\ pc # "append"
  BY <1>2, AtSend DEF Sending
<1>4. NoneAwaited(run, Talk)
  BY <1>2, <1>3 DEF AtSending
<1>5. Lasting(run, <<>>, talks', composer', issued')
  BY <1>2, <1>3, <1>4, LastingEmptied DEF Talk
<1>6. cur'.rid = cur.rid /\ cur'.round = cur.round /\ cur'.base = Len(Talk)
  BY <1>1 DEF Inv, TypeInv, Attempts
<1>7. talks'[run.gen] = Talk /\ Sends(run, cur')
  BY <1>2, <1>3, <1>6 DEF Talk, Sends
<1>8. next \in {"stage", "target"} /\ Goto(next)
  BY <1>1
<1> HIDE DEF next
<1>9. Going(run, <<>>, talks'[run.gen], composer', next, cur')
  BY <1>3, <1>4, <1>6, <1>7, <1>8, SendGoing DEF Sending, SendSub
<1> QED BY <1>3, <1>5, <1>8, <1>9, GotoSound

LEMMA StageKeeps == ASSUME Inv, Inv', Keeps, Stage PROVE Keeps'
<1> DEFINE ev == [type |-> "staged", rid |-> cur.rid, comp |-> cur.comp, base |-> cur.base]
<1>1. pc = "stage" /\ UNCHANGED <<talks, composer, issued, cur>> /\ Write(<<ev>>, "target")
  BY DEF Stage, page
<1>2. /\ Active(run) /\ Lasting(run, <<>>, talks, composer, issued) /\ Sends(run, cur) /\ AtSending(run, Talk, pc, cur)
      /\ Len(Talk) \in Nat /\ DOMAIN Talk = 1..Len(Talk) /\ GoodRun(run) /\ GoodRun(run')
  BY <1>1, AtSend DEF Sending, Inv, TypeInv
<1>3. NoneAwaited(run, Talk) /\ Len(Talk) <= cur.base /\ cur.base \in Nat
  BY <1>1, <1>2 DEF AtSending, Inv, TypeInv, Attempts
<1>4. ev.type = "staged" /\ ev.rid = cur.rid /\ ev.base = cur.base /\ ev.comp = cur.comp
      /\ Head(<<ev>>) = ev /\ Tail(<<ev>>) = <<>>
  OBVIOUS
<1> HIDE DEF ev
<1>5. run' = Reduce(run, ev) /\ run' = PromptStaged(run, cur.rid, cur.comp, cur.base)
  BY <1>1, <1>4 DEF Write, Reduce
<1>6. Restamped(run, run', cur.base)
  BY <1>2, <1>5, StagedFields DEF Sends
<1>7. \A i \in DOMAIN Talk : i > cur.base => Talk[i].rid = cur.rid
  BY <1>2, <1>3
<1>8. /\ Lasting(run', <<>>, talks, composer, issued) /\ Sends(run', cur) /\ run'.gen = run.gen
      /\ Active(run') /\ NoneAwaited(run', talks[run'.gen])
  BY <1>2, <1>3, <1>6, <1>7, RestampedLasting DEF Talk
<1>9. Going(run', <<>>, talks[run'.gen], composer, "target", cur)
  BY <1>3, <1>8, SendGoing DEF Sending, SendSub, Talk
<1>10. Sound(run', <<>>, "target", cur', talks', composer', issued')
  BY <1>1, <1>8, <1>9 DEF Sound, Course, Ending
<1> QED BY <1>1, <1>4, <1>5, <1>10, WriteTail

\* The message m is added to the conversation w.
Posts(w, x, m) ==
    /\ Len(w) \in Nat /\ DOMAIN w = 1..Len(w) /\ Len(x) = Len(w) + 1 /\ DOMAIN x = 1..Len(x)
    /\ \A i \in DOMAIN w : i \in DOMAIN x /\ x[i] = w[i]
    /\ Len(x) \in DOMAIN x /\ x[Len(x)] = m
    /\ \A i \in DOMAIN x : i \in DOMAIN w \/ i = Len(x)

Conversations == [1..MaxGen -> Seq(Messages)]

PostsTo(T, U, g, m) ==
    Posts(T[g], U[g], m) /\ U \in Conversations /\ \A h \in 1..MaxGen : h # g => U[h] = T[h]

LEMMA PostedMessage ==
    ASSUME NEW T \in Conversations, NEW g \in 1..MaxGen, NEW m \in Messages, NEW U, U = [T EXCEPT ![g] = Append(@, m)]
    PROVE  PostsTo(T, U, g, m)
<1>1. T[g] \in Seq(Messages) /\ U[g] = Append(T[g], m) /\ \A h \in 1..MaxGen : h # g => U[h] = T[h]
  BY DEF Conversations
<1>2. U \in Conversations
  <2>1. Append(T[g], m) \in Seq(Messages)
    BY <1>1
  <2> QED BY <2>1 DEF Conversations
<1> DEFINE w == T[g]
           x == U[g]
<1>3. /\ Len(w) \in Nat /\ DOMAIN w = 1..Len(w) /\ Len(x) = Len(w) + 1 /\ DOMAIN x = 1..(Len(w) + 1)
      /\ \A i \in 1..Len(w) : x[i] = w[i]
      /\ x[Len(w) + 1] = m
  BY <1>1
<1> HIDE DEF w, x
<1>4. \A i \in 1..(Len(w) + 1) : i \in 1..Len(w) \/ i = Len(w) + 1
  BY <1>3
<1>5. Len(w) + 1 \in 1..(Len(w) + 1) /\ \A i \in 1..Len(w) : i \in 1..(Len(w) + 1)
  BY <1>3
<1>6. Posts(w, x, m)
  BY <1>3, <1>4, <1>5 DEF Posts
<1> QED BY <1>1, <1>2, <1>6 DEF w, x, PostsTo

LEMMA DeliveredLasting ==
    ASSUME NEW s, GoodRun(s), NEW T \in Conversations, NEW k, NEW I, Lasting(s, <<>>, T, k, I), NoneAwaited(s, T[s.gen]),
           NEW m \in Messages, GoodMessage(s, m), m.ans = "none",
           NEW q, \/ Confirms(q)
                  \/ Only(s, m.rid) /\ \E t \in s.pending : t.sub # "requested",
           NEW U, U = [T EXCEPT ![s.gen] = Append(@, m)]
    PROVE  Lasting(s, q, U, EmptyComposer, I) /\ Posts(T[s.gen], U[s.gen], m)
<1> DEFINE w == T[s.gen]
           x == U[s.gen]
<1>1. s.gen \in 1..MaxGen
  BY Fields
<1>2. Posts(w, x, m) /\ \A h \in 1..MaxGen : h # s.gen => U[h] = T[h]
  <2>1. PostsTo(T, U, s.gen, m)
    BY <1>1, PostedMessage
  <2> QED BY <2>1 DEF PostsTo
<1> HIDE DEF w, x
<1>3. Closed(s) /\ Backed(s, T) /\ Issued(s, I) /\ Rounds(s, w) /\ Based(s, <<>>, w) /\ NoneAwaited(s, w)
  BY DEF Lasting, w
<1>4. \A r, round : HasAnswer(w, r, round) => HasAnswer(x, r, round)
  BY <1>2 DEF HasAnswer, Posts
<1>5. Backed(s, U)
  <2>1. ASSUME NEW g \in 1..MaxGen, NEW r, NEW round, HasAnswer(T[g], r, round) PROVE HasAnswer(U[g], r, round)
    BY <2>1, <1>2, <1>4 DEF w, x
  <2>2. \A g \in 1..MaxGen : g > s.gen => U[g] = <<>>
    BY <1>1, <1>2, <1>3 DEF Backed
  <2> QED BY <2>1, <2>2, <1>3 DEF Backed
<1>6. Rounds(s, x)
  BY <1>2, <1>3 DEF Rounds, Posts
<1>7. Covered(s, q, x, EmptyComposer)
  <2>1. \A i \in DOMAIN x : Awaited(s, x[i]) => i = Len(x)
    BY <1>2, <1>3 DEF NoneAwaited, Posts
  <2>2. Shows(x, m.rid)
    BY <1>2 DEF Posts, Shows
  <2>3. Confirms(q) \/ \E t \in s.pending : Covers(t, x)
    BY <2>2 DEF Only, Covers
  <2> QED BY <2>1, <2>3 DEF Covered
<1>8. Based(s, q, x)
  <2> SUFFICES ASSUME NEW t \in s.pending, Only(s, t.rid), ~t.manual, t.comp # "none", ~Confirms(q), ~HasAnswer(x, t.rid, t.round),
                      NEW i \in DOMAIN x, i > t.base
               PROVE  x[i].rid = t.rid
    BY DEF Based
  <2>1. t.rid = m.rid
    BY DEF Only
  <2>2. ~HasAnswer(w, t.rid, t.round) /\ ~Confirms(<<>>)
    BY <1>4 DEF Confirms
  <2>3. \A j \in DOMAIN w : j > t.base => w[j].rid = t.rid
    BY <1>3, <2>2 DEF Based
  <2> QED BY <1>2, <2>1, <2>3 DEF Posts
<1> QED BY <1>2, <1>3, <1>5, <1>6, <1>7, <1>8 DEF Lasting, w, x

Checked ==
    /\ Active(run') /\ Sends(run', cur) /\ run'.gen = run.gen /\ \A v \in run'.pending : v.sub # "requested"
    /\ Lasting(run', <<>>, talks', composer', issued')
    /\ NoneAwaited(run, talks'[run.gen]) => NoneAwaited(run', talks'[run.gen])

LEMMA CheckpointSound ==
    ASSUME Inv, Inv', Active(run), Lasting(run, <<>>, talks', composer', issued'), Sends(run, cur),
           \A i \in DOMAIN talks'[run.gen] : i > cur.base => talks'[run.gen][i].rid = cur.rid,
           NEW sub, sub # "requested", NEW url, NEW S, NEW rest \in Seq(S), NEW next, next # "append",
           Write(<<CheckpointEvent(sub, url)>> \o rest, next)
    PROVE  Checked /\ (Going(run', rest, talks'[run.gen], composer', next, cur') => Keeps')
<1> DEFINE ev == CheckpointEvent(sub, url)
           events == <<ev>> \o rest
<1>1. ev.type = "submission" /\ ev.rid = cur.rid /\ ev.sub = sub /\ ev.comp = cur.comp /\ ev.base = cur.base /\ ev.url = url
  BY DEF CheckpointEvent
<1>2. Head(events) = ev /\ Tail(events) = rest
  BY Joined
<1> HIDE DEF ev
<1>3. run' = Reduce(run, ev) /\ run' = Submission(run, cur.rid, sub, cur.comp, cur.base, url)
  BY <1>1, <1>2 DEF Write, Reduce, ev
<1>4. GoodRun(run) /\ GoodRun(run')
  BY DEF Inv, TypeInv
<1>5. Restamped(run, run', cur.base) /\ \A v \in run'.pending : v.sub # "requested"
  BY <1>3, <1>4, SubmittedFields DEF Sends
<1>6. /\ Lasting(run', <<>>, talks', composer', issued') /\ Sends(run', cur) /\ run'.gen = run.gen
      /\ Active(run') /\ (NoneAwaited(run, talks'[run.gen]) => NoneAwaited(run', talks'[run'.gen]))
  BY <1>4, <1>5, RestampedLasting
<1>7. ASSUME Going(run', rest, talks'[run.gen], composer', next, cur') PROVE Keeps'
  <2>1. Lasting(run', rest, talks', composer', issued')
    BY <1>4, <1>6, LastingWith
  <2>2. Sound(run', rest, next, cur', talks', composer', issued')
    BY <1>6, <1>7, <2>1 DEF Sound, Course, Ending
  <2>3. Write(events, next)
    BY DEF ev
  <2>4. Sound(Reduce(run, Head(events)), Tail(events), next, cur', talks', composer', issued')
    BY <1>2, <1>3, <2>2
  <2> HIDE DEF events
  <2> QED BY <2>3, <2>4, WriteTail
<1> QED BY <1>5, <1>6, <1>7 DEF Checked

LEMMA TargetKeeps == ASSUME Inv, Inv', Keeps, Target PROVE Keeps'
<1>1. pc = "target" /\ UNCHANGED <<talks, composer, issued>>
  BY DEF Target, page
<1>2. /\ Active(run) /\ Lasting(run, <<>>, talks, composer, issued) /\ Sends(run, cur) /\ AtSending(run, Talk, pc, cur)
      /\ Len(Talk) \in Nat /\ DOMAIN Talk = 1..Len(Talk) /\ GoodRun(run)
  BY <1>1, AtSend DEF Sending
<1>3. NoneAwaited(run, Talk) /\ Len(Talk) <= cur.base /\ cur.base \in Nat
  BY <1>1, <1>2 DEF AtSending, Inv, TypeInv, Attempts
<1>4. CASE Trouble("target") /\ Fail("notReady", cur.rid, "definitely_not_sent")
  BY <1>1, <1>2, <1>4, FailSound
<1>5. CASE UNCHANGED cur /\ Write(<<CheckpointEvent("submitting", cur.base > 0)>>, "click")
  <2> DEFINE ev == CheckpointEvent("submitting", cur.base > 0)
  <2>1. <<>> \in Seq({}) /\ <<ev>> \o <<>> = <<ev>>
    OBVIOUS
  <2>2. \A i \in DOMAIN talks'[run.gen] : i > cur.base => talks'[run.gen][i].rid = cur.rid
    BY <1>1, <1>2, <1>3 DEF Talk
  <2>3. Write(<<ev>> \o <<>>, "click")
    BY <1>5, <2>1
  <2> HIDE DEF ev
  <2>4. Checked /\ (Going(run', <<>>, talks'[run.gen], composer', "click", cur') => Keeps')
    BY <1>1, <1>2, <2>1, <2>2, <2>3, CheckpointSound DEF ev
  <2>5. Going(run', <<>>, talks'[run.gen], composer', "click", cur')
    BY <1>1, <1>3, <1>5, <2>4, SendGoing DEF Sending, SendSub, Checked, Talk
  <2> QED BY <2>4, <2>5
<1> QED BY <1>4, <1>5 DEF Target

\* The click, when the composer holds the prompt
LEMMA PostingLasting ==
    ASSUME Inv, Inv', Keeps, pc = "click", composer.rid = cur.rid, UNCHANGED issued,
           Delivered(cur.round) \/ UNCHANGED talks
    PROVE  /\ Active(run) /\ Sends(run, cur) /\ Lasting(run, <<>>, talks', composer', issued')
           /\ \A t \in run.pending : t.sub # "requested"
           /\ \A i \in DOMAIN talks'[run.gen] : i > cur.base => talks'[run.gen][i].rid = cur.rid
<1>1. /\ Active(run) /\ Lasting(run, <<>>, talks, composer, issued) /\ Sends(run, cur) /\ AtSending(run, Talk, pc, cur)
      /\ Len(Talk) \in Nat /\ DOMAIN Talk = 1..Len(Talk) /\ GoodRun(run) /\ cur.rid \in Ids /\ cur.round \in 1..MaxRounds
  BY AtSend DEF Sending
<1>2. /\ NoneAwaited(run, Talk) /\ Len(Talk) <= cur.base /\ cur.base \in Nat
      /\ \A t \in run.pending : t.sub # "requested"
  BY <1>1 DEF AtSending, Inv, TypeInv, Attempts
<1>3. CASE UNCHANGED talks
  <2>1. Lasting(run, <<>>, talks', composer', issued')
    BY <1>1, <1>2, <1>3, LastingEmptied DEF Talk
  <2> QED BY <1>1, <1>2, <1>3, <2>1 DEF Talk
<1>4. CASE Delivered(cur.round)
  <2> DEFINE m == [rid |-> cur.rid, round |-> cur.round, ans |-> "none"]
  <2>1. talks' = [talks EXCEPT ![run.gen] = Append(@, m)] /\ composer' = EmptyComposer
    BY <1>4 DEF Delivered
  <2>2. m \in Messages /\ m.ans = "none" /\ m.rid = cur.rid /\ m.round = cur.round
    BY <1>1, TurnAssumption DEF Messages, AnyId, AnyRound
  <2> HIDE DEF m
  <2>3. PICK t \in run.pending : t.rid = cur.rid /\ t.round = cur.round /\ t.gen = run.gen
    BY <1>1 DEF Sends, Only
  <2>4. GoodTurn(run, t) /\ t.round \in 1..MaxRounds
    <3>1. Rounds(run, Talk)
      BY <1>1 DEF Lasting, Talk
    <3> QED BY <1>1, <3>1, PendingGood
  <2>5. GoodMessage(run, m)
    BY <2>2, <2>3, <2>4 DEF GoodTurn, GoodMessage
  <2>6. talks \in Conversations
    BY DEF Inv, TypeInv, PageInv, Conversations
  <2>7. Only(run, m.rid) /\ t.sub # "requested"
    BY <1>1, <1>2, <2>2 DEF Sends
  <2>8. Lasting(run, <<>>, talks', EmptyComposer, issued) /\ Posts(talks[run.gen], talks'[run.gen], m)
    BY <1>1, <1>2, <2>1, <2>2, <2>5, <2>6, <2>7, DeliveredLasting DEF Talk
  <2>9. \A i \in DOMAIN talks'[run.gen] : i > cur.base => talks'[run.gen][i].rid = cur.rid
    BY <1>1, <1>2, <2>2, <2>8 DEF Posts, Talk
  <2> QED BY <1>1, <1>2, <2>1, <2>8, <2>9
<1> QED BY <1>3, <1>4

LEMMA ClickKeeps == ASSUME Inv, Inv', Keeps, OwnPrompt, Click PROVE Keeps'
<1>1. /\ pc = "click" /\ UNCHANGED issued /\ UNCHANGED cur /\ Goto("ack")
      /\ Delivered(cur.round) \/ UNCHANGED talks
      /\ composer.rid = cur.rid
  BY DEF Click, Posting, OwnPrompt
<1>2. /\ Active(run) /\ Sends(run, cur) /\ Lasting(run, <<>>, talks', composer', issued')
      /\ \A t \in run.pending : t.sub # "requested"
      /\ \A i \in DOMAIN talks'[run.gen] : i > cur.base => talks'[run.gen][i].rid = cur.rid
  BY <1>1, PostingLasting DEF OwnPrompt
<1>3. Going(run, <<>>, talks'[run.gen], composer', "ack", cur')
  BY <1>1, <1>2, SendGoing DEF Sending, SendSub
<1> QED BY <1>1, <1>2, <1>3, GotoSound

LEMMA ClickErrorKeeps == ASSUME Inv, Inv', Keeps, OwnPrompt, ClickError PROVE Keeps'
<1>1. pc = "click" /\ UNCHANGED issued /\ composer.rid = cur.rid
  BY DEF ClickError, OwnPrompt
<1>2. CASE UNCHANGED page /\ Fail("preclick", cur.rid, "definitely_not_sent")
  <2>1. Active(run) /\ Lasting(run, <<>>, talks', composer', issued')
    BY <1>1, <1>2, AtSend DEF Sending, page
  <2> QED BY <1>2, <2>1, FailSound
<1>3. CASE /\ Delivered(cur.round) \/ UNCHANGED page
           /\ UNCHANGED cur /\ Write(<<CheckpointEvent("possibly_sent", cur.base > 0)>>, "clicked")
  <2> DEFINE ev == CheckpointEvent("possibly_sent", cur.base > 0)
  <2>1. /\ Active(run) /\ Sends(run, cur) /\ Lasting(run, <<>>, talks', composer', issued')
        /\ \A i \in DOMAIN talks'[run.gen] : i > cur.base => talks'[run.gen][i].rid = cur.rid
    BY <1>1, <1>3, PostingLasting DEF page
  <2>2. <<>> \in Seq({}) /\ <<ev>> \o <<>> = <<ev>>
    OBVIOUS
  <2>3. Write(<<ev>> \o <<>>, "clicked")
    BY <1>3, <2>2
  <2> HIDE DEF ev
  <2>4. Checked /\ (Going(run', <<>>, talks'[run.gen], composer', "clicked", cur') => Keeps')
    BY <2>1, <2>2, <2>3, CheckpointSound DEF ev
  <2>5. Going(run', <<>>, talks'[run.gen], composer', "clicked", cur')
    BY <1>3, <2>1, <2>4, SendGoing DEF Sending, SendSub, Checked
  <2> QED BY <2>4, <2>5
<1> QED BY <1>2, <1>3 DEF ClickError

LEMMA ClickedKeeps == ASSUME Inv, Inv', Keeps, Clicked PROVE Keeps'
<1>1. pc = "clicked" /\ UNCHANGED <<talks, composer, issued>>
  BY DEF Clicked, page
<1>2. /\ Active(run) /\ Lasting(run, <<>>, talks, composer, issued) /\ Sends(run, cur) /\ AtSending(run, Talk, pc, cur)
      /\ pc # "append"
  BY <1>1, AtSend DEF Sending
<1>3. CASE Goto("ack") /\ UNCHANGED cur
  <2>1. Going(run, <<>>, talks'[run.gen], composer', "ack", cur')
    BY <1>1, <1>2, <1>3, SendGoing DEF Sending, SendSub, AtSending, Talk
  <2> QED BY <1>1, <1>2, <1>3, <2>1, GotoSound
<1>4. CASE Fail("ambiguous", cur.rid, "possibly_sent")
  BY <1>1, <1>2, <1>4, FailSound
<1> QED BY <1>3, <1>4 DEF Clicked

LEMMA AcknowledgeKeeps == ASSUME Inv, Inv', Keeps, Acknowledge PROVE Keeps'
<1>1. pc = "ack" /\ UNCHANGED <<talks, composer, issued>>
  BY DEF Acknowledge, page
<1>2. /\ Active(run) /\ Lasting(run, <<>>, talks, composer, issued) /\ Sends(run, cur) /\ AtSending(run, Talk, pc, cur)
      /\ pc # "append"
  BY <1>1, AtSend DEF Sending
<1>3. \A i \in DOMAIN talks'[run.gen] : i > cur.base => talks'[run.gen][i].rid = cur.rid
  BY <1>1, <1>2 DEF AtSending, Talk
<1>4. CASE \E code \in {"mismatch", "unreadable"} : Fail(code, cur.rid, "possibly_sent")
  BY <1>1, <1>2, <1>4, FailSound
<1>5. CASE Fail("notSent", cur.rid, "definitely_not_sent")
  BY <1>1, <1>2, <1>5, FailSound
<1>6. CASE Return(<<CheckpointEvent("possibly_sent", cur.base > 0), FailedEvent("ambiguous", cur.rid, "possibly_sent")>>)
  <2> DEFINE a == CheckpointEvent("possibly_sent", cur.base > 0)
             b == FailedEvent("ambiguous", cur.rid, "possibly_sent")
  <2>1. AllQuiet(<<b>>) /\ <<b>> \in Seq({b}) /\ <<a>> \o <<b>> = <<a, b>>
    BY Alone, PairOf DEF Quiet, QuietTypes, FailedEvent
  <2>2. Write(<<a>> \o <<b>>, "down") /\ cur' = NoTurn
    BY <1>6, <2>1 DEF Return
  <2> HIDE DEF a, b
  <2>3. Going(run', <<b>>, talks'[run.gen], composer', "down", cur') => Keeps'
    BY <1>1, <1>2, <1>3, <2>1, <2>2, CheckpointSound DEF a
  <2> QED BY <2>1, <2>2, <2>3, DownGoing
<1>7. ASSUME NEW submit \in BOOLEAN,
             LET events == <<CheckpointEvent("submitted", submit \/ cur.base > 0)>>
                           \o IF cur.kind = "response" /\ cur.first
                              THEN <<[type |-> "failure_resent", rid |-> cur.rid, round |-> cur.round, of |-> cur.of]>>
                              ELSE <<>>
             IN IF submit THEN Return(events) ELSE Write(events, "wait") /\ UNCHANGED cur
      PROVE  Keeps'
  <2> DEFINE url == submit \/ cur.base > 0
             f == [type |-> "failure_resent", rid |-> cur.rid, round |-> cur.round, of |-> cur.of]
             rest == IF cur.kind = "response" /\ cur.first THEN <<f>> ELSE <<>>
             next == IF submit THEN "down" ELSE "wait"
  <2>1. AllQuiet(rest) /\ rest \in Seq({f})
    <3>1. Quiet(f)
      BY DEF Quiet, QuietTypes
    <3> HIDE DEF f
    <3>2. AllQuiet(<<f>>) /\ AllQuiet(<<>>) /\ <<f>> \in Seq({f}) /\ <<>> \in Seq({f})
      BY <3>1, Alone DEF AllQuiet
    <3> QED BY <3>2
  <2>2. Write(<<CheckpointEvent("submitted", url)>> \o rest, next) /\ next # "append"
    BY <1>7 DEF Return
  <2>3. IF submit THEN cur' = NoTurn ELSE cur' = cur
    BY <1>7 DEF Return
  <2> HIDE DEF url, f, rest
  <2>4. Checked /\ (Going(run', rest, talks'[run.gen], composer', next, cur') => Keeps')
    BY <1>1, <1>2, <1>3, <2>1, <2>2, CheckpointSound
  <2>5. CASE submit
    BY <2>1, <2>3, <2>4, <2>5, DownGoing
  <2>6. CASE ~submit
    <3>1. Going(run', <<>>, talks'[run.gen], composer', "wait", cur')
      BY <1>3, <2>3, <2>4, <2>6, SendGoing DEF Sending, SendSub, Checked
    <3> QED BY <2>1, <2>4, <2>6, <3>1, GoingWith
  <2> QED BY <2>5, <2>6
<1> QED BY <1>4, <1>5, <1>6, <1>7 DEF Acknowledge

-----------------------------------------------------------------------------
(* The answer                                                              *)

\* An awaited message and a pending turn are of the same round.
LEMMA AwaitedRound ==
    ASSUME NEW s, GoodRun(s), Closed(s), NEW w, Rounds(s, w), NEW t \in s.pending, NEW i \in DOMAIN w, Awaited(s, w[i])
    PROVE  w[i].round = t.round /\ ~Commanded(s, t.round)
<1>1. GoodMessage(s, w[i]) /\ ~Commanded(s, w[i].round) /\ GoodTurn(s, t) /\ t.round \in 1..MaxRounds
  BY PendingGood DEF Rounds, Awaited
<1>2. ~Commanded(s, t.round)
  BY <1>1 DEF GoodMessage, Behind
<1>3. w[i].round \in 1..MaxRounds /\ Reached(s, w[i].round - 1) /\ Reached(s, t.round - 1)
  BY <1>1 DEF GoodMessage, GoodTurn
<1> QED BY <1>1, <1>2, <1>3, SameRound

LEMMA WaitKeeps == ASSUME Inv, Inv', Keeps, Wait PROVE Keeps'
<1>1. pc = "wait" /\ UNCHANGED <<talks, composer, issued>>
  BY DEF Wait, page
<1>2. /\ Active(run) /\ Lasting(run, <<>>, talks, composer, issued) /\ Sends(run, cur) /\ AtSending(run, Talk, pc, cur)
      /\ Len(Talk) \in Nat /\ DOMAIN Talk = 1..Len(Talk) /\ GoodRun(run) /\ pc # "append"
  BY <1>1, AtSend DEF Sending
<1>3. CASE Fail("responseTimeout", cur.rid, "submitted")
  BY <1>1, <1>2, <1>3, FailSound
<1>4. CASE /\ Len(Talk) > cur.base /\ Latest.ans # "none" /\ Goto("received")
           /\ cur' = [cur EXCEPT !.good = Command(Latest) /\ Latest.rid = cur.rid /\ Latest.round = cur.round]
  <2> DEFINE c == cur'
             n == Len(Talk)
  <2>1. /\ c.rid = cur.rid /\ c.round = cur.round /\ cur.base \in Nat
        /\ c.good = (Command(Latest) /\ Latest.rid = cur.rid /\ Latest.round = cur.round)
    BY <1>4 DEF Inv, TypeInv, Attempts
  <2>2. n \in DOMAIN Talk /\ Latest = Talk[n]
    BY <1>2, <1>4, <2>1 DEF Latest
  <2>3. PICK t \in run.pending : t.rid = cur.rid /\ t.round = cur.round /\ t.sub # "requested"
    BY <1>1, <1>2 DEF AtSending, Sends, Only
  <2>4. Talk[n].rid = cur.rid
    BY <1>1, <1>2, <1>4, <2>2 DEF AtSending
  <2>5. c.good => HasAnswer(Talk, c.rid, c.round)
    BY <2>1, <2>2 DEF HasAnswer
  <2> HIDE DEF c, n
  <2>6. ASSUME ~c.good, NEW i \in DOMAIN Talk, Awaited(run, Talk[i]) PROVE Talk[i].ans = "timeout" /\ Talk[i].rid = c.rid
    <3>1. Closed(run) /\ Rounds(run, Talk) /\ Covered(run, <<>>, Talk, composer)
      BY <1>2 DEF Lasting, Talk
    <3>2. i = n
      BY <1>2, <2>6, <3>1 DEF Covered, n
    <3>3. Talk[i].round = cur.round
      BY <1>2, <2>3, <2>6, <3>1, AwaitedRound
    <3>4. Talk[i].ans \notin {"none", "good"}
      BY <1>4, <2>1, <2>2, <2>4, <2>6, <3>2, <3>3 DEF Command
    <3> QED BY <2>1, <2>4, <2>6, <3>2, <3>4 DEF Awaited
  <2>7. AtAnswer(run, <<>>, Talk, "received", c)
    BY <1>2, <2>1, <2>3, <2>5, <2>6 DEF AtAnswer, Rejected, Sends
  <2>8. Going(run, <<>>, talks'[run.gen], composer', "received", cur')
    BY <1>1, <2>7 DEF Going, AllQuiet, AtRest, AtSending, AtRetry, Sending, Talk, c
  <2> QED BY <1>1, <1>2, <1>4, <2>8, GotoSound
<1> QED BY <1>3, <1>4 DEF Wait

LEMMA ReceiveKeeps == ASSUME Inv, Inv', Keeps, Receive PROVE Keeps'
<1> DEFINE ev == [type |-> "received", rid |-> cur.rid, round |-> cur.round]
<1>1. pc = "received" /\ UNCHANGED <<talks, composer, issued, cur>> /\ Write(<<ev>>, "parse")
  BY DEF Receive, page
<1>2. /\ Active(run) /\ Lasting(run, <<>>, talks, composer, issued) /\ Going(run, <<>>, Talk, composer, "received", cur)
      /\ GoodRun(run) /\ GoodRun(run')
  BY <1>1, AtPlace DEF Archiving, Inv, TypeInv
<1>3. ev.type = "received" /\ ev.rid = cur.rid /\ ev.round = cur.round /\ Head(<<ev>>) = ev /\ Tail(<<ev>>) = <<>>
  OBVIOUS
<1> HIDE DEF ev
<1>4. run' = Reduce(run, ev) /\ run' = ResponseReceived(run, cur.rid, cur.round)
  BY <1>1, <1>3 DEF Write, Reduce
<1>5. Kept(run, run') /\ cur.rid \in run'.answered
  <2>1. Kept(run, run')
    BY <1>2, <1>4, SettledKept
  <2>2. cur.rid \in run'.answered
    BY <1>2, <1>4 DEF ResponseReceived, GoodRun, Runs
  <2> QED BY <2>1, <2>2
<1>6. Lasting(run', <<>>, talks, composer, issued)
  BY <1>2, <1>5, KeptLasting
<1>7. run'.gen = run.gen /\ Active(run')
  BY <1>2, <1>5 DEF Kept, SameLog
<1>8. AtAnswer(run, <<>>, Talk, "received", cur)
  BY <1>2 DEF Going
<1>9. AtAnswer(run', <<>>, Talk, "parse", cur)
  <2>1. \E t \in run'.pending : t.rid = cur.rid /\ t.round = cur.round /\ t.sub # "requested"
    BY <1>5, <1>8 DEF AtAnswer, Kept, Like
  <2>2. Rejected(cur) => NoneAwaited(run', Talk)
    BY <1>5, <1>8, KeptCommands DEF AtAnswer, NoneAwaited, Awaited
  <2> QED BY <1>5, <1>8, <2>1, <2>2, KeptCommands DEF AtAnswer
<1>10. Going(run', <<>>, talks[run'.gen], composer, "parse", cur)
  BY <1>7, <1>9 DEF Going, AllQuiet, AtRest, AtSending, AtRetry, Sending, Talk
<1>11. Sound(run', <<>>, "parse", cur', talks', composer', issued')
  BY <1>1, <1>6, <1>7, <1>10 DEF Sound, Course, Ending
<1> QED BY <1>1, <1>3, <1>4, <1>11, WriteTail

LEMMA RejectKeeps == ASSUME Inv, Inv', Keeps, Reject PROVE Keeps'
<1>1. pc = "parse" /\ ~cur.good /\ UNCHANGED <<talks, composer, issued>>
  BY DEF Reject, page
<1>2. /\ Active(run) /\ Lasting(run, <<>>, talks, composer, issued) /\ AtAnswer(run, <<>>, Talk, "parse", cur)
      /\ GoodRun(run)
  BY <1>1, AtPlace DEF Archiving, Inv, TypeInv, Going
<1>3. CASE \E code : FailOfPending(code)
  BY <1>1, <1>2, <1>3, FailOfPendingSound
<1>4. CASE Return(<<[type |-> "conflict", rid |-> cur.rid, code |-> "responseConflict"]>>)
  <2> DEFINE ev == [type |-> "conflict", rid |-> cur.rid, code |-> "responseConflict"]
  <2>1. Quiet(ev)
    BY DEF Quiet, QuietTypes
  <2> QED BY <1>1, <1>2, <1>4, <2>1, Alone, ReturnSound DEF Ends
<1>5. CASE ~(cur.first /\ cur.manual) /\ RequestTurn([cur EXCEPT !.attempt = @ + 1, !.first = FALSE])
  <2> DEFINE c == [cur EXCEPT !.attempt = @ + 1, !.first = FALSE]
  <2>1. c.rid = cur.rid /\ c.round = cur.round
    BY DEF Inv, TypeInv, Attempts
  <2> HIDE DEF c
  <2>2. Only(run, cur.rid) /\ NoneAwaited(run, Talk)
    BY <1>1, <1>2, <1>5 DEF AtAnswer, Rejected
  <2>3. PICK t \in run.pending : t.rid = cur.rid /\ t.round = cur.round
    BY <1>2 DEF AtAnswer
  <2>4. Rounds(run, Talk) /\ Issued(run, issued)
    BY <1>2 DEF Lasting, Talk
  <2>5. Reached(run, c.round - 1)
    BY <1>2, <2>1, <2>3, <2>4, PendingGood
  <2>6. Commanded(run, c.round) => Behind(run)
    BY <2>1, <2>3 DEF Behind
  <2>7. Issuing(run, issued, issued') /\ Known(run, issued', c.rid)
    BY <1>1, <2>1, <2>3, <2>4 DEF Issuing, Issued, Known
  <2> QED BY <1>1, <1>2, <1>5, <2>1, <2>2, <2>5, <2>6, <2>7, RequestSound DEF c, Only
<1> QED BY <1>1, <1>3, <1>4, <1>5 DEF Reject

LEMMA AppendKeeps == ASSUME Inv, Inv', Keeps, Append1 PROVE Keeps'
<1>1. pc = "append" /\ Write(todo, then) /\ UNCHANGED <<talks, composer, issued, cur>>
  BY DEF Append1, page
<1>2. todo \in Seq(Events) /\ todo # <<>> /\ then # "append"
  BY <1>1 DEF Inv, TypeInv, Ordinary
<1>3. Sound(run, todo, then, cur', talks', composer', issued')
  BY <1>1 DEF Keeps, place
<1> QED BY <1>1, <1>2, <1>3, WriteSound

\* Every element of the set is in its sequence.
LEMMA SetToSeqAll == ASSUME NEW S, IsFiniteSet(S), NEW x \in S PROVE \E i \in 1..Len(SetToSeq(S)) : SetToSeq(S)[i] = x
<1> DEFINE n == Cardinality(S)
           f == SetToSeq(S)
<1>1. n \in Nat /\ ExistsBijection(1..n, S)
  BY FS_CardinalityType
<1>2. \E g \in [1..n -> S] : IsInjective(g)
  BY <1>1 DEF ExistsBijection, Bijection, Injection
<1>3. f \in [1..n -> S] /\ IsInjective(f)
  BY <1>2 DEF SetToSeq
<1>4. f \in Injection(1..n, S)
  BY <1>3 DEF Injection
<1>5. Cardinality(1..n) = n
  BY <1>1, FS_CountingElements, FS_Interval
<1>6. f \in Surjection(1..n, S)
  BY <1>4, <1>5, FS_Injection
<1>7. \E i \in 1..n : f[i] = x
  BY <1>6 DEF Surjection
<1>8. f \in Seq(S)
  BY SetToSeqTyped
<1> HIDE DEF n, f
<1>9. Len(f) = n
  BY <1>1, <1>3, <1>8
<1> QED BY <1>7, <1>9 DEF f

LEMMA AcceptKeeps == ASSUME Inv, Inv', Keeps, Accept PROVE Keeps'
<1> DEFINE others == {t \in run.pending : cur.recovered /\ t.rid # cur.rid}
           E(t) == AbandonedEvent(t, "operator_selected", FALSE, FALSE)
           given == {E(t) : t \in others}
<1>1. PICK action \in {"work", "complete", "blocked"} :
        LET events == SetToSeq(given) \o <<AcceptedEvent(action)>>
        IN \/ Write(events, "execute") /\ UNCHANGED cur
           \/ Return(events)
  BY DEF Accept
<1> DEFINE a == AcceptedEvent(action)
           pre == SetToSeq(given)
           events == pre \o <<a>>
<1>2. pc = "parse" /\ cur.good /\ UNCHANGED <<talks, composer, issued>>
  BY DEF Accept, page
<1>3. /\ Active(run) /\ Lasting(run, <<>>, talks, composer, issued) /\ AtAnswer(run, <<>>, Talk, "parse", cur)
      /\ GoodRun(run)
  BY <1>2, AtPlace DEF Archiving, Inv, TypeInv, Going
<1>4. /\ a \in Events /\ a.type = "accepted" /\ a.rid = cur.rid /\ a.round = cur.round
  <2>1. cur.rid \in Ids /\ cur.round \in 1..MaxRounds
    BY <1>2, AskingTyped DEF Asking
  <2> QED BY <2>1 DEF AcceptedEvent, Events, Acceptances
<1>5. /\ Rounds(run, Talk) /\ Issued(run, issued)
  BY <1>3 DEF Lasting, Talk
<1>6. ASSUME NEW t \in others
      PROVE  /\ E(t) \in Events /\ E(t).type = "abandoned" /\ ~E(t).unconsumed /\ E(t).reason = "operator_selected"
             /\ E(t).turn = t /\ GoodTurn(run, t) /\ t.rid # cur.rid /\ t.rid \in DOMAIN issued
  <2>1. GoodTurn(run, t) /\ t \in Turn /\ t.rid \in DOMAIN issued
    BY <1>3, <1>5, PendingGood DEF Issued
  <2>2. E(t) \in Events
    BY <2>1, TurnEvents DEF Events, Reasons
  <2> QED BY <2>1, <2>2 DEF AbandonedEvent
<1>7. IsFiniteSet(given)
  <2>1. IsFiniteSet(others)
    BY <1>3, FS_Subset DEF GoodRun
  <2> DEFINE f == [t \in others |-> E(t)]
  <2>2. f \in Surjection(others, given)
    BY DEF Surjection
  <2> HIDE DEF f
  <2> QED BY <2>1, <2>2, FS_Surjection
<1>8. pre \in Seq(given) /\ \A x \in given : \E i \in 1..Len(pre) : pre[i] = x
  BY <1>7, SetToSeqTyped, SetToSeqAll
<1>9. given \subseteq Events
  BY <1>6
<1> HIDE DEF given, pre, a, others, E
<1>10. pre \in Seq(Events) /\ \A i \in 1..Len(pre) : pre[i] \in given
  BY <1>8, <1>9
<1>11. /\ events \in Seq(Events) /\ events # <<>> /\ Len(events) = Len(pre) + 1 /\ Len(pre) \in Nat
       /\ events[Len(events)] = a /\ \A i \in 1..(Len(events) - 1) : events[i] = pre[i]
  <2>1. <<a>> \in Seq(Events) /\ Len(<<a>>) = 1 /\ <<a>>[1] = a /\ <<a>> # <<>> /\ Len(pre) \in Nat
    BY <1>4, <1>10
  <2>2. /\ events \in Seq(Events) /\ events # <<>> /\ Len(events) = Len(pre) + 1
        /\ \A i \in 1..(Len(pre) + 1) : events[i] = IF i <= Len(pre) THEN pre[i] ELSE <<a>>[i - Len(pre)]
    BY <1>10, <2>1, Joined
  <2> HIDE DEF events
  <2> QED BY <2>1, <2>2
<1> HIDE DEF events
<1>12. Len(events) - 1 = Len(pre)
  BY <1>11
<1>13. \A i \in 1..(Len(events) - 1) :
         \E t \in others : events[i] = E(t)
  BY <1>10, <1>11, <1>12 DEF given
<1>14. \A t \in others : \E i \in 1..(Len(events) - 1) : events[i] = E(t)
  BY <1>8, <1>11, <1>12 DEF given
<1>15. \A i \in 1..(Len(events) - 1) :
         /\ events[i].type = "abandoned" /\ ~events[i].unconsumed /\ events[i].reason = "operator_selected"
         /\ GoodTurn(run, events[i].turn) /\ events[i].turn.rid # cur.rid /\ events[i].turn.rid \in DOMAIN issued
  <2> SUFFICES ASSUME NEW i \in 1..(Len(events) - 1)
               PROVE  /\ events[i].type = "abandoned" /\ ~events[i].unconsumed /\ events[i].reason = "operator_selected"
                      /\ GoodTurn(run, events[i].turn) /\ events[i].turn.rid # cur.rid /\ events[i].turn.rid \in DOMAIN issued
    OBVIOUS
  <2>1. PICK t \in others : events[i] = E(t)
    BY <1>13
  <2> QED BY <1>6, <2>1
<1>16. \A t \in run.pending : t.rid = cur.rid \/ \E i \in 1..(Len(events) - 1) : events[i].turn.rid = t.rid
  <2> SUFFICES ASSUME NEW t \in run.pending, t.rid # cur.rid PROVE \E i \in 1..(Len(events) - 1) : events[i].turn.rid = t.rid
    OBVIOUS
  <2>1. t \in others
    BY <1>3 DEF AtAnswer, Only, others
  <2>2. PICK i \in 1..(Len(events) - 1) : events[i] = E(t)
    BY <1>14, <2>1
  <2> QED BY <1>6, <2>1, <2>2
<1>17. Len(events) = 1 \/ ~Commanded(run, cur.round)
  <2>1. CASE Only(run, cur.rid)
    <3>1. others = {}
      BY <2>1 DEF others, Only
    <3>2. 1 \notin 1..(Len(events) - 1)
      BY <1>13, <3>1
    <3> QED BY <1>11, <3>2
  <2> QED BY <1>3, <2>1 DEF AtAnswer
<1>18. ASSUME NEW p, p = "execute" \/ (p = "down" /\ cur' = NoTurn), Write(events, p) PROVE Keeps'
  <2>1. Accepting(run, events, Talk, issued, p, cur')
    BY <1>2, <1>3, <1>4, <1>11, <1>15, <1>16, <1>17, <1>18 DEF Accepting, AtAnswer
  <2>2. Lasting(run, events, talks', composer', issued')
    BY <1>2, <1>3, LastingWith
  <2>3. Sound(run, events, p, cur', talks', composer', issued')
    BY <1>2, <1>3, <2>1, <2>2 DEF Sound, Course, Ending, Talk
  <2> QED BY <1>11, <1>18, <2>3, WriteSound
<1>19. Write(events, "execute") \/ (Write(events, "down") /\ cur' = NoTurn)
  BY <1>1 DEF Return, events, pre, a, given, others, E
<1> QED BY <1>18, <1>19

-----------------------------------------------------------------------------
(* Executing, archiving and rotating                                       *)

Plain(p) == p \notin Sending \cup {"drive", "execute", "down", "received", "parse", "retry", "retryclick"}

LEMMA PlainGoing ==
    ASSUME NEW s, NEW q, AllQuiet(q), NEW w, NEW k, NEW p, Plain(p), NEW c
    PROVE  Going(s, q, w, k, p, c)
  BY DEF Going, AtRest, AtSending, AtAnswer, AtRetry, Plain, Sending

\* The run ends: the turns are forgotten.
Ceases(s, u) ==
    /\ u.commands = s.commands /\ u.gen = s.gen /\ u.round = s.round /\ u.notSent = s.notSent /\ u.rollover = s.rollover
    /\ u.pending = {} /\ u.abandoned = {} /\ ~Active(u)

LEMMA CeasedLasting ==
    ASSUME NEW s, GoodRun(s), NEW u, Ceases(s, u), NEW q, NEW r, NEW T, NEW k, NEW I, Lasting(s, q, T, k, I)
    PROVE  Lasting(u, r, T, k, I)
<1> DEFINE w == T[s.gen]
<1>1. /\ u.commands = s.commands /\ u.gen = s.gen /\ u.round = s.round /\ u.notSent = s.notSent /\ u.rollover = s.rollover
      /\ u.pending = {} /\ u.abandoned = {} /\ ~Active(u)
  BY DEF Ceases
<1> HIDE DEF w
<1>2. Closed(s) /\ Backed(s, T) /\ Issued(s, I) /\ Rounds(s, w) /\ T[u.gen] = w
  BY <1>1 DEF Lasting, w
<1>3. \A x : (Commanded(u, x) <=> Commanded(s, x)) /\ (Used(u, x) <=> Used(s, x)) /\ (Reached(u, x) <=> Reached(s, x))
  BY <1>1 DEF Commanded, Used, Reached
<1>4. Closed(u) /\ Backed(u, T) /\ Issued(u, I)
  BY <1>1, <1>2, <1>3 DEF Closed, Backed, Issued, Known
<1>5. Behind(u) => Behind(s)
  BY <1>1, <1>3 DEF Behind
<1>6. Rounds(u, w)
  <2>1. \A i \in DOMAIN w : GoodMessage(u, w[i])
    BY <1>2, <1>3, <1>5 DEF Rounds, GoodMessage
  <2> QED BY <2>1, <1>1, <1>2, <1>3 DEF Rounds
<1> QED BY <1>1, <1>2, <1>4, <1>6 DEF Lasting, Covered, Based

LEMMA ExecuteKeeps == ASSUME Inv, Inv', Keeps, Execute PROVE Keeps'
<1>1. pc = "execute" /\ UNCHANGED <<talks, composer, issued>>
  BY DEF Execute, page
<1>2. /\ Active(run) /\ Lasting(run, <<>>, talks, composer, issued) /\ Going(run, <<>>, Talk, composer, "execute", cur)
      /\ GoodRun(run) /\ (cur # NoTurn => run.pending = {})
  BY <1>1, AtPlace DEF Archiving, Inv, TypeInv, Going, AtRest
<1>3. Quiet(Executed) /\ Executed.type = "executed"
  BY DEF Quiet, QuietTypes, Executed
<1> DEFINE next == IF cur = NoTurn THEN "rotate" ELSE "drive"
<1>4. CASE Write(<<Executed>>, next) /\ cur' = NoTurn
  <2>1. AllQuiet(<<Executed>>) /\ <<Executed>> # <<>> /\ <<Executed>> \in Seq({Executed})
    BY <1>3, Alone
  <2>2. Going(run, <<Executed>>, talks'[run.gen], composer', next, NoTurn)
    BY <1>2, <2>1 DEF Going, AtRest, AtSending, AtAnswer, AtRetry, Sending
  <2> QED BY <1>1, <1>2, <1>4, <2>1, <2>2, QuietWrite
<1>5. CASE Return(<<Executed>>)
  BY <1>1, <1>2, <1>3, <1>5, Alone, ReturnSound DEF Ends
<1>6. CASE Return(<<Executed, FailedEvent("stagnation", None, "none")>>)
  <2>1. Quiet(FailedEvent("stagnation", None, "none"))
    BY DEF Quiet, QuietTypes, FailedEvent
  <2> HIDE DEF FailedEvent
  <2> QED BY <1>1, <1>2, <1>3, <1>6, <2>1, Together, ReturnSound DEF Ends
<1>7. CASE UNCHANGED cur /\ Write(<<[type |-> "completed"]>>, "archive")
  <2> DEFINE ev == [type |-> "completed"]
  <2>1. ev.type = "completed" /\ Head(<<ev>>) = ev /\ Tail(<<ev>>) = <<>>
    OBVIOUS
  <2> HIDE DEF ev
  <2>2. run' = Reduce(run, ev) /\ run' = RunCompleted(run)
    BY <1>7, <2>1 DEF Write, Reduce, ev
  <2>3. Ceases(run, run')
    BY <1>2, <2>2 DEF RunCompleted, Ended, Ceases, GoodRun, Runs, Active
  <2>4. Lasting(run', <<>>, talks, composer, issued)
    BY <1>2, <2>3, CeasedLasting
  <2>5. Going(run', <<>>, talks[run'.gen], composer, "archive", cur)
    BY PlainGoing DEF Plain, Sending, AllQuiet
  <2>6. Sound(run', <<>>, "archive", cur', talks', composer', issued')
    BY <1>1, <1>7, <2>4, <2>5 DEF Sound, Course, Ending, Archiving
  <2> QED BY <1>7, <2>1, <2>2, <2>6, WriteTail DEF ev
<1>8. CASE Return(<<[type |-> "blocked"], Executed>>)
  <2> DEFINE ev == [type |-> "blocked"]
             events == <<ev, Executed>>
  <2>1. ev.type = "blocked" /\ Head(events) = ev /\ Tail(events) = <<Executed>>
    OBVIOUS
  <2> HIDE DEF ev
  <2>2. Write(events, "down") /\ cur' = NoTurn
    BY <1>8 DEF Return, ev
  <2>3. run' = Reduce(run, ev) /\ run' = RunBlocked(run)
    BY <2>1, <2>2 DEF Write, Reduce
  <2>4. Ceases(run, run')
    BY <1>2, <2>3 DEF RunBlocked, Ended, Ceases, GoodRun, Runs, Active
  <2>5. Lasting(run', <<Executed>>, talks, composer, issued)
    BY <1>2, <2>4, CeasedLasting
  <2>6. AllQuiet(<<Executed>>)
    BY <1>3, Alone
  <2>7. Going(run', <<Executed>>, talks[run'.gen], composer, "down", NoTurn)
    BY <2>6, DownGoing
  <2>8. \A i \in DOMAIN <<Executed>> : <<Executed>>[i] = Executed
    OBVIOUS
  <2>9. Sound(run', <<Executed>>, "down", cur', talks', composer', issued')
    BY <1>1, <1>3, <2>2, <2>5, <2>7, <2>8 DEF Sound, Course, Ending
  <2> HIDE DEF events
  <2> QED BY <2>1, <2>2, <2>3, <2>9, WriteTail
<1> QED BY <1>4, <1>5, <1>6, <1>7, <1>8 DEF Execute

LEMMA ArchiveKept ==
    ASSUME NEW s, GoodRun(s), NEW status
    PROVE  Kept(s, ArchiveStarted(s)) /\ Kept(s, ArchiveSettled(s, status)) /\ Kept(s, s)
<1>1. \A a : Kept(s, [s EXCEPT !.archive = a])
  <2> TAKE a
  <2> DEFINE u == [s EXCEPT !.archive = a]
  <2>1. /\ u.round = s.round /\ u.gen = s.gen /\ u.commands = s.commands /\ u.abandoned = s.abandoned
        /\ u.notSent = s.notSent /\ u.rollover = s.rollover /\ u.answered = s.answered /\ u.status = s.status
        /\ u.pending = s.pending
    BY DEF GoodRun, Runs
  <2> HIDE DEF u
  <2>2. SameLog(s, u)
    BY <2>1 DEF SameLog, Active
  <2> QED BY <2>1, <2>2, KeptSame DEF u
<1>2. Kept(s, s)
  BY SettledKept
<1> QED BY <1>1, <1>2 DEF ArchiveStarted, ArchiveSettled

\* The steps of an ended run
LEMMA EndedSound ==
    ASSUME Inv, Inv', Keeps, pc # "append", Kept(run, run'), todo' = <<>>, UNCHANGED <<talks, composer, issued>>,
           pc' \in Archiving \/ (pc' = "down" /\ cur' = NoTurn)
    PROVE  Keeps'
<1>1. Lasting(run, <<>>, talks, composer, issued) /\ GoodRun(run')
  BY AtPlace DEF Inv, TypeInv
<1>2. Lasting(run', <<>>, talks, composer, issued)
  BY <1>1, KeptLasting
<1>3. AllQuiet(<<>>)
  BY DEF AllQuiet
<1>4. Going(run', <<>>, talks[run'.gen], composer, pc', cur')
  <2>1. CASE pc' \in Archiving
    BY <1>3, <2>1, PlainGoing DEF Plain, Archiving, Sending
  <2>2. CASE pc' = "down" /\ cur' = NoTurn
    BY <1>3, <2>2, DownGoing
  <2> QED BY <2>1, <2>2
<1>5. place' = pc'
  BY DEF place, Archiving
<1> QED BY <1>2, <1>4, <1>5 DEF Keeps, Sound, Course, Ending

LEMMA ArchiveKeeps ==
    ASSUME Inv, Inv', Keeps, Archive \/ ArchiveClick \/ ArchiveProof \/ ContinueArchive
    PROVE  Keeps'
<1>1. /\ UNCHANGED <<talks, composer, issued>> /\ GoodRun(run) /\ pc # "append" /\ todo = <<>>
  BY DEF Archive, ArchiveClick, ArchiveProof, ContinueArchive, page, Inv, TypeInv
<1>2. ASSUME NEW events, events = <<>> \/ \E status : events = <<Settled(status)>>, End(events) PROVE Keeps'
  <2>1. CASE events = <<>>
    <3>1. run' = run /\ todo' = <<>> /\ pc' = "down" /\ cur' = NoTurn
      BY <1>1, <1>2, <2>1 DEF End, WriteAll, Goto, store
    <3> QED BY <1>1, <3>1, ArchiveKept, EndedSound
  <2>2. ASSUME NEW status, events = <<Settled(status)>> PROVE Keeps'
    <3> DEFINE ev == Settled(status)
    <3>1. ev.type = "archive_settled" /\ ev.status = status
      BY DEF Settled
    <3>2. Head(<<ev>>) = ev /\ Tail(<<ev>>) = <<>> /\ <<ev>> # <<>>
      OBVIOUS
    <3> HIDE DEF ev
    <3>3. Write(<<ev>>, "down") /\ cur' = NoTurn
      BY <1>2, <2>2, <3>2 DEF End, WriteAll, ev
    <3>4. run' = ArchiveSettled(run, status) /\ todo' = <<>> /\ pc' = "down"
      BY <3>1, <3>2, <3>3 DEF Write, Reduce
    <3> QED BY <1>1, <3>3, <3>4, ArchiveKept, EndedSound
  <2> QED BY <1>2, <2>1, <2>2
<1>3. CASE Write(<<[type |-> "archive_started"]>>, "archiving")
  <2> DEFINE ev == [type |-> "archive_started"]
  <2>1. ev.type = "archive_started" /\ Head(<<ev>>) = ev /\ Tail(<<ev>>) = <<>>
    OBVIOUS
  <2> HIDE DEF ev
  <2>2. Write(<<ev>>, "archiving")
    BY <1>3 DEF ev
  <2>3. run' = ArchiveStarted(run) /\ todo' = <<>> /\ pc' = "archiving"
    BY <2>1, <2>2 DEF Write, Reduce
  <2> QED BY <1>1, <2>3, ArchiveKept, EndedSound DEF Archiving
<1>4. CASE \E p \in Archiving : Goto(p)
  <2>1. run' = run /\ todo' = <<>> /\ pc' \in Archiving
    BY <1>1, <1>4 DEF Goto, store
  <2> QED BY <1>1, <2>1, ArchiveKept, EndedSound
<1>5. CASE Archive
  BY <1>2, <1>3, <1>5 DEF Archive
<1>6. CASE ArchiveProof
  BY <1>2, <1>6 DEF ArchiveProof
<1> QED BY <1>4, <1>5, <1>6 DEF ArchiveClick, ContinueArchive, Archiving

LEMMA ContinueKeeps == ASSUME Inv, Inv', Keeps, Continue PROVE Keeps'
<1> DEFINE ev == [type |-> "resumed"]
           next == IF run.exec # NoCommand THEN "execute" ELSE "rotate"
<1>1. pc = "down" /\ UNCHANGED <<talks, composer, issued, cur>> /\ Active(run) /\ Write(<<ev>>, next)
  BY DEF Continue, page, Active
<1>2. Lasting(run, <<>>, talks, composer, issued) /\ cur = NoTurn
  BY <1>1, AtPlace DEF Going, AtRest
<1>3. Quiet(ev)
  BY DEF Quiet, QuietTypes
<1> HIDE DEF ev
<1>4. AllQuiet(<<ev>>) /\ <<ev>> # <<>> /\ <<ev>> \in Seq({ev})
  BY <1>3, Alone
<1>5. Going(run, <<ev>>, talks'[run.gen], composer', next, cur')
  BY <1>1, <1>2, <1>4 DEF Going, AtRest, AtSending, AtAnswer, AtRetry, Sending
<1> QED BY <1>1, <1>2, <1>4, <1>5, QuietWrite

\* A place where nothing is assumed
LEMMA PlainGoto ==
    ASSUME Inv, NEW next, next \in {"open", "reconcile", "rotate"}, Goto(next), pc # "append", Active(run),
           Lasting(run, <<>>, talks', composer', issued')
    PROVE  Keeps'
<1>1. AllQuiet(<<>>)
  BY DEF AllQuiet
<1>2. Going(run, <<>>, talks'[run.gen], composer', next, cur')
  BY <1>1, PlainGoing DEF Plain, Sending
<1> QED BY <1>2, GotoSound

LEMMA RotateKeeps == ASSUME Inv, Inv', Keeps, Rotate PROVE Keeps'
<1>1. pc = "rotate" /\ UNCHANGED <<talks, composer, issued>>
  BY DEF Rotate, page
<1>2. Active(run) /\ Lasting(run, <<>>, talks', composer', issued')
  BY <1>1, AtPlace DEF Archiving
<1>3. CASE Write(<<[type |-> "activated"]>>, "reconcile")
  <2> DEFINE ev == [type |-> "activated"]
  <2>1. Quiet(ev)
    BY DEF Quiet, QuietTypes
  <2> HIDE DEF ev
  <2>2. AllQuiet(<<ev>>) /\ <<ev>> # <<>> /\ <<ev>> \in Seq({ev})
    BY <2>1, Alone
  <2>3. Going(run, <<ev>>, talks'[run.gen], composer', "reconcile", cur')
    BY <2>2, PlainGoing DEF Plain, Sending
  <2> QED BY <1>2, <1>3, <2>2, <2>3, QuietWrite DEF ev
<1>4. CASE Goto("open") \/ Goto("reconcile")
  BY <1>1, <1>2, <1>4, PlainGoto
<1> QED BY <1>3, <1>4 DEF Rotate

LEMMA RotateOnRequestKeeps == ASSUME Inv, Inv', Keeps, RotateOnRequest PROVE Keeps'
<1>1. pc = "rotate" /\ UNCHANGED <<talks, composer, issued>>
  BY DEF RotateOnRequest, page
<1>2. Active(run) /\ Lasting(run, <<>>, talks, composer, issued) /\ GoodRun(run)
  BY <1>1, AtPlace DEF Archiving, Inv, TypeInv
<1>3. CASE FailOfPending("rotationUnsafe")
  BY <1>1, <1>2, <1>3, FailOfPendingSound
<1>4. CASE /\ \E t \in run.pending : TRUE
           /\ Write(<<[type |-> "rotation_requested", turn |-> CHOOSE t \in run.pending : TRUE]>>, "open")
  <2> DEFINE t == CHOOSE x \in run.pending : TRUE
             ev == [type |-> "rotation_requested", turn |-> t]
  <2>1. t \in run.pending /\ ev.type = "rotation_requested" /\ ev.turn = t /\ Head(<<ev>>) = ev /\ Tail(<<ev>>) = <<>>
    BY <1>4
  <2>2. Write(<<ev>>, "open")
    BY <1>4
  <2> HIDE DEF ev, t
  <2>3. run' = Reduce(run, ev) /\ run' = RotationRequested(run, t)
    BY <2>1, <2>2 DEF Write, Reduce
  <2>4. /\ run'.commands = run.commands /\ run'.gen = run.gen /\ run'.round = run.round /\ run'.notSent = run.notSent
        /\ run'.pending = run.pending /\ run'.abandoned = run.abandoned /\ run'.answered = run.answered
        /\ run'.status = run.status
        /\ run'.rollover = run.rollover \/ run'.rollover.round = t.round
    BY <1>2, <2>3 DEF RotationRequested, GoodRun, Runs
  <2> DEFINE w == Talk
  <2>5. Closed(run) /\ Backed(run, talks) /\ Issued(run, issued) /\ Rounds(run, w) /\ Covered(run, <<>>, w, composer) /\ Based(run, <<>>, w)
    BY <1>2 DEF Lasting, Talk
  <2> HIDE DEF w
  <2>6. /\ \A x : (Commanded(run', x) <=> Commanded(run, x)) /\ (Used(run', x) <=> Used(run, x)) /\ (Reached(run', x) <=> Reached(run, x))
        /\ Behind(run') <=> Behind(run)
    BY <2>4 DEF Commanded, Used, Reached, Behind
  <2>7. Rounds(run', w)
    <3>1. \A x : GoodTurn(run, x) => GoodTurn(run', x)
      BY <2>4, <2>6 DEF GoodTurn
    <3>2. \A m : GoodMessage(run, m) => GoodMessage(run', m)
      BY <2>6 DEF GoodMessage
    <3>3. Reached(run', Lower(t.round))
      BY <1>2, <2>1, <2>5, <2>6, PendingGood, LowerFacts
    <3> QED BY <2>4, <2>5, <2>6, <3>1, <3>2, <3>3 DEF Rounds, Active
  <2>8. Closed(run') /\ Backed(run', talks) /\ Issued(run', issued)
    BY <2>4, <2>5, <2>6 DEF Closed, Backed, Issued, Known
  <2>9. Covered(run', <<>>, w, composer) /\ Based(run', <<>>, w)
    BY <2>4, <2>5, <2>6 DEF Covered, Based, Awaited, Active, Only
  <2>10. Lasting(run', <<>>, talks, composer, issued) /\ Active(run')
    BY <1>2, <2>4, <2>7, <2>8, <2>9 DEF Lasting, w, Talk, Active
  <2>11. Going(run', <<>>, talks[run'.gen], composer, "open", cur')
    BY PlainGoing DEF Plain, Sending, AllQuiet
  <2>12. Sound(run', <<>>, "open", cur', talks', composer', issued')
    BY <1>1, <2>10, <2>11 DEF Sound, Course, Ending
  <2> QED BY <2>1, <2>2, <2>3, <2>12, WriteTail
<1> QED BY <1>3, <1>4 DEF RotateOnRequest

\* In the new conversation nothing was asked.
LEMMA ReplacedLasting ==
    ASSUME NEW s, GoodRun(s), NEW u, GoodRun(u), u = ReplacementOpened(s), u.gen # s.gen,
           NEW T, NEW k, NEW I, Lasting(s, <<>>, T, k, I)
    PROVE  Lasting(u, <<>>, T, EmptyComposer, I) /\ (Active(s) => Active(u))
<1>1. /\ s.rollover.status = "opening" /\ TurnOf(s.pending, s.rollover.rid) # {}
      /\ u.commands = s.commands /\ u.gen = s.gen + 1 /\ u.round = Lower(s.rollover.round) /\ u.notSent = s.notSent
      /\ u.pending = Without(s.pending, s.rollover.rid)
      /\ u.abandoned = s.abandoned \cup TurnOf(s.pending, s.rollover.rid) /\ u.status = s.status
  BY DEF ReplacementOpened, GoodRun, Runs
<1>2. u.rollover.status = "opened"
  <2>1. u.rollover = [s.rollover EXCEPT !.status = "opened"]
    BY <1>1 DEF ReplacementOpened, GoodRun, Runs
  <2> QED BY <2>1, Fields DEF Rollovers
<1>3. Closed(s) /\ Backed(s, T) /\ Issued(s, I) /\ Rounds(s, T[s.gen])
  BY DEF Lasting
<1>4. \A x : (Commanded(u, x) <=> Commanded(s, x)) /\ (Used(u, x) <=> Used(s, x)) /\ (Reached(u, x) <=> Reached(s, x))
  BY <1>1 DEF Commanded, Used, Reached
<1>5. s.gen \in Nat /\ u.gen \in 1..MaxGen /\ u.gen > s.gen
  BY <1>1, Fields
<1>6. T[u.gen] = <<>> /\ Backed(u, T)
  BY <1>1, <1>3, <1>5, TurnAssumption DEF Backed
<1>7. u.pending \cup u.abandoned \subseteq s.pending \cup s.abandoned /\ u.pending \subseteq s.pending
  BY <1>1 DEF Without, TurnOf
<1>8. Closed(u) /\ Issued(u, I)
  BY <1>1, <1>3, <1>4, <1>7 DEF Closed, Issued, Known
<1>9. Rounds(u, <<>>)
  <2>1. ASSUME NEW t \in s.pending \cup s.abandoned PROVE GoodTurn(u, t)
    <3>1. GoodTurn(s, t) /\ t.gen \in 1..MaxGen
      BY <1>3, Fields, TurnFields DEF Rounds
    <3> QED BY <1>4, <1>5, <3>1, TurnAssumption DEF GoodTurn
  <2>2. Reached(u, u.round)
    BY <1>1, <1>3, <1>4 DEF Rounds
  <2> QED BY <1>2, <1>3, <1>7, <2>1, <2>2 DEF Rounds
<1>10. Covered(u, <<>>, <<>>, EmptyComposer) /\ Based(u, <<>>, <<>>)
  BY DEF Covered, Based
<1> QED BY <1>1, <1>6, <1>8, <1>9, <1>10 DEF Lasting, Active

LEMMA OpenKeeps == ASSUME Inv, Inv', Keeps, Open PROVE Keeps'
<1>1. pc = "open" /\ pc # "append" /\ UNCHANGED <<talks, issued>>
  BY DEF Open
<1>2. Active(run) /\ Lasting(run, <<>>, talks, composer, issued) /\ GoodRun(run) /\ GoodRun(run')
  BY <1>1, AtPlace DEF Archiving, Inv, TypeInv
<1>3. CASE Goto("reconcile") /\ composer' = EmptyComposer
  <2>1. Lasting(run, <<>>, talks', composer', issued')
    BY <1>1, <1>2, <1>3, LastingEmptied
  <2> QED BY <1>1, <1>2, <1>3, <2>1, PlainGoto
<1>4. CASE Write(<<[type |-> "replaced"]>>, "reconcile") /\ composer' = EmptyComposer
  <2> DEFINE ev == [type |-> "replaced"]
  <2>1. ev.type = "replaced" /\ Head(<<ev>>) = ev /\ Tail(<<ev>>) = <<>>
    OBVIOUS
  <2> HIDE DEF ev
  <2>2. Write(<<ev>>, "reconcile")
    BY <1>4 DEF ev
  <2>3. run' = Reduce(run, ev) /\ run' = ReplacementOpened(run)
    BY <2>1, <2>2 DEF Write, Reduce
  <2>4. Lasting(run', <<>>, talks, EmptyComposer, issued) /\ Active(run')
    <3>1. CASE run'.gen # run.gen
      BY <1>2, <2>3, <3>1, ReplacedLasting
    <3>2. CASE run'.gen = run.gen
      <4>1. run' = run
        BY <1>2, <2>3, <3>2, Fields DEF ReplacementOpened, GoodRun, Runs
      <4> QED BY <1>2, <4>1, LastingEmptied
    <3> QED BY <3>1, <3>2
  <2>5. Going(run', <<>>, talks[run'.gen], composer', "reconcile", cur')
    BY PlainGoing DEF Plain, Sending, AllQuiet
  <2>6. Sound(run', <<>>, "reconcile", cur', talks', composer', issued')
    BY <1>1, <1>4, <2>4, <2>5 DEF Sound, Course, Ending
  <2> QED BY <2>1, <2>2, <2>3, <2>6, WriteTail
<1>5. CASE UNCHANGED composer /\ End(<<>>)
  <2>1. <<>> \in Seq({}) /\ AllQuiet(<<>>)
    BY DEF AllQuiet
  <2> QED BY <1>1, <1>2, <1>5, <2>1, EndSound
<1>6. CASE UNCHANGED composer /\ End(<<[type |-> "rotation_failed"]>>)
  <2> DEFINE ev == [type |-> "rotation_failed"]
  <2>1. Quiet(ev)
    BY DEF Quiet, QuietTypes
  <2> HIDE DEF ev
  <2>2. AllQuiet(<<ev>>) /\ <<ev>> \in Seq({ev})
    BY <2>1, Alone
  <2> QED BY <1>1, <1>2, <1>6, <2>2, EndSound DEF ev
<1> QED BY <1>3, <1>4, <1>5, <1>6 DEF Open, WriteAll

-----------------------------------------------------------------------------
(* Reconciling                                                             *)

LEMMA QuietJoin ==
    ASSUME NEW S, NEW q \in Seq(S), NEW r \in Seq(S), AllQuiet(q), AllQuiet(r)
    PROVE  AllQuiet(q \o r) /\ q \o r \in Seq(S)
<1> DEFINE x == q \o r
<1>1. x \in Seq(S) /\ Len(x) = Len(q) + Len(r) /\ \A n \in 1..Len(x) : x[n] = IF n <= Len(q) THEN q[n] ELSE r[n - Len(q)]
  BY Joined
<1>2. Len(q) \in Nat /\ Len(r) \in Nat /\ DOMAIN q = 1..Len(q) /\ DOMAIN r = 1..Len(r)
  OBVIOUS
<1> HIDE DEF x
<1>3. DOMAIN x = 1..Len(x)
  BY <1>1
<1>4. ASSUME NEW n \in DOMAIN x PROVE Quiet(x[n])
  <2>1. CASE n <= Len(q)
    BY <1>1, <1>2, <1>3, <2>1 DEF AllQuiet
  <2>2. CASE n > Len(q)
    <3>1. n - Len(q) \in 1..Len(r) /\ x[n] = r[n - Len(q)]
      BY <1>1, <1>2, <1>3, <2>2
    <3> QED BY <1>2, <3>1 DEF AllQuiet
  <2> QED BY <1>1, <1>2, <1>3, <2>1, <2>2
<1> QED BY <1>1, <1>4 DEF AllQuiet, x

LEMMA SkipQuiet == ASSUME NEW t \in Turn PROVE AllQuiet(Skip(t)) /\ Skip(t) \in Seq(CalmEvents)
<1> DEFINE ev == [type |-> "failure_skipped", rid |-> t.rid, round |-> t.round]
<1>1. Quiet(ev)
  BY DEF Quiet, QuietTypes
<1> HIDE DEF ev
<1>2. AllQuiet(<<ev>>) /\ AllQuiet(<<>>)
  BY <1>1, Alone DEF AllQuiet
<1> QED BY <1>2, TurnEvents DEF Skip, ev

\* The turn and what comes before: events that end with its abandonment
GivesUp(t, pre, reason, fresh, next) ==
    /\ pc # "append" /\ Active(run) /\ Lasting(run, <<>>, talks, composer, issued) /\ NoneAwaited(run, Talk)
    /\ run.pending = {t} /\ UNCHANGED <<talks, composer, issued>>
    /\ pre \in Seq(Events) /\ reason \in Reasons /\ fresh \in BOOLEAN
    /\ \A i \in DOMAIN pre : Quiet(pre[i]) \/ (pre[i].type = "not_sent" /\ pre[i].turn = t)
    /\ Write(pre \o <<AbandonedEvent(t, reason, TRUE, fresh)>>, next)
    /\ next = "drive" \/ (next = "down" /\ cur' = NoTurn)

LEMMA AbandonSound ==
    ASSUME Inv, Inv', NEW t, NEW pre, NEW reason, NEW fresh, NEW next, GivesUp(t, pre, reason, fresh, next)
    PROVE  Keeps'
<1> USE DEF GivesUp
<1> DEFINE a == AbandonedEvent(t, reason, TRUE, fresh)
           events == pre \o <<a>>
<1>1. GoodRun(run) /\ t \in Turn
  BY PendingTyped DEF Inv, TypeInv
<1>2. a \in Events /\ a.type = "abandoned" /\ a.unconsumed /\ a.turn = t
  <2>1. a \in CalmEvents
    BY <1>1, TurnEvents
  <2> QED BY <2>1 DEF Events, AbandonedEvent
<1> HIDE DEF a
<1>3. /\ events \in Seq(Events) /\ events # <<>> /\ Len(events) = Len(pre) + 1 /\ Len(pre) \in Nat
      /\ events[Len(events)] = a /\ \A i \in 1..(Len(events) - 1) : i \in DOMAIN pre /\ events[i] = pre[i]
  <2>1. /\ <<a>> \in Seq(Events) /\ Len(<<a>>) = 1 /\ <<a>>[1] = a /\ <<a>> # <<>> /\ Len(pre) \in Nat
        /\ DOMAIN pre = 1..Len(pre)
    BY <1>2
  <2>2. /\ events \in Seq(Events) /\ events # <<>> /\ Len(events) = Len(pre) + 1
        /\ \A i \in 1..(Len(pre) + 1) : events[i] = IF i <= Len(pre) THEN pre[i] ELSE <<a>>[i - Len(pre)]
    BY <2>1, Joined
  <2> HIDE DEF events
  <2> QED BY <2>1, <2>2
<1>4. GoodTurn(run, t)
  BY DEF Lasting, Rounds
<1>5. Write(events, next) /\ next # "append"
  BY DEF a
<1> HIDE DEF events
<1>6. Abandoning(run, events, Talk, next, cur')
  BY <1>2, <1>3, <1>4 DEF Abandoning, Only
<1>7. Lasting(run, events, talks', composer', issued')
  BY <1>1, LastingWith
<1>8. Sound(run, events, next, cur', talks', composer', issued')
  BY <1>6, <1>7 DEF Sound, Course, Ending, Talk
<1> QED BY <1>3, <1>5, <1>8, WriteSound

\* What holds when a pending turn is looked at
LEMMA AtTurn ==
    ASSUME Inv, Keeps, pc = "reconcile" \/ (pc = "down" /\ run.status \in {"running", "failed"})
    PROVE  /\ pc # "append" /\ GoodRun(run) /\ Active(run) /\ Lasting(run, <<>>, talks, composer, issued)
           /\ Closed(run) /\ Rounds(run, Talk) /\ Covered(run, <<>>, Talk, composer) /\ Based(run, <<>>, Talk)
           /\ Issued(run, issued) /\ Len(Talk) \in Nat /\ DOMAIN Talk = 1..Len(Talk)
           /\ ~Confirms(<<>>) /\ run.pending \subseteq Turn
<1>1. pc # "append" /\ GoodRun(run) /\ Active(run) /\ Lasting(run, <<>>, talks, composer, issued)
  <2>1. pc # "append"
    OBVIOUS
  <2>2. Active(run) /\ Lasting(run, <<>>, talks, composer, issued)
    BY <2>1, AtPlace DEF Archiving, Active
  <2> QED BY <2>1, <2>2 DEF Inv, TypeInv
<1>2. Talk \in Seq(Messages)
  BY TalkTyped
<1>3. Len(Talk) \in Nat /\ DOMAIN Talk = 1..Len(Talk)
  BY <1>2
<1>4. ~Confirms(<<>>)
  BY DEF Confirms
<1> QED BY <1>1, <1>3, <1>4, Fields DEF Lasting, Talk

\* A turn that is not posted, and that the composer holds or that was not sent by
\* hand: nothing is awaited.
LEMMA NotPosted ==
    ASSUME Inv, Keeps, pc = "reconcile" \/ (pc = "down" /\ run.status \in {"running", "failed"}),
           NEW t, run.pending = {t}, ~Posted(t.rid), ~t.manual \/ composer # EmptyComposer
    PROVE  NoneAwaited(run, Talk)
<1>1. Covered(run, <<>>, Talk, composer) /\ Active(run) /\ ~Confirms(<<>>)
  BY AtTurn
<1> QED BY <1>1 DEF Covered, NoneAwaited, Covers, Shows, Posted

LEMMA ReconcileFailsKeeps ==
    ASSUME Inv, Inv', Keeps, ReconcileNothing \/ ReconcileAmbiguous \/ ReconcileUnreadable
    PROVE  Keeps'
<1>1. pc = "reconcile" /\ UNCHANGED <<talks, composer, issued>>
  BY DEF ReconcileNothing, ReconcileAmbiguous, ReconcileUnreadable, page
<1>2. Active(run) /\ Lasting(run, <<>>, talks', composer', issued')
  BY <1>1, AtTurn
<1>3. CASE ReconcileNothing
  <2>1. run.pending = {} /\ Goto("drive") /\ cur' = NoTurn
    BY <1>3 DEF ReconcileNothing
  <2>2. Going(run, <<>>, talks'[run.gen], composer', "drive", cur')
    BY <2>1 DEF Going, AllQuiet, AtRest, AtSending, AtAnswer, AtRetry, Sending
  <2> QED BY <1>1, <1>2, <2>1, <2>2, GotoSound
<1>4. CASE ReconcileAmbiguous
  BY <1>2, <1>4, FailSound DEF ReconcileAmbiguous
<1>5. CASE ReconcileUnreadable
  BY <1>2, <1>5, FailSound DEF ReconcileUnreadable
<1> QED BY <1>3, <1>4, <1>5

\* A proof that the turn was not sent, when there is none yet
LEMMA ProofEvent ==
    ASSUME NEW t \in Turn, NEW base \in Nat, NEW keep
    PROVE  LET pre == IF keep THEN <<NotSentEvent(t, base)>> ELSE <<>>
           IN pre \in Seq(Events) /\ \A i \in DOMAIN pre : pre[i].type = "not_sent" /\ pre[i].turn = t
<1> DEFINE ev == NotSentEvent(t, base)
<1>1. ev.type = "not_sent" /\ ev.turn = t /\ ev \in Events
  BY TurnEvents DEF NotSentEvent, Events
<1> HIDE DEF ev
<1>2. <<ev>> \in Seq(Events) /\ <<>> \in Seq(Events) /\ \A i \in DOMAIN <<ev>> : <<ev>>[i] = ev
  BY <1>1
<1> QED BY <1>1, <1>2 DEF ev

LEMMA ReconcileUnsentKeeps == ASSUME Inv, Inv', Keeps, ReconcileUnsent PROVE Keeps'
<1>1. pc = "reconcile" /\ UNCHANGED <<talks, composer, issued>>
  BY DEF ReconcileUnsent, page
<1>2. PICK t \in run.pending :
        /\ run.pending = {t} /\ t.sub = "requested"
        /\ LET keep == t.comp = "attach" /\ t.retryOf = None /\ ~t.manual /\ run.bound /\ run.notSent.of # t.rid
               events == (IF keep THEN <<NotSentEvent(t, t.base)>> ELSE <<>>)
                         \o <<AbandonedEvent(t, "definitely_not_sent_retry", TRUE, FALSE)>>
           IN \/ Write(events, "drive") /\ cur' = NoTurn
              \/ Return(events)
  BY DEF ReconcileUnsent
<1> DEFINE keep == t.comp = "attach" /\ t.retryOf = None /\ ~t.manual /\ run.bound /\ run.notSent.of # t.rid
           pre == IF keep THEN <<NotSentEvent(t, t.base)>> ELSE <<>>
           events == pre \o <<AbandonedEvent(t, "definitely_not_sent_retry", TRUE, FALSE)>>
<1>3. /\ pc # "append" /\ GoodRun(run) /\ Active(run) /\ Lasting(run, <<>>, talks, composer, issued)
      /\ Covered(run, <<>>, Talk, composer) /\ ~Confirms(<<>>)
  BY <1>1, AtTurn
<1>4. NoneAwaited(run, Talk)
  BY <1>2, <1>3 DEF Covered, NoneAwaited, Covers
<1>5. t \in Turn /\ t.base \in Nat
  BY PendingTyped
<1>6. pre \in Seq(Events) /\ \A i \in DOMAIN pre : pre[i].type = "not_sent" /\ pre[i].turn = t
  BY <1>5, ProofEvent
<1>7. PICK next \in {"drive", "down"} : Write(events, next) /\ cur' = NoTurn
  BY <1>2 DEF Return
<1> HIDE DEF pre
<1>8. GivesUp(t, pre, "definitely_not_sent_retry", FALSE, next)
  BY <1>1, <1>2, <1>3, <1>4, <1>6, <1>7 DEF GivesUp, Reasons
<1> QED BY <1>8, AbandonSound

\* Of several turns only one whose command the page shows is selected.
LEMMA SelectedTurn ==
    ASSUME Inv, Keeps, Truthful, pc = "reconcile", NEW t, Selected(t)
    PROVE  /\ t \in run.pending /\ t \in Turn /\ t.sub # "requested"
           /\ \/ run.pending = {t}
              \/ Posted(t.rid) /\ Talk # <<>> /\ Command(Latest) /\ Exact(t) /\ ~Commanded(run, t.round)
<1>1. t \in run.pending /\ (IF run.pending = {t} THEN t.sub # "requested" ELSE Authoritative(t))
  BY DEF Selected, Truthful
<1>2. /\ Len(Talk) \in Nat /\ DOMAIN Talk = 1..Len(Talk) /\ t \in Turn
  BY <1>1, AtTurn
<1>3. CASE Authoritative(t)
  <2>1. t.sub # "requested" /\ Talk # <<>> /\ Command(Latest) /\ Latest.rid = t.rid /\ Latest.round = t.round
    BY <1>3 DEF Authoritative
  <2>2. ~Commanded(run, t.round)
    BY <1>2, <1>3, TurnFields, TurnAssumption DEF Authoritative, Superseded, Commanded
  <2>3. Len(Talk) \in DOMAIN Talk /\ Latest = Talk[Len(Talk)] /\ ~Answering
    <3>1. Talk \in Seq(Messages)
      BY TalkTyped
    <3>2. Len(Talk) # 0
      BY <2>1, <3>1, EmptySeq
    <3> QED BY <1>2, <2>1, <3>2 DEF Latest, Answering, Command
  <2>4. Posted(t.rid) /\ Exact(t)
    BY <2>1, <2>3 DEF Posted, Exact
  <2> QED BY <1>1, <1>2, <2>1, <2>2, <2>4
<1> QED BY <1>1, <1>2, <1>3

\* A message that is awaited although the page shows something that is no command
\* for the turn is a delivery timeout.
LEMMA AwaitedTimeout ==
    ASSUME Inv, Keeps, pc = "reconcile", NEW t, run.pending = {t}, Readable(t), ~Exact(t), ~t.manual,
           NEW i \in DOMAIN Talk, Awaited(run, Talk[i])
    PROVE  i = Len(Talk) /\ Talk[i].ans = "timeout" /\ Talk[i].rid = t.rid
<1>1. /\ GoodRun(run) /\ Active(run) /\ Closed(run) /\ Rounds(run, Talk) /\ Covered(run, <<>>, Talk, composer)
      /\ Based(run, <<>>, Talk) /\ DOMAIN Talk = 1..Len(Talk) /\ Len(Talk) \in Nat /\ ~Confirms(<<>>)
  BY AtTurn
<1>2. i = Len(Talk) /\ Latest = Talk[i] /\ Talk # <<>>
  BY <1>1 DEF Covered, Latest
<1>3. ~Answering /\ Len(Talk) > t.base /\ (t.comp = "attach" \/ Latest.rid = t.rid)
  BY DEF Readable, TextHidden, Ours
<1>4. Talk[i].rid = t.rid
  <2>1. CASE t.comp = "attach"
    <3>1. HasAnswer(Talk, t.rid, t.round) \/ \A j \in DOMAIN Talk : j > t.base => Talk[j].rid = t.rid
      BY <1>1, <2>1 DEF Based, Only
    <3>2. ~HasAnswer(Talk, t.rid, t.round)
      BY <1>3 DEF HasAnswer, Exact
    <3> QED BY <1>2, <1>3, <3>1, <3>2
  <2> QED BY <1>2, <1>3, <2>1
<1>5. Talk[i].round = t.round
  BY <1>1, AwaitedRound
<1>6. Talk[i].ans # "none" /\ Talk[i].ans # "good"
  BY <1>2, <1>3, <1>4, <1>5 DEF Answering, Exact, Command
<1> QED BY <1>2, <1>4, <1>6 DEF Awaited

\* What is seen of a turn is taken for its answer.
LEMMA AttemptGoing ==
    ASSUME Inv, Keeps, Truthful, pc = "reconcile", NEW t, Selected(t), Readable(t), NEW q, AllQuiet(q),
           q = <<>> \/ (Talk # <<>> /\ Latest.ans # "timeout")
    PROVE  Going(run, q, Talk, composer, "received", AttemptOf(t))
<1> DEFINE c == AttemptOf(t)
<1>1. /\ c.rid = t.rid /\ c.round = t.round /\ c.recovered /\ c.good = Exact(t) /\ c.first /\ c.manual = t.manual
  BY DEF AttemptOf, NoTurn
<1> HIDE DEF c
<1>2. /\ t \in run.pending /\ t.sub # "requested"
      /\ run.pending = {t} \/ (Exact(t) /\ ~Commanded(run, t.round))
  BY SelectedTurn
<1>3. Exact(t) => HasAnswer(Talk, t.rid, t.round)
  BY DEF Exact, HasAnswer
<1>4. ASSUME ~c.good, ~(c.first /\ c.manual), NEW i \in DOMAIN Talk, Awaited(run, Talk[i])
      PROVE  Talk[i].ans = "timeout" /\ Talk[i].rid = c.rid /\ q = <<>>
  <2>1. i = Len(Talk) /\ Talk[i].ans = "timeout" /\ Talk[i].rid = t.rid
    BY <1>1, <1>2, <1>4, AwaitedTimeout
  <2> QED BY <1>1, <2>1 DEF Latest
<1>5. AtAnswer(run, q, Talk, "received", c)
  BY <1>1, <1>2, <1>3, <1>4 DEF AtAnswer, Rejected, Only
<1> QED BY <1>5 DEF Going, AtRest, AtSending, AtRetry, Sending, c

LEMMA ObserveAnswerKeeps == ASSUME Inv, Inv', Keeps, Truthful, ObserveAnswer PROVE Keeps'
<1>1. pc = "reconcile" /\ UNCHANGED <<talks, composer, issued>>
  BY DEF ObserveAnswer, page
<1>2. PICK t \in run.pending :
        /\ Selected(t) /\ AnswerSeen(t)
        /\ \/ /\ cur' = NoTurn
              /\ Write(Skip(t) \o <<FailedEvent("turnMismatch", t.rid, "possibly_sent")>>, "down")
           \/ Readable(t) /\ WriteAll(Skip(t), "received") /\ cur' = AttemptOf(t)
  BY DEF ObserveAnswer
<1>3. /\ pc # "append" /\ GoodRun(run) /\ Active(run) /\ Lasting(run, <<>>, talks', composer', issued')
  BY <1>1, AtTurn
<1>4. t \in Turn /\ AllQuiet(Skip(t)) /\ Skip(t) \in Seq(CalmEvents)
  BY PendingTyped, SkipQuiet
<1>5. CASE cur' = NoTurn /\ Write(Skip(t) \o <<FailedEvent("turnMismatch", t.rid, "possibly_sent")>>, "down")
  <2> DEFINE ev == FailedEvent("turnMismatch", t.rid, "possibly_sent")
             events == Skip(t) \o <<ev>>
  <2>1. ev \in CalmEvents /\ Quiet(ev)
    <3>1. ev \in CalmEvents
      BY <1>4, TurnEvents DEF Codes
    <3> QED BY <3>1 DEF Quiet, QuietTypes, FailedEvent
  <2> HIDE DEF ev
  <2>2. <<ev>> \in Seq(CalmEvents) /\ AllQuiet(<<ev>>) /\ <<ev>> # <<>>
    BY <2>1, Alone
  <2>3. AllQuiet(events) /\ events \in Seq(CalmEvents) /\ events # <<>>
    BY <1>4, <2>2, QuietJoin, Joined
  <2> QED BY <1>3, <1>5, <2>3, ReturnSound DEF Ends, Return, ev
<1>6. CASE Readable(t) /\ WriteAll(Skip(t), "received") /\ cur' = AttemptOf(t)
  <2>1. Talk # <<>> /\ Latest.ans # "timeout"
    BY <1>2 DEF AnswerSeen, Command
  <2>2. Going(run, Skip(t), talks'[run.gen], composer', "received", cur')
    BY <1>1, <1>2, <1>4, <1>6, <2>1, AttemptGoing DEF Talk
  <2>3. CASE Skip(t) = <<>>
    BY <1>3, <1>6, <2>2, <2>3, GotoSound DEF WriteAll
  <2>4. CASE Skip(t) # <<>>
    BY <1>3, <1>4, <1>6, <2>2, <2>4, QuietWrite DEF WriteAll
  <2> QED BY <2>3, <2>4
<1> QED BY <1>2, <1>5, <1>6

LEMMA ReadTurnKeeps == ASSUME Inv, Inv', Keeps, Truthful, ReadTurn PROVE Keeps'
<1>1. pc = "reconcile" /\ UNCHANGED <<talks, composer, issued>>
  BY DEF ReadTurn, page
<1>2. PICK t \in run.pending :
        /\ Selected(t)
        /\ \/ \E code : Fail(code, t.rid, "possibly_sent")
           \/ Readable(t) /\ Goto("received") /\ cur' = AttemptOf(t)
           \/ ReturnNow
  BY DEF ReadTurn
<1>3. /\ pc # "append" /\ GoodRun(run) /\ Active(run) /\ Lasting(run, <<>>, talks', composer', issued')
  BY <1>1, AtTurn
<1>4. CASE \E code : Fail(code, t.rid, "possibly_sent")
  BY <1>3, <1>4, FailSound
<1>5. CASE Readable(t) /\ Goto("received") /\ cur' = AttemptOf(t)
  <2>1. AllQuiet(<<>>)
    BY DEF AllQuiet
  <2>2. Going(run, <<>>, talks'[run.gen], composer', "received", cur')
    BY <1>1, <1>2, <1>5, <2>1, AttemptGoing DEF Talk
  <2> QED BY <1>3, <1>5, <2>2, GotoSound
<1>6. CASE ReturnNow
  BY <1>3, <1>6, ReturnNowSound
<1> QED BY <1>2, <1>4, <1>5, <1>6

\* Events that come before the one that gives up the turn
Preamble(q, t) ==
    q \in Seq(Events) /\ \A i \in DOMAIN q : Quiet(q[i]) \/ (q[i].type = "not_sent" /\ q[i].turn = t)

LEMMA PreambleJoin ==
    ASSUME NEW t, NEW q, Preamble(q, t), NEW r, Preamble(r, t)
    PROVE  Preamble(q \o r, t)
<1> DEFINE x == q \o r
<1>1. x \in Seq(Events) /\ Len(x) = Len(q) + Len(r) /\ \A n \in 1..Len(x) : x[n] = IF n <= Len(q) THEN q[n] ELSE r[n - Len(q)]
  BY Joined DEF Preamble
<1>2. Len(q) \in Nat /\ Len(r) \in Nat /\ DOMAIN q = 1..Len(q) /\ DOMAIN r = 1..Len(r)
  BY DEF Preamble
<1> HIDE DEF x
<1>3. DOMAIN x = 1..Len(x)
  BY <1>1
<1>4. ASSUME NEW n \in DOMAIN x PROVE Quiet(x[n]) \/ (x[n].type = "not_sent" /\ x[n].turn = t)
  <2>1. CASE n <= Len(q)
    BY <1>1, <1>2, <1>3, <2>1 DEF Preamble
  <2>2. CASE n > Len(q)
    <3>1. n - Len(q) \in 1..Len(r) /\ x[n] = r[n - Len(q)]
      BY <1>1, <1>2, <1>3, <2>2
    <3> QED BY <1>2, <3>1 DEF Preamble
  <2> QED BY <1>1, <1>2, <1>3, <2>1, <2>2
<1> QED BY <1>1, <1>4 DEF Preamble, x

LEMMA CalmPreamble ==
    ASSUME NEW t, NEW q \in Seq(CalmEvents), AllQuiet(q)
    PROVE  Preamble(q, t)
<1>1. q \in Seq(Events)
  BY DEF Events
<1> QED BY <1>1 DEF Preamble, AllQuiet

LEMMA ObserveNotSentKeeps == ASSUME Inv, Inv', Keeps, Truthful, ObserveNotSent PROVE Keeps'
<1>1. pc = "reconcile" /\ UNCHANGED <<talks, composer, issued>>
  BY DEF ObserveNotSent, page
<1>2. PICK t \in run.pending :
        /\ Selected(t) /\ NotSentSeen(t)
        /\ \/ /\ PostFixCandidate(run, t)
              /\ Return(<<AbandonedEvent(t, "definitely_not_sent_retry", TRUE, TRUE)>>)
           \/ Return(<<[type |-> "waiting", turn |-> t]>>)
           \/ Return(Skip(t)
                     \o (IF run.notSent.of # t.rid THEN <<NotSentEvent(t, t.base)>> ELSE <<>>)
                     \o <<AbandonedEvent(t, "fresh_observation_definitely_not_sent", TRUE, TRUE)>>)
  BY DEF ObserveNotSent
<1>3. /\ pc # "append" /\ GoodRun(run) /\ Active(run) /\ Lasting(run, <<>>, talks, composer, issued)
  BY <1>1, AtTurn
<1>4. run.pending = {t} /\ ~Posted(t.rid) /\ t \in Turn /\ t.base \in Nat
  <2>1. ~Posted(t.rid)
    BY <1>2 DEF NotSentSeen
  <2> QED BY <1>1, <1>2, <2>1, SelectedTurn, PendingTyped
<1>5. NoneAwaited(run, Talk)
  <2>1. ~t.manual \/ composer # EmptyComposer
    BY <1>2 DEF NotSentSeen, StagedFor, Staged, EmptyComposer, PostFixCandidate
  <2> QED BY <1>1, <1>4, <2>1, NotPosted
<1>6. ASSUME NEW pre, Preamble(pre, t), NEW reason \in Reasons,
             Return(pre \o <<AbandonedEvent(t, reason, TRUE, TRUE)>>)
      PROVE  Keeps'
  <2>1. GivesUp(t, pre, reason, TRUE, "down")
    BY <1>1, <1>3, <1>4, <1>5, <1>6 DEF GivesUp, Preamble, Return
  <2> QED BY <2>1, AbandonSound
<1>7. CASE Return(<<AbandonedEvent(t, "definitely_not_sent_retry", TRUE, TRUE)>>)
  <2> DEFINE a == AbandonedEvent(t, "definitely_not_sent_retry", TRUE, TRUE)
  <2>1. Preamble(<<>>, t) /\ <<>> \o <<a>> = <<a>> /\ "definitely_not_sent_retry" \in Reasons
    BY DEF Preamble, Reasons
  <2> QED BY <1>6, <1>7, <2>1
<1>8. CASE Return(<<[type |-> "waiting", turn |-> t]>>)
  <2> DEFINE ev == [type |-> "waiting", turn |-> t]
  <2>1. Quiet(ev)
    BY DEF Quiet, QuietTypes
  <2> QED BY <1>1, <1>3, <1>8, <2>1, Alone, ReturnSound DEF Ends
<1>9. CASE Return(Skip(t)
                  \o (IF run.notSent.of # t.rid THEN <<NotSentEvent(t, t.base)>> ELSE <<>>)
                  \o <<AbandonedEvent(t, "fresh_observation_definitely_not_sent", TRUE, TRUE)>>)
  <2> DEFINE proof == IF run.notSent.of # t.rid THEN <<NotSentEvent(t, t.base)>> ELSE <<>>
             a == AbandonedEvent(t, "fresh_observation_definitely_not_sent", TRUE, TRUE)
  <2>1. Preamble(proof, t)
    BY <1>4, ProofEvent DEF Preamble
  <2>2. Preamble(Skip(t), t)
    BY <1>4, SkipQuiet, CalmPreamble
  <2>3. Return((Skip(t) \o proof) \o <<a>>)
    BY <1>9
  <2> HIDE DEF proof
  <2>4. Preamble(Skip(t) \o proof, t)
    BY <2>1, <2>2, PreambleJoin
  <2>5. "fresh_observation_definitely_not_sent" \in Reasons
    BY DEF Reasons
  <2> QED BY <1>6, <2>3, <2>4, <2>5
<1> QED BY <1>2, <1>7, <1>8, <1>9

LEMMA ObserveFailureKeeps == ASSUME Inv, Inv', Keeps, Truthful, ObserveFailure PROVE Keeps'
<1>1. pc = "reconcile" /\ UNCHANGED <<talks, composer, issued>>
  BY DEF ObserveFailure, page
<1>2. PICK t \in run.pending :
        /\ Selected(t) /\ FailureSeen(t, "failed")
        /\ \/ Write(<<[type |-> "failure_consumed", rid |-> t.rid, round |-> t.round],
                      AbandonedEvent(t, "controller_response_retry_authorized", TRUE, FALSE)>>, "drive")
           \/ Return(<<[type |-> "failure_observed", rid |-> t.rid, round |-> t.round]>>)
           \/ ReturnNow
  BY DEF ObserveFailure
<1>3. /\ pc # "append" /\ GoodRun(run) /\ Active(run) /\ Lasting(run, <<>>, talks, composer, issued)
      /\ Covered(run, <<>>, Talk, composer) /\ ~Confirms(<<>>)
  BY <1>1, AtTurn
<1>4. CASE Return(<<[type |-> "failure_observed", rid |-> t.rid, round |-> t.round]>>)
  <2> DEFINE ev == [type |-> "failure_observed", rid |-> t.rid, round |-> t.round]
  <2>1. Quiet(ev)
    BY DEF Quiet, QuietTypes
  <2> QED BY <1>1, <1>3, <1>4, <2>1, Alone, ReturnSound DEF Ends
<1>5. CASE ReturnNow
  BY <1>1, <1>3, <1>5, ReturnNowSound
<1>6. CASE Write(<<[type |-> "failure_consumed", rid |-> t.rid, round |-> t.round],
                   AbandonedEvent(t, "controller_response_retry_authorized", TRUE, FALSE)>>, "drive")
  <2> DEFINE ev == [type |-> "failure_consumed", rid |-> t.rid, round |-> t.round]
             a == AbandonedEvent(t, "controller_response_retry_authorized", TRUE, FALSE)
  <2>1. Latest.ans = "failed" /\ Talk # <<>>
    BY <1>2 DEF FailureSeen
  <2>2. run.pending = {t} /\ t \in Turn
    BY <1>1, <1>2, <2>1, SelectedTurn DEF Command
  <2>3. NoneAwaited(run, Talk)
    BY <1>3, <2>1 DEF NoneAwaited, Covered, Awaited, Latest
  <2>4. Preamble(<<ev>>, t)
    <3>1. ev \in CalmEvents /\ Quiet(ev)
      BY <2>2, TurnEvents DEF Quiet, QuietTypes
    <3> HIDE DEF ev
    <3>2. <<ev>> \in Seq(CalmEvents) /\ AllQuiet(<<ev>>)
      BY <3>1, Alone
    <3> QED BY <3>2, CalmPreamble
  <2>5. Write(<<ev>> \o <<a>>, "drive")
    BY <1>6, PairOf
  <2> HIDE DEF ev
  <2>6. GivesUp(t, <<ev>>, "controller_response_retry_authorized", FALSE, "drive")
    BY <1>1, <1>3, <2>2, <2>3, <2>4, <2>5 DEF GivesUp, Preamble, Reasons
  <2> QED BY <2>6, AbandonSound
<1> QED BY <1>2, <1>4, <1>5, <1>6

\* The delivery of the message of the only turn timed out.
LEMMA TimeoutGoing ==
    ASSUME Inv, Keeps, Truthful, pc = "reconcile", NEW t, Selected(t), Observable(t), FailureSeen(t, "timeout"),
           NEW q, AllQuiet(q)
    PROVE  Going(run, q, Talk, composer, "retry", AttemptOf(t))
<1> DEFINE c == AttemptOf(t)
<1>1. c.rid = t.rid /\ c.round = t.round
  BY DEF AttemptOf, NoTurn
<1> HIDE DEF c
<1>2. /\ Talk # <<>> /\ Latest.ans = "timeout" /\ Correlated(t) /\ composer = EmptyComposer
  BY DEF FailureSeen
<1>3. run.pending = {t} /\ t.sub # "requested" /\ t \in Turn
  BY <1>2, SelectedTurn DEF Command
<1>4. Based(run, <<>>, Talk) /\ DOMAIN Talk = 1..Len(Talk) /\ Len(Talk) \in Nat /\ ~Confirms(<<>>)
  BY AtTurn
<1>5. t.comp # "none"
  BY DEF Observable, PostFixCandidate
<1>6. Covers(t, Talk)
  <2>1. CASE Posted(t.rid) \/ t.manual
    BY <1>3, <2>1 DEF Covers, Shows, Posted
  <2>2. CASE t.base > 0 /\ Len(Talk) = t.base + 1 /\ ~t.manual
    <3>1. HasAnswer(Talk, t.rid, t.round) \/ \A i \in DOMAIN Talk : i > t.base => Talk[i].rid = t.rid
      BY <1>3, <1>4, <1>5, <2>2 DEF Based, Only
    <3>2. Len(Talk) \in DOMAIN Talk /\ Len(Talk) > t.base
      BY <1>3, <1>4, <2>2, TurnFields
    <3> QED BY <1>3, <3>1, <3>2 DEF Covers, Shows, HasAnswer
  <2> QED BY <1>2, <2>1, <2>2 DEF Correlated
<1>7. AtRetry(run, Talk, composer, "retry", c)
  BY <1>1, <1>2, <1>3, <1>6 DEF AtRetry, Only, Latest
<1> QED BY <1>7 DEF Going, AtRest, AtSending, AtAnswer, Sending, c

LEMMA ObserveTimeoutKeeps == ASSUME Inv, Inv', Keeps, Truthful, ObserveTimeout PROVE Keeps'
<1>1. pc = "reconcile" /\ UNCHANGED <<talks, composer, issued>>
  BY DEF ObserveTimeout, page
<1>2. PICK t \in run.pending :
        /\ Selected(t) /\ Observable(t) /\ FailureSeen(t, "timeout")
        /\ \/ Return(Skip(t) \o <<[type |-> "timeout_observed", rid |-> t.rid, round |-> t.round]>>)
           \/ WriteAll(Skip(t), "retry") /\ cur' = AttemptOf(t)
           \/ /\ cur' = AttemptOf(t)
              /\ Write(Skip(t) \o <<[type |-> "timeout_rearmed", rid |-> t.rid, round |-> t.round]>>, "retry")
           \/ End(Skip(t))
  BY DEF ObserveTimeout
<1>3. /\ pc # "append" /\ GoodRun(run) /\ Active(run) /\ Lasting(run, <<>>, talks', composer', issued')
  BY <1>1, AtTurn
<1>4. t \in Turn /\ AllQuiet(Skip(t)) /\ Skip(t) \in Seq(CalmEvents)
  BY PendingTyped, SkipQuiet
<1>5. \A q : AllQuiet(q) => Going(run, q, talks'[run.gen], composer', "retry", AttemptOf(t))
  BY <1>1, <1>2, TimeoutGoing DEF Talk
<1>6. ASSUME NEW ev, Quiet(ev), ev \in Events
      PROVE  LET events == Skip(t) \o <<ev>> IN AllQuiet(events) /\ events \in Seq(Events) /\ events # <<>>
  <2>1. Skip(t) \in Seq(Events) /\ <<ev>> \in Seq(Events) /\ AllQuiet(<<ev>>) /\ <<ev>> # <<>>
    BY <1>4, <1>6, Alone DEF Events
  <2> QED BY <1>4, <2>1, QuietJoin, Joined
<1>7. CASE Return(Skip(t) \o <<[type |-> "timeout_observed", rid |-> t.rid, round |-> t.round]>>)
  <2> DEFINE ev == [type |-> "timeout_observed", rid |-> t.rid, round |-> t.round]
  <2>1. Quiet(ev) /\ ev \in Events
    BY <1>4, TurnEvents DEF Quiet, QuietTypes, Events
  <2> HIDE DEF ev
  <2> QED BY <1>3, <1>6, <1>7, <2>1, ReturnSound DEF Ends, ev
<1>8. CASE WriteAll(Skip(t), "retry") /\ cur' = AttemptOf(t)
  <2>1. CASE Skip(t) = <<>>
    BY <1>3, <1>4, <1>5, <1>8, <2>1, GotoSound DEF WriteAll
  <2>2. CASE Skip(t) # <<>>
    BY <1>3, <1>4, <1>5, <1>8, <2>2, QuietWrite DEF WriteAll
  <2> QED BY <2>1, <2>2
<1>9. CASE /\ cur' = AttemptOf(t)
           /\ Write(Skip(t) \o <<[type |-> "timeout_rearmed", rid |-> t.rid, round |-> t.round]>>, "retry")
  <2> DEFINE ev == [type |-> "timeout_rearmed", rid |-> t.rid, round |-> t.round]
             events == Skip(t) \o <<ev>>
  <2>1. Quiet(ev) /\ ev \in Events
    BY <1>4, TurnFields DEF Quiet, QuietTypes, Events, Rearmings
  <2> HIDE DEF ev
  <2>2. AllQuiet(events) /\ events \in Seq(Events) /\ events # <<>>
    BY <1>6, <2>1
  <2>3. Write(events, "retry")
    BY <1>9 DEF ev
  <2> HIDE DEF events
  <2> QED BY <1>3, <1>5, <1>9, <2>2, <2>3, QuietWrite
<1>10. CASE End(Skip(t))
  BY <1>3, <1>4, <1>10, EndSound
<1> QED BY <1>2, <1>7, <1>8, <1>9, <1>10

LEMMA ObservePendingKeeps == ASSUME Inv, Inv', Keeps, ObservePending PROVE Keeps'
<1>1. pc = "reconcile" /\ UNCHANGED <<talks, composer, issued>>
  BY DEF ObservePending, page
<1>2. PICK t \in run.pending : End(Skip(t))
  BY DEF ObservePending
<1>3. /\ pc # "append" /\ Active(run) /\ Lasting(run, <<>>, talks', composer', issued')
  BY <1>1, AtTurn
<1>4. AllQuiet(Skip(t)) /\ Skip(t) \in Seq(CalmEvents)
  BY PendingTyped, SkipQuiet
<1> QED BY <1>2, <1>3, <1>4, EndSound

-----------------------------------------------------------------------------
(* The last message gets another answer                                    *)

\* The last message of w, which had no command, has the answer ans in x.
Reanswers(w, x, ans) ==
    /\ Len(w) \in Nat /\ DOMAIN w = 1..Len(w) /\ Len(w) \in DOMAIN w /\ w[Len(w)].ans \in {"none", "timeout"}
    /\ Len(x) = Len(w) /\ DOMAIN x = DOMAIN w
    /\ \A i \in DOMAIN w : x[i].rid = w[i].rid /\ x[i].round = w[i].round /\ (i # Len(w) => x[i] = w[i])
    /\ x[Len(w)].ans = ans

ReanswersIn(T, U, g, ans) == Reanswers(T[g], U[g], ans) /\ \A h \in 1..MaxGen : h # g => U[h] = T[h]

LEMMA LastMessage ==
    ASSUME NEW w \in Seq(Messages), w # <<>>
    PROVE  Len(w) \in DOMAIN w /\ Len(w) \in Nat /\ DOMAIN w = 1..Len(w) /\ w[Len(w)] \in Messages
<1>1. Len(w) \in Nat /\ DOMAIN w = 1..Len(w) /\ Len(w) # 0
  BY EmptySeq
<1>2. Len(w) \in DOMAIN w
  BY <1>1
<1> QED BY <1>1, <1>2

LEMMA ReansweredMessage ==
    ASSUME NEW T \in Conversations, NEW g \in 1..MaxGen, T[g] # <<>>, T[g][Len(T[g])].ans \in {"none", "timeout"},
           NEW ans, NEW U, U = [T EXCEPT ![g][Len(T[g])].ans = ans]
    PROVE  ReanswersIn(T, U, g, ans)
<1> DEFINE w == T[g]
           x == U[g]
<1>1. w \in Seq(Messages)
  BY DEF Conversations
<1>2. x = [w EXCEPT ![Len(w)].ans = ans] /\ \A h \in 1..MaxGen : h # g => U[h] = T[h]
  BY DEF Conversations
<1>3. w # <<>> /\ w[Len(w)].ans \in {"none", "timeout"}
  OBVIOUS
<1> HIDE DEF w, x
<1>4. Len(w) \in DOMAIN w /\ Len(w) \in Nat /\ DOMAIN w = 1..Len(w) /\ w[Len(w)] \in Messages
  BY <1>1, <1>3, LastMessage
<1>5. x = [i \in DOMAIN w |-> IF i = Len(w) THEN [w[i] EXCEPT !.ans = ans] ELSE w[i]]
  BY <1>1, <1>2, <1>4
<1>6. DOMAIN x = DOMAIN w
  BY <1>5
<1>7. Len(x) = Len(w)
  BY <1>4, <1>5, <1>6
<1>8. \A i \in DOMAIN w : i # Len(w) => x[i] = w[i]
  BY <1>5
<1>9. x[Len(w)] = [w[Len(w)] EXCEPT !.ans = ans]
  BY <1>4, <1>5
<1>10. x[Len(w)].ans = ans /\ x[Len(w)].rid = w[Len(w)].rid /\ x[Len(w)].round = w[Len(w)].round
  BY <1>4, <1>9 DEF Messages
<1>11. \A i \in DOMAIN w : x[i].rid = w[i].rid /\ x[i].round = w[i].round
  BY <1>8, <1>10
<1>12. Reanswers(w, x, ans)
  BY <1>3, <1>4, <1>6, <1>7, <1>8, <1>10, <1>11 DEF Reanswers
<1> QED BY <1>2, <1>12 DEF ReanswersIn, w, x

LEMMA ReansweredFacts ==
    ASSUME NEW s, NEW w, NEW x, NEW ans, Reanswers(w, x, ans)
    PROVE  /\ \A r, round : HasAnswer(w, r, round) => HasAnswer(x, r, round)
           /\ \A r : Shows(w, r) <=> Shows(x, r)
           /\ \A i \in DOMAIN x : i \in DOMAIN w /\ (Awaited(s, x[i]) => Awaited(s, w[i]) \/ i = Len(w))
<1>1. \A r, round : HasAnswer(w, r, round) => HasAnswer(x, r, round)
  BY DEF Reanswers, HasAnswer, Command
<1>2. \A r : Shows(w, r) <=> Shows(x, r)
  BY DEF Reanswers, Shows
<1>3. \A i \in DOMAIN x : i \in DOMAIN w /\ (Awaited(s, x[i]) => Awaited(s, w[i]) \/ i = Len(w))
  BY DEF Reanswers
<1> QED BY <1>1, <1>2, <1>3

LEMMA ReansweredLasting ==
    ASSUME NEW s, GoodRun(s), NEW T, NEW U, NEW ans, ReanswersIn(T, U, s.gen, ans), NEW q, NEW k, NEW I, Lasting(s, q, T, k, I),
           LET n == Len(T[s.gen])
           IN \/ Awaited(s, U[s.gen][n]) => Awaited(s, T[s.gen][n])
              \/ /\ k = EmptyComposer /\ \A i \in DOMAIN T[s.gen] : Awaited(s, T[s.gen][i]) => i = n
                 /\ \E t \in s.pending : Covers(t, T[s.gen])
    PROVE  Lasting(s, q, U, k, I)
<1> DEFINE w == T[s.gen]
           x == U[s.gen]
           n == Len(T[s.gen])
<1>1. s.gen \in 1..MaxGen
  BY Fields
<1>2. Reanswers(w, x, ans) /\ \A h \in 1..MaxGen : h # s.gen => U[h] = T[h]
  BY DEF ReanswersIn
<1>3. \/ Awaited(s, x[n]) => Awaited(s, w[n])
      \/ k = EmptyComposer /\ (\A i \in DOMAIN w : Awaited(s, w[i]) => i = n) /\ \E t \in s.pending : Covers(t, w)
  OBVIOUS
<1>4. n = Len(w)
  OBVIOUS
<1> HIDE DEF w, x, n
<1>5. Closed(s) /\ Backed(s, T) /\ Issued(s, I) /\ Rounds(s, w) /\ Based(s, q, w) /\ Covered(s, q, w, k)
  BY DEF Lasting, w
<1>6. /\ \A r, round : HasAnswer(w, r, round) => HasAnswer(x, r, round)
      /\ \A r : Shows(w, r) <=> Shows(x, r)
      /\ \A i \in DOMAIN x : i \in DOMAIN w /\ (Awaited(s, x[i]) => Awaited(s, w[i]) \/ i = Len(w))
  BY <1>2, ReansweredFacts
<1>7. Backed(s, U)
  <2>1. ASSUME NEW g \in 1..MaxGen, NEW r, NEW round, HasAnswer(T[g], r, round) PROVE HasAnswer(U[g], r, round)
    BY <2>1, <1>2, <1>6 DEF w, x
  <2>2. \A g \in 1..MaxGen : g > s.gen => U[g] = <<>>
    BY <1>1, <1>2, <1>5 DEF Backed
  <2> QED BY <2>1, <2>2, <1>5 DEF Backed
<1>8. Rounds(s, x)
  <2>1. \A i \in DOMAIN x : GoodMessage(s, x[i])
    BY <1>2, <1>5 DEF Rounds, Reanswers, GoodMessage
  <2> QED BY <2>1, <1>5 DEF Rounds
<1>9. Based(s, q, x)
  BY <1>2, <1>5, <1>6 DEF Based, Reanswers
<1>10. Covered(s, q, x, k)
  <2>1. Len(x) = Len(w) /\ \A t : Covers(t, w) <=> Covers(t, x)
    BY <1>2, <1>6 DEF Reanswers, Covers
  <2>2. CASE Awaited(s, x[n]) => Awaited(s, w[n])
    <3>1. \A i \in DOMAIN x : Awaited(s, x[i]) => Awaited(s, w[i]) /\ i \in DOMAIN w
      BY <1>4, <1>6, <2>2
    <3> QED BY <1>5, <2>1, <3>1 DEF Covered
  <2>3. CASE k = EmptyComposer /\ (\A i \in DOMAIN w : Awaited(s, w[i]) => i = n) /\ \E t \in s.pending : Covers(t, w)
    <3>1. \A i \in DOMAIN x : Awaited(s, x[i]) => i = Len(x)
      BY <1>4, <1>6, <2>1, <2>3
    <3> QED BY <2>1, <2>3, <3>1 DEF Covered
  <2> QED BY <1>3, <2>2, <2>3
<1> QED BY <1>5, <1>7, <1>8, <1>9, <1>10 DEF Lasting, x

-----------------------------------------------------------------------------
(* The Retry of the page                                                   *)

\* What holds while Retry is prepared
LEMMA AtRetrying ==
    ASSUME Inv, Keeps, pc \in {"retry", "retryclick"}
    PROVE  /\ pc # "append" /\ GoodRun(run) /\ Active(run) /\ Lasting(run, <<>>, talks, composer, issued)
           /\ Only(run, cur.rid) /\ (\E t \in run.pending : t.round = cur.round /\ Covers(t, Talk))
           /\ composer = EmptyComposer /\ Talk # <<>> /\ Latest.ans # "none"
           /\ Len(Talk) \in DOMAIN Talk /\ Len(Talk) \in Nat /\ DOMAIN Talk = 1..Len(Talk)
<1>1. GoodRun(run) /\ Active(run) /\ Lasting(run, <<>>, talks, composer, issued) /\ Going(run, <<>>, Talk, composer, pc, cur)
  BY AtPlace DEF Archiving, Inv, TypeInv
<1>2. AtRetry(run, Talk, composer, pc, cur)
  BY <1>1 DEF Going
<1>3. Talk \in Seq(Messages) /\ Talk # <<>>
  BY <1>2, TalkTyped DEF AtRetry
<1>4. Len(Talk) \in DOMAIN Talk /\ Len(Talk) \in Nat /\ DOMAIN Talk = 1..Len(Talk)
  BY <1>3, LastMessage
<1> QED BY <1>1, <1>2, <1>4 DEF AtRetry, Latest

LEMMA AnswerInsteadKeeps ==
    ASSUME Inv, Keeps, pc \in {"retry", "retryclick"}, AnswerInstead, UNCHANGED <<talks, composer, issued>>
    PROVE  Keeps'
<1> DEFINE c == cur'
<1>1. /\ pc # "append" /\ Active(run) /\ Lasting(run, <<>>, talks', composer', issued')
      /\ Only(run, cur.rid) /\ (\E t \in run.pending : t.round = cur.round /\ Covers(t, Talk))
      /\ Talk # <<>> /\ Len(Talk) \in DOMAIN Talk
  BY AtRetrying
<1>2. Command(Latest) /\ Latest.rid = cur.rid /\ Latest.round = cur.round /\ Goto("received") /\ cur' = [cur EXCEPT !.good = TRUE]
  BY DEF AnswerInstead
<1>3. c.rid = cur.rid /\ c.round = cur.round /\ c.good
  BY <1>2 DEF Inv, TypeInv, Attempts
<1> HIDE DEF c
<1>4. HasAnswer(Talk, c.rid, c.round)
  BY <1>1, <1>2, <1>3 DEF HasAnswer, Latest
<1>5. \E t \in run.pending : t.rid = c.rid /\ t.round = c.round /\ t.sub # "requested"
  BY <1>1, <1>3 DEF Only, Covers
<1>6. AtAnswer(run, <<>>, Talk, "received", c)
  BY <1>1, <1>3, <1>4, <1>5 DEF AtAnswer, Rejected
<1>7. Going(run, <<>>, talks'[run.gen], composer', "received", cur')
  BY <1>6 DEF Going, AllQuiet, AtRest, AtSending, AtRetry, Sending, Talk, c
<1> QED BY <1>1, <1>2, <1>7, GotoSound

LEMMA RetryCheckKeeps == ASSUME Inv, Inv', Keeps, RetryCheck PROVE Keeps'
<1> DEFINE ev == [type |-> "timeout_started", rid |-> cur.rid, round |-> cur.round]
<1>1. pc = "retry" /\ UNCHANGED <<talks, composer, issued>>
  BY DEF RetryCheck, page
<1>2. CASE Write(<<ev>>, "retryclick") /\ UNCHANGED cur
  <2>1. Quiet(ev)
    BY DEF Quiet, QuietTypes
  <2> HIDE DEF ev
  <2>2. AllQuiet(<<ev>>) /\ <<ev>> # <<>> /\ <<ev>> \in Seq({ev})
    BY <2>1, Alone
  <2>3. /\ Active(run) /\ Lasting(run, <<>>, talks', composer', issued')
    BY <1>1, AtRetrying
  <2>4. AtRetry(run, Talk, composer, "retryclick", cur)
    BY <1>1, AtRetrying DEF AtRetry, Latest
  <2>5. Going(run, <<ev>>, talks'[run.gen], composer', "retryclick", cur')
    BY <1>1, <1>2, <2>2, <2>4 DEF Going, AtRest, AtSending, AtAnswer, Sending, Talk
  <2> QED BY <1>2, <2>2, <2>3, <2>5, QuietWrite
<1>3. CASE AnswerInstead
  BY <1>1, <1>3, AnswerInsteadKeeps
<1> QED BY <1>1, <1>2, <1>3 DEF RetryCheck

LEMMA RetryClickKeeps == ASSUME Inv, Inv', Keeps, RetryClick PROVE Keeps'
<1>1. pc = "retryclick" /\ UNCHANGED <<composer, issued>>
  BY DEF RetryClick
<1>2. /\ pc # "append" /\ GoodRun(run) /\ Active(run) /\ Lasting(run, <<>>, talks, composer, issued)
      /\ (\E t \in run.pending : t.round = cur.round /\ Covers(t, Talk))
      /\ composer = EmptyComposer /\ Talk # <<>>
  BY <1>1, AtRetrying
<1>3. CASE TimedOut /\ talks' = [talks EXCEPT ![run.gen][Len(Talk)].ans = "none"] /\ ReturnNow
  <2>1. ReanswersIn(talks, talks', run.gen, "none")
    <3>1. talks \in Conversations /\ run.gen \in 1..MaxGen
      BY TalkTyped DEF Inv, TypeInv, PageInv, Conversations
    <3>2. talks[run.gen] # <<>> /\ talks[run.gen][Len(talks[run.gen])].ans \in {"none", "timeout"}
      BY <1>2, <1>3 DEF TimedOut, Latest, Talk
    <3>3. talks' = [talks EXCEPT ![run.gen][Len(talks[run.gen])].ans = "none"]
      BY <1>3 DEF Talk
    <3> QED BY <3>1, <3>2, <3>3, ReansweredMessage
  <2>2. \A i \in DOMAIN Talk : Awaited(run, Talk[i]) => i = Len(Talk)
    BY <1>2 DEF Lasting, Covered, Talk
  <2>3. Lasting(run, <<>>, talks', composer', issued')
    BY <1>1, <1>2, <2>1, <2>2, ReansweredLasting DEF Talk
  <2> QED BY <1>2, <1>3, <2>3, ReturnNowSound
<1>4. CASE AnswerInstead /\ UNCHANGED talks
  BY <1>1, <1>4, AnswerInsteadKeeps
<1>5. CASE Fail("legacyPreClick", cur.rid, "possibly_sent") /\ UNCHANGED talks
  BY <1>1, <1>2, <1>5, FailSound
<1> QED BY <1>3, <1>4, <1>5 DEF RetryClick

-----------------------------------------------------------------------------
(* The page on its own                                                     *)

\* An answer comes: nothing is awaited that was not.
LEMMA ReansweredCourse ==
    ASSUME NEW s, GoodRun(s), NEW T, NEW U, NEW ans, ReanswersIn(T, U, s.gen, ans), ans # "none",
           NEW q, NEW p, NEW c, NEW k, NEW I, Course(s, q, p, c, T, k, I),
           LET n == Len(T[s.gen])
           IN /\ Awaited(s, U[s.gen][n]) => Awaited(s, T[s.gen][n])
              /\ p = "received" /\ q = <<>> /\ T[s.gen][n].ans = "timeout" => ans = "late"
    PROVE  Course(s, q, p, c, U, k, I)
<1> DEFINE w == T[s.gen]
           x == U[s.gen]
           n == Len(T[s.gen])
<1>1. Reanswers(w, x, ans)
  BY DEF ReanswersIn
<1>2. /\ Awaited(s, x[n]) => Awaited(s, w[n])
      /\ p = "received" /\ q = <<>> /\ w[n].ans = "timeout" => ans = "late"
      /\ n = Len(w)
  OBVIOUS
<1>3. /\ Ending(s, q, p)
      /\ \/ Going(s, q, w, k, p, c)
         \/ Abandoning(s, q, w, p, c)
         \/ Accepting(s, q, w, I, p, c)
         \/ Confirming(s, q, I, p, c)
  BY DEF Course
<1> HIDE DEF w, x, n
<1>4. /\ \A r, round : HasAnswer(w, r, round) => HasAnswer(x, r, round)
      /\ \A r : Shows(w, r) <=> Shows(x, r)
  BY <1>1, ReansweredFacts
<1>5. \A i \in DOMAIN x : i \in DOMAIN w /\ (Awaited(s, x[i]) => Awaited(s, w[i]))
  BY <1>1, <1>2, ReansweredFacts
<1>6. NoneAwaited(s, w) => NoneAwaited(s, x)
  BY <1>5 DEF NoneAwaited
<1>7. CASE Going(s, q, w, k, p, c)
  <2>1. AllQuiet(q) /\ AtRest(s, p, c) /\ AtSending(s, w, p, c) /\ AtAnswer(s, q, w, p, c) /\ AtRetry(s, w, k, p, c)
    BY <1>7 DEF Going
  <2>2. AtSending(s, x, p, c)
    BY <1>1, <1>6, <2>1 DEF AtSending, Reanswers
  <2>3. AtAnswer(s, q, x, p, c)
    <3>1. ASSUME p = "received", Rejected(c), NEW i \in DOMAIN x, Awaited(s, x[i])
          PROVE  x[i].ans = "timeout" /\ x[i].rid = c.rid /\ q = <<>>
      <4>1. i \in DOMAIN w /\ w[i].ans = "timeout" /\ w[i].rid = c.rid /\ q = <<>>
        BY <1>5, <2>1, <3>1 DEF AtAnswer
      <4>2. i # n
        BY <1>1, <1>2, <3>1, <4>1 DEF Reanswers, Awaited
      <4> QED BY <1>1, <1>2, <4>1, <4>2 DEF Reanswers
    <3> QED BY <1>4, <1>6, <2>1, <3>1 DEF AtAnswer
  <2>4. AtRetry(s, x, k, p, c)
    <3>1. Len(x) = Len(w) /\ x[Len(x)].ans # "none" /\ x # <<>>
      BY <1>1 DEF Reanswers
    <3> QED BY <1>4, <2>1, <3>1 DEF AtRetry, Covers
  <2> QED BY <1>3, <2>1, <2>2, <2>3, <2>4 DEF Going, Course, x
<1>8. CASE Abandoning(s, q, w, p, c)
  BY <1>3, <1>6, <1>8 DEF Abandoning, Course, x
<1>9. CASE Accepting(s, q, w, I, p, c)
  BY <1>3, <1>4, <1>9 DEF Accepting, Course, x
<1> QED BY <1>3, <1>7, <1>8, <1>9 DEF Course

LEMMA AnswerKeeps == ASSUME Inv, Keeps, Answer PROVE Keeps'
<1>1. PICK ans \in {"good", "bad", "failed", "timeout", "late"} :
        /\ \/ Answering /\ ans # "late"
           \/ /\ Talk # <<>> /\ Latest.ans = "timeout"
              /\ ans = IF pc = "received" \/ Latest.rid \in run.answered THEN "late" ELSE "good"
        /\ talks' = [talks EXCEPT ![run.gen][Len(Talk)].ans = ans]
  BY DEF Answer
<1>2. UNCHANGED <<run, todo, pc, then, cur, issued, composer>>
  BY DEF Answer, store, local
<1>3. place' = place
  BY <1>2 DEF place
<1>4. Talk # <<>> /\ Latest.ans \in {"none", "timeout"} /\ (Latest.ans = "none" => ans # "late")
  BY <1>1 DEF Answering
<1>5. ReanswersIn(talks, talks', run.gen, ans)
  <2>1. talks \in Conversations /\ run.gen \in 1..MaxGen
    BY TalkTyped DEF Inv, TypeInv, PageInv, Conversations
  <2>2. talks[run.gen] # <<>> /\ talks[run.gen][Len(talks[run.gen])].ans \in {"none", "timeout"}
    BY <1>4 DEF Latest, Talk
  <2>3. talks' = [talks EXCEPT ![run.gen][Len(talks[run.gen])].ans = ans]
    BY <1>1 DEF Talk
  <2> QED BY <2>1, <2>2, <2>3, ReansweredMessage
<1> DEFINE m == Talk[Len(Talk)]
           v == talks'[run.gen][Len(Talk)]
<1>6. v.ans = ans /\ v.rid = m.rid /\ v.round = m.round /\ m = Latest
  BY <1>5 DEF ReanswersIn, Reanswers, Talk, Latest
<1> HIDE DEF m, v
<1>7. Awaited(run, v) => Awaited(run, m)
  BY <1>1, <1>6 DEF Awaited, Answering
<1>8. place = "received" /\ todo = <<>> => pc = "received"
  BY DEF Inv, TypeInv, place
<1>9. place = "received" /\ todo = <<>> /\ m.ans = "timeout" => ans = "late"
  BY <1>1, <1>6, <1>8 DEF Answering
<1>10. GoodRun(run) /\ Lasting(run, todo, talks, composer, issued) /\ Course(run, todo, place, cur, talks, composer, issued)
  BY DEF Inv, TypeInv, Keeps, Sound
<1>11. Lasting(run, todo, talks', composer, issued)
  BY <1>5, <1>7, <1>10, ReansweredLasting DEF m, v, Talk
<1>12. Course(run, todo, place, cur, talks', composer, issued)
  BY <1>1, <1>5, <1>7, <1>9, <1>10, ReansweredCourse DEF m, v, Talk
<1> QED BY <1>2, <1>3, <1>11, <1>12 DEF Keeps, Sound

\* The last message of w, which had no answer, is not in x.
TakesBack(w, x) ==
    /\ Len(w) \in Nat /\ DOMAIN w = 1..Len(w) /\ Len(w) \in DOMAIN w /\ w[Len(w)].ans = "none"
    /\ Len(x) = Len(w) - 1 /\ DOMAIN x = 1..(Len(w) - 1)
    /\ \A i \in DOMAIN x : i \in DOMAIN w /\ i # Len(w) /\ x[i] = w[i]

LEMMA TakenBack ==
    ASSUME NEW w \in Seq(Messages), w # <<>>, w[Len(w)].ans = "none"
    PROVE  TakesBack(w, SubSeq(w, 1, Len(w) - 1))
<1> DEFINE x == SubSeq(w, 1, Len(w) - 1)
<1>1. Len(w) \in DOMAIN w /\ Len(w) \in Nat /\ DOMAIN w = 1..Len(w)
  BY LastMessage
<1>2. 1 \in Int /\ Len(w) - 1 \in Int /\ \A i \in 1..(Len(w) - 1) : w[i] \in Messages
  BY <1>1
<1>3. /\ x \in Seq(Messages) /\ Len(x) = Len(w) - 1 /\ DOMAIN x = 1..(Len(w) - 1)
      /\ \A i \in 1..(Len(w) - 1) : x[i] = w[i]
  <2>1. /\ x \in Seq(Messages)
        /\ Len(x) = IF 1 <= Len(w) - 1 THEN Len(w) - 1 - 1 + 1 ELSE 0
        /\ \A i \in 1..(Len(w) - 1 - 1 + 1) : x[i] = w[1 + i - 1]
    BY <1>2, SubSeqProperties
  <2> DEFINE n == Len(w)
  <2>2. n \in Nat /\ n \in 1..n
    BY <1>1
  <2> HIDE DEF x, n
  <2>3. (IF 1 <= n - 1 THEN n - 1 - 1 + 1 ELSE 0) = n - 1
    BY <2>2
  <2>4. \A i \in 1..(n - 1) : i \in 1..(n - 1 - 1 + 1) /\ 1 + i - 1 = i
    BY <2>2
  <2> QED BY <2>1, <2>3, <2>4 DEF n
<1> HIDE DEF x
<1>4. \A i \in 1..(Len(w) - 1) : i \in 1..Len(w) /\ i # Len(w)
  <2> DEFINE n == Len(w)
  <2>1. n \in Nat
    BY <1>1
  <2> HIDE DEF n
  <2>2. \A i \in 1..(n - 1) : i \in 1..n /\ i # n
    BY <2>1
  <2> QED BY <2>2 DEF n
<1> QED BY <1>1, <1>3, <1>4 DEF TakesBack, x

LEMMA TakenBackFacts ==
    ASSUME NEW w, NEW x, TakesBack(w, x)
    PROVE  /\ \A r, round : HasAnswer(w, r, round) => HasAnswer(x, r, round)
           /\ \A i \in DOMAIN x : i \in DOMAIN w /\ x[i] = w[i]
           /\ \A i \in DOMAIN w : i = Len(w) \/ (i \in DOMAIN x /\ x[i] = w[i])
<1>1. \A i \in DOMAIN w : i = Len(w) \/ (i \in DOMAIN x /\ x[i] = w[i])
  BY DEF TakesBack
<1>2. ASSUME NEW r, NEW round, HasAnswer(w, r, round) PROVE HasAnswer(x, r, round)
  <2>1. PICK i \in DOMAIN w : w[i].rid = r /\ w[i].round = round /\ Command(w[i])
    BY <1>2 DEF HasAnswer
  <2>2. i # Len(w)
    BY <2>1 DEF TakesBack, Command
  <2> QED BY <1>1, <2>1, <2>2 DEF HasAnswer
<1> QED BY <1>1, <1>2 DEF TakesBack

LEMMA VanishKeeps == ASSUME Inv, Keeps, Vanish PROVE Keeps'
<1> DEFINE s == run
           w == Talk
           x == talks'[run.gen]
<1>1. /\ Talk # <<>> /\ Latest.ans = "none" /\ UNCHANGED <<run, todo, pc, then, cur, issued>>
      /\ talks' = [talks EXCEPT ![run.gen] = SubSeq(Talk, 1, Len(Talk) - 1)]
  BY DEF Vanish, Answering, store, local
<1>2. place' = place
  BY <1>1 DEF place
<1>3. talks \in Conversations /\ run.gen \in 1..MaxGen /\ Talk \in Seq(Messages)
  BY TalkTyped DEF Inv, TypeInv, PageInv, Conversations
<1>4. TakesBack(w, x) /\ \A h \in 1..MaxGen : h # run.gen => talks'[h] = talks[h]
  <2>1. talks'[run.gen] = SubSeq(Talk, 1, Len(Talk) - 1) /\ \A h \in 1..MaxGen : h # run.gen => talks'[h] = talks[h]
    BY <1>1, <1>3 DEF Conversations
  <2>2. Talk[Len(Talk)].ans = "none"
    BY <1>1 DEF Latest
  <2> QED BY <1>1, <1>3, <2>1, <2>2, TakenBack
<1>5. /\ Lasting(s, todo, talks, composer, issued) /\ Ending(s, todo, place)
      /\ \/ Going(s, todo, w, composer, place, cur)
         \/ Abandoning(s, todo, w, place, cur)
         \/ Accepting(s, todo, w, issued, place, cur)
         \/ Confirming(s, todo, issued, place, cur)
  BY DEF Keeps, Sound, Course, Talk
<1>6. Closed(s) /\ Backed(s, talks) /\ Issued(s, issued) /\ Rounds(s, w) /\ Based(s, todo, w) /\ Covered(s, todo, w, composer)
  BY <1>5 DEF Lasting, Talk
<1> HIDE DEF w, x
<1>7. /\ \A r, round : HasAnswer(w, r, round) => HasAnswer(x, r, round)
      /\ \A i \in DOMAIN x : i \in DOMAIN w /\ x[i] = w[i]
      /\ \A i \in DOMAIN w : i = Len(w) \/ (i \in DOMAIN x /\ x[i] = w[i])
  BY <1>4, TakenBackFacts
<1>8. Backed(s, talks')
  <2>1. ASSUME NEW g \in 1..MaxGen, NEW r, NEW round, HasAnswer(talks[g], r, round) PROVE HasAnswer(talks'[g], r, round)
    BY <2>1, <1>4, <1>7 DEF w, x, Talk
  <2>2. \A g \in 1..MaxGen : g > s.gen => talks'[g] = <<>>
    BY <1>3, <1>4, <1>6 DEF Backed
  <2> QED BY <2>1, <2>2, <1>6 DEF Backed
<1>9. Rounds(s, x)
  BY <1>6, <1>7 DEF Rounds
<1>10. Based(s, todo, x)
  BY <1>6, <1>7 DEF Based
<1>11. Covered(s, todo, x, composer')
  BY <1>4, <1>6, <1>7 DEF Covered, TakesBack
<1>12. Lasting(s, todo, talks', composer', issued)
  BY <1>6, <1>8, <1>9, <1>10, <1>11 DEF Lasting, x
<1>13. NoneAwaited(s, w) => NoneAwaited(s, x)
  BY <1>7 DEF NoneAwaited
<1>14. Course(s, todo, place, cur, talks', composer', issued)
  <2>1. CASE Going(s, todo, w, composer, place, cur)
    <3>1. AtSending(s, x, place, cur)
      <4>1. AtSending(s, w, place, cur) /\ cur.base \in Nat
        BY <2>1 DEF Going, Inv, TypeInv, Attempts
      <4>2. Len(w) <= cur.base => Len(x) <= cur.base
        BY <1>4, <4>1 DEF TakesBack
      <4> QED BY <1>7, <1>13, <4>1, <4>2 DEF AtSending
    <3>2. AtAnswer(s, todo, x, place, cur)
      BY <1>7, <1>13, <2>1 DEF Going, AtAnswer
    <3>3. AtRetry(s, x, composer', place, cur)
      BY <1>4, <2>1 DEF Going, AtRetry, TakesBack
    <3> QED BY <1>5, <2>1, <3>1, <3>2, <3>3 DEF Going, Course, x
  <2>2. CASE Abandoning(s, todo, w, place, cur)
    BY <1>5, <1>13, <2>2 DEF Abandoning, Course, x
  <2>3. CASE Accepting(s, todo, w, issued, place, cur)
    BY <1>5, <1>7, <2>3 DEF Accepting, Course, x
  <2> QED BY <1>5, <2>1, <2>2, <2>3 DEF Course
<1> QED BY <1>1, <1>2, <1>12, <1>14 DEF Keeps, Sound

LEMMA ReloadKeeps == ASSUME Inv, Keeps, Reload PROVE Keeps'
<1>1. /\ pc = "down" /\ UNCHANGED <<run, todo, pc, then, cur, issued, talks>> /\ composer' = EmptyComposer
  BY DEF Reload, store, local
<1>2. place = "down" /\ place' = place
  BY <1>1 DEF place
<1>3. Lasting(run, todo, talks, composer', issued)
  BY <1>1, LastingEmptied DEF Keeps, Sound
<1>4. Course(run, todo, place, cur, talks, composer', issued)
  BY <1>2 DEF Keeps, Sound, Course, Going, AtRetry
<1> QED BY <1>1, <1>2, <1>3, <1>4 DEF Keeps, Sound

LEMMA CrashKeeps == ASSUME Inv, Inv', Keeps, Crash PROVE Keeps'
<1>1. /\ pc' = "down" /\ todo' = <<>> /\ cur' = NoTurn /\ run' = TakeoverConfirmed(run)
      /\ UNCHANGED <<talks, composer, issued>> /\ ~Confirms(todo)
  BY DEF Crash, page, Confirms
<1>2. GoodRun(run) /\ GoodRun(run') /\ Lasting(run, todo, talks, composer, issued)
  BY DEF Inv, TypeInv, Keeps, Sound
<1>3. Kept(run, run')
  BY <1>1, <1>2, SettledKept
<1>4. Lasting(run', <<>>, talks', composer', issued')
  BY <1>1, <1>2, <1>3, KeptLasting
<1>5. Going(run', <<>>, talks'[run'.gen], composer', "down", NoTurn)
  BY DownGoing DEF AllQuiet
<1>6. place' = "down"
  BY <1>1 DEF place
<1> QED BY <1>1, <1>4, <1>5, <1>6 DEF Keeps, Sound, Course, Ending

-----------------------------------------------------------------------------
(* The operator                                                            *)

LEMMA AtOperator ==
    ASSUME Inv, Keeps, pc = "down", run.status \in {"running", "failed"}
    PROVE  /\ pc # "append" /\ GoodRun(run) /\ Active(run) /\ Lasting(run, <<>>, talks, composer, issued) /\ cur = NoTurn
           /\ Closed(run) /\ Rounds(run, Talk) /\ Covered(run, <<>>, Talk, composer) /\ Issued(run, issued)
<1>1. cur = NoTurn
  BY AtPlace DEF Going, AtRest
<1> QED BY <1>1, AtTurn

\* The operator settles that the only turn was not sent: it is not posted.
LEMMA UnsentSound ==
    ASSUME Inv, Inv', Keeps, NEW t, Operator(t), t \in run.pending, ~Posted(t.rid), ~t.manual,
           UNCHANGED <<talks, composer, issued, cur>>, NEW pre, Preamble(pre, t), NEW reason \in Reasons,
           Write(pre \o <<AbandonedEvent(t, reason, TRUE, FALSE)>>, "down")
    PROVE  Keeps'
<1>1. pc = "down" /\ run.status \in {"running", "failed"} /\ run.pending = {t}
  BY DEF Operator
<1>2. /\ pc # "append" /\ Active(run) /\ Lasting(run, <<>>, talks, composer, issued) /\ cur = NoTurn
  BY <1>1, AtOperator
<1>3. NoneAwaited(run, Talk)
  BY <1>1, NotPosted
<1>4. GivesUp(t, pre, reason, FALSE, "down")
  BY <1>1, <1>2, <1>3 DEF GivesUp, Preamble
<1> QED BY <1>4, AbandonSound

LEMMA ConfirmNotSentKeeps == ASSUME Inv, Inv', Keeps, Truthful, ConfirmNotSent PROVE Keeps'
<1>1. UNCHANGED <<talks, composer, issued, cur>>
  BY DEF ConfirmNotSent, Uninvolved, page
<1>2. PICK t \in run.pending :
        Operator(t) /\ ~t.manual /\ ~Posted(t.rid) /\ Write(NotSentConfirmed(t), "down")
  BY DEF ConfirmNotSent, Unsent, Truthful, Trouble
<1> DEFINE pre == IF run.notSent.of # t.rid THEN <<NotSentEvent(t, t.base)>> ELSE <<>>
<1>3. t \in Turn /\ t.base \in Nat
  BY PendingTyped
<1>4. Preamble(pre, t)
  BY <1>3, ProofEvent DEF Preamble
<1>5. Write(pre \o <<AbandonedEvent(t, "operator_confirmed_not_sent", TRUE, FALSE)>>, "down")
  BY <1>2 DEF NotSentConfirmed
<1>6. "operator_confirmed_not_sent" \in Reasons
  BY DEF Reasons
<1> HIDE DEF pre
<1> QED BY <1>1, <1>2, <1>4, <1>5, <1>6, UnsentSound

LEMMA ReauthorizeRetryKeeps == ASSUME Inv, Inv', Keeps, ReauthorizeRetry PROVE Keeps'
<1>1. UNCHANGED <<talks, composer, issued, cur>>
  BY DEF ReauthorizeRetry, Uninvolved, page
<1>2. PICK t \in run.pending :
        /\ Operator(t) /\ ~t.manual /\ ~Posted(t.rid)
        /\ Write(<<[type |-> "reauthorized", rid |-> t.rid, round |-> t.round],
                   AbandonedEvent(t, "post_fix_retry_reauthorized", TRUE, FALSE)>>, "down")
  BY DEF ReauthorizeRetry
<1> DEFINE ev == [type |-> "reauthorized", rid |-> t.rid, round |-> t.round]
           a == AbandonedEvent(t, "post_fix_retry_reauthorized", TRUE, FALSE)
<1>3. Preamble(<<ev>>, t)
  <2>1. ev \in CalmEvents /\ Quiet(ev)
    BY PendingTyped, TurnEvents DEF Quiet, QuietTypes
  <2> HIDE DEF ev
  <2>2. <<ev>> \in Seq(CalmEvents) /\ AllQuiet(<<ev>>)
    BY <2>1, Alone
  <2> QED BY <2>2, CalmPreamble
<1>4. Write(<<ev>> \o <<a>>, "down")
  BY <1>2, PairOf
<1>5. "post_fix_retry_reauthorized" \in Reasons
  BY DEF Reasons
<1> HIDE DEF ev
<1> QED BY <1>1, <1>2, <1>3, <1>4, <1>5, UnsentSound

LEMMA ConfirmMisdirectedKeeps == ASSUME Inv, Inv', Keeps, ConfirmMisdirected PROVE Keeps'
<1>1. UNCHANGED <<talks, composer, issued, cur>>
  BY DEF ConfirmMisdirected, Uninvolved, page
<1>2. PICK t \in run.pending :
        /\ Operator(t) /\ ~t.manual /\ ~Posted(t.rid)
        /\ Write(<<NotSentEvent(t, Len(Talk)), AbandonedEvent(t, "misdirected_submission_confirmed", TRUE, FALSE)>>, "down")
  BY DEF ConfirmMisdirected, Misdirected
<1> DEFINE pre == IF TRUE THEN <<NotSentEvent(t, Len(Talk))>> ELSE <<>>
           a == AbandonedEvent(t, "misdirected_submission_confirmed", TRUE, FALSE)
<1>3. t \in Turn /\ Len(Talk) \in Nat
  BY PendingTyped, TalkTyped
<1>4. Preamble(pre, t)
  BY <1>3, ProofEvent DEF Preamble
<1>5. Write(pre \o <<a>>, "down")
  BY <1>2, PairOf
<1>6. "misdirected_submission_confirmed" \in Reasons
  BY DEF Reasons
<1> HIDE DEF pre
<1> QED BY <1>1, <1>2, <1>4, <1>5, <1>6, UnsentSound

\* A permission or a re-authorization alone
LEMMA PermissionKeeps ==
    ASSUME Inv, Inv', Keeps, ReauthorizeMismatch \/ AuthorizeDelivery \/ AuthorizeResponse
    PROVE  Keeps'
<1>1. /\ UNCHANGED <<talks, composer, issued, cur>> /\ pc = "down" /\ run.status \in {"running", "failed"}
  BY DEF ReauthorizeMismatch, AuthorizeDelivery, AuthorizeResponse, Uninvolved, page, Operator
<1>2. ASSUME NEW type \in {"reauthorized", "timeout_authorized", "failure_authorized"}, NEW t,
             Write(<<[type |-> type, rid |-> t.rid, round |-> t.round]>>, "down")
      PROVE  \E ev : Quiet(ev) /\ Write(<<ev>>, "down")
  <2> DEFINE ev == [type |-> type, rid |-> t.rid, round |-> t.round]
  <2>1. Quiet(ev)
    BY DEF Quiet, QuietTypes
  <2>2. Write(<<ev>>, "down")
    BY <1>2
  <2> HIDE DEF ev
  <2> QED BY <2>1, <2>2
<1>3. PICK ev : Quiet(ev) /\ Write(<<ev>>, "down")
  <2>1. CASE ReauthorizeMismatch
    <3>1. PICK t \in run.abandoned : Write(<<[type |-> "reauthorized", rid |-> t.rid, round |-> t.round]>>, "down")
      BY <2>1 DEF ReauthorizeMismatch
    <3> QED BY <1>2, <3>1
  <2>2. CASE AuthorizeDelivery
    <3>1. PICK t \in run.pending : Write(<<[type |-> "timeout_authorized", rid |-> t.rid, round |-> t.round]>>, "down")
      BY <2>2 DEF AuthorizeDelivery
    <3> QED BY <1>2, <3>1
  <2>3. CASE AuthorizeResponse
    <3>1. PICK t \in run.pending : Write(<<[type |-> "failure_authorized", rid |-> t.rid, round |-> t.round]>>, "down")
      BY <2>3 DEF AuthorizeResponse
    <3> QED BY <1>2, <3>1
  <2> QED BY <2>1, <2>2, <2>3
<1>4. Active(run) /\ Lasting(run, <<>>, talks, composer, issued) /\ cur = NoTurn
  BY <1>1, AtOperator
<1>5. Return(<<ev>>)
  BY <1>1, <1>3, <1>4 DEF Return
<1> QED BY <1>1, <1>3, <1>4, <1>5, Alone, ReturnSound DEF Ends

LEMMA ManualConfirmKeeps == ASSUME Inv, Inv', Keeps, Truthful, ManualConfirm PROVE Keeps'
<1>1. /\ pc = "down" /\ run.status \in {"running", "failed"} /\ UNCHANGED <<cur, issued>>
  BY DEF ManualConfirm
<1>2. PICK t \in run.pending \cup run.abandoned :
        /\ t.gen = run.gen /\ ~Superseded(t)
        /\ UNCHANGED page \/ (composer.rid = t.rid /\ Delivered(t.round))
        /\ Write((IF run.bound THEN <<>> ELSE <<[type |-> "bound"]>>) \o <<[type |-> "manual", turn |-> t]>>, "down")
  BY DEF ManualConfirm, Truthful, Trouble
<1>3. /\ pc # "append" /\ GoodRun(run) /\ Active(run) /\ Lasting(run, <<>>, talks, composer, issued) /\ cur = NoTurn
      /\ Closed(run) /\ Rounds(run, Talk) /\ Covered(run, <<>>, Talk, composer) /\ Issued(run, issued)
  BY <1>1, AtOperator
<1>4. t \in Turn /\ t.rid \in Ids /\ t.round \in 1..MaxRounds
  <2>1. t \in Turn
    BY <1>3, Fields
  <2> QED BY <2>1, TurnFields
<1> DEFINE b == [type |-> "bound"]
           pre == IF run.bound THEN <<>> ELSE <<b>>
           a == [type |-> "manual", turn |-> t]
           events == pre \o <<a>>
<1>5. a.type = "manual" /\ a.turn = t /\ a \in Events
  BY <1>4, TurnEvents DEF Events
<1>6. pre \in Seq(Events) /\ AllQuiet(pre)
  <2>1. b \in Events /\ Quiet(b)
    BY DEF Events, CalmEvents, Quiet, QuietTypes
  <2> HIDE DEF b
  <2>2. <<b>> \in Seq(Events) /\ AllQuiet(<<b>>) /\ <<>> \in Seq(Events) /\ AllQuiet(<<>>)
    BY <2>1, Alone DEF AllQuiet
  <2> QED BY <2>2
<1>7. Write(events, "down")
  BY <1>2
<1> HIDE DEF pre, a
<1>8. /\ events \in Seq(Events) /\ events # <<>> /\ Len(events) = Len(pre) + 1 /\ Len(pre) \in Nat
      /\ events[Len(events)] = a /\ Len(events) \in DOMAIN events
      /\ \A i \in 1..(Len(events) - 1) : i \in DOMAIN pre /\ events[i] = pre[i]
  <2>1. /\ <<a>> \in Seq(Events) /\ Len(<<a>>) = 1 /\ <<a>>[1] = a /\ <<a>> # <<>> /\ Len(pre) \in Nat
        /\ DOMAIN pre = 1..Len(pre)
    BY <1>5, <1>6
  <2>2. /\ events \in Seq(Events) /\ events # <<>> /\ Len(events) = Len(pre) + 1
        /\ \A i \in 1..(Len(pre) + 1) : events[i] = IF i <= Len(pre) THEN pre[i] ELSE <<a>>[i - Len(pre)]
    BY <1>6, <2>1, Joined
  <2> HIDE DEF events
  <2>3. DOMAIN events = 1..Len(events)
    BY <2>2
  <2> QED BY <2>1, <2>2, <2>3
<1> HIDE DEF events
<1>9. GoodTurn(run, t) /\ Known(run, issued, t.rid) /\ ~Commanded(run, t.round)
  <2>1. GoodTurn(run, t) /\ t.rid \in DOMAIN issued
    BY <1>3 DEF Rounds, Issued
  <2>2. ~Used(run, t.rid) /\ ~Commanded(run, t.round)
    BY <1>2, <1>4, TurnAssumption DEF Superseded, Used, Commanded
  <2> QED BY <2>1, <2>2 DEF Known
<1>10. Confirms(events)
  BY <1>5, <1>8 DEF Confirms
<1>11. Confirming(run, events, issued, "down", cur')
  BY <1>1, <1>2, <1>3, <1>5, <1>6, <1>8, <1>9 DEF Confirming, AllQuiet
<1>12. Lasting(run, events, talks', composer', issued')
  <2>1. CASE UNCHANGED page
    BY <1>1, <1>3, <2>1, LastingWith DEF page
  <2>2. CASE composer.rid = t.rid /\ Delivered(t.round)
    <3> DEFINE m == [rid |-> t.rid, round |-> t.round, ans |-> "none"]
    <3>1. talks' = [talks EXCEPT ![run.gen] = Append(@, m)] /\ composer' = EmptyComposer
      BY <2>2 DEF Delivered
    <3>2. m \in Messages /\ m.ans = "none" /\ m.rid = t.rid /\ m.round = t.round
      BY <1>4, TurnAssumption DEF Messages, AnyId, AnyRound
    <3> HIDE DEF m
    <3>3. NoneAwaited(run, talks[run.gen])
      <4>1. composer # EmptyComposer
        BY <1>4, <2>2, TurnAssumption DEF EmptyComposer, None, Ids
      <4> QED BY <1>3, <4>1 DEF Covered, NoneAwaited, Talk
    <3>4. GoodMessage(run, m)
      BY <1>2, <1>4, <1>9, <3>2 DEF GoodTurn, GoodMessage
    <3>5. talks \in Conversations
      BY DEF Inv, TypeInv, PageInv, Conversations
    <3>6. Lasting(run, events, talks', EmptyComposer, issued)
      BY <1>3, <1>10, <3>1, <3>2, <3>3, <3>4, <3>5, DeliveredLasting
    <3> QED BY <1>1, <3>1, <3>6
  <2> QED BY <1>2, <2>1, <2>2
<1>13. Sound(run, events, "down", cur', talks', composer', issued')
  BY <1>1, <1>3, <1>11, <1>12 DEF Sound, Course, Ending
<1> QED BY <1>7, <1>8, <1>13, WriteSound

-----------------------------------------------------------------------------
(* The invariant holds                                                     *)

LEMMA InitKeeps == ASSUME Init PROVE Keeps
<1>1. /\ run.commands = <<>> /\ run.pending = {} /\ run.abandoned = {} /\ run.round = 0
      /\ run.status = "running" /\ run.notSent.of = None /\ run.rollover.status # "opening"
      /\ run.gen = 1
  BY DEF Init, InitialRun, NoRecovery, NoRollover
<1>2. /\ todo = <<>> /\ place = "drive" /\ issued = <<>> /\ \A g \in 1..MaxGen : talks[g] = <<>>
      /\ run.gen \in 1..MaxGen
  BY <1>1, TurnAssumption DEF Init, place
<1>3. DOMAIN run.commands = {} /\ DOMAIN talks[run.gen] = {} /\ DOMAIN todo = {} /\ DOMAIN issued = {}
  BY <1>1, <1>2
<1>4. Closed(run) /\ Backed(run, talks)
  BY <1>1, <1>2, <1>3 DEF Closed, Backed
<1>5. Issued(run, issued)
  BY <1>1, <1>2, <1>3 DEF Issued
<1>6. Rounds(run, talks[run.gen])
  BY <1>1, <1>3 DEF Rounds, Reached
<1>7. Covered(run, todo, talks[run.gen], composer) /\ Based(run, todo, talks[run.gen])
  BY <1>1, <1>3 DEF Covered, Based
<1>8. Going(run, todo, talks[run.gen], composer, place, cur)
  BY <1>1, <1>2, <1>3 DEF Going, AllQuiet, AtRest, AtSending, AtAnswer, AtRetry, Sending
<1>9. Ending(run, todo, place)
  BY <1>1 DEF Ending, Active
<1> QED BY <1>4, <1>5, <1>6, <1>7, <1>8, <1>9 DEF Keeps, Sound, Lasting, Course

LEMMA StillKeeps == ASSUME Keeps, UNCHANGED vars PROVE Keeps'
<1>1. place' = place
  BY DEF vars, place
<1> QED BY <1>1 DEF Keeps, vars

LEMMA ProcessKeeps == ASSUME Inv, Inv', Keeps, OwnPrompt, Truthful, ProcessNext PROVE Keeps'
<1>1. CASE Append1 \/ Drive \/ DrivePromptMismatch \/ DriveNoMore \/ Refuse \/ Compose \/ Stage \/ Target
  BY <1>1, AppendKeeps, DriveKeeps, BeforeSending, ComposeKeeps, StageKeeps, TargetKeeps
<1>2. CASE Click \/ ClickError \/ Clicked \/ Acknowledge \/ Wait \/ Receive \/ Reject \/ Accept
  BY <1>2, ClickKeeps, ClickErrorKeeps, ClickedKeeps, AcknowledgeKeeps, WaitKeeps, ReceiveKeeps, RejectKeeps, AcceptKeeps
<1>3. CASE Execute \/ Archive \/ ArchiveClick \/ ArchiveProof \/ RotateOnRequest \/ Rotate \/ Open
  BY <1>3, ExecuteKeeps, ArchiveKeeps, RotateOnRequestKeeps, RotateKeeps, OpenKeeps
<1>4. CASE ReconcileNothing \/ ReconcileUnsent \/ ReconcileAmbiguous \/ ReconcileUnreadable
  BY <1>4, ReconcileFailsKeeps, ReconcileUnsentKeeps
<1>5. CASE ObserveAnswer \/ ObserveNotSent \/ ObserveFailure \/ ObserveTimeout \/ ObservePending
  BY <1>5, ObserveAnswerKeeps, ObserveNotSentKeeps, ObserveFailureKeeps, ObserveTimeoutKeeps, ObservePendingKeeps
<1>6. CASE RetryCheck \/ RetryClick \/ ReadTurn
  BY <1>6, RetryCheckKeeps, RetryClickKeeps, ReadTurnKeeps
<1> QED BY <1>1, <1>2, <1>3, <1>4, <1>5, <1>6 DEF ProcessNext

LEMMA StepKeeps == ASSUME Inv, Inv', Keeps, OwnPrompt, Truthful, [Next]_vars PROVE Keeps'
<1>1. CASE UNCHANGED vars
  BY <1>1, StillKeeps
<1>2. CASE ProcessNext
  BY <1>2, ProcessKeeps
<1>3. CASE Continue \/ ContinueArchive \/ Crash \/ PageNext
  BY <1>3, ContinueKeeps, ArchiveKeeps, CrashKeeps, AnswerKeeps, VanishKeeps, ReloadKeeps DEF PageNext
<1>4. CASE OperatorNext
  BY <1>4, ConfirmNotSentKeeps, ManualConfirmKeeps, ReauthorizeRetryKeeps, ConfirmMisdirectedKeeps, PermissionKeeps
     DEF OperatorNext
<1> QED BY <1>1, <1>2, <1>3, <1>4 DEF Next

\* A fault takes one from the plan and leaves its kind.
Planned == trouble \in [faults : SUBSET STRING, left : Int]
SamePlan == UNCHANGED trouble \/ \E kind : Trouble(kind)

LEMMA SendingPlan ==
    ASSUME Append1 \/ Drive \/ DrivePromptMismatch \/ DriveNoMore \/ Refuse \/ Compose \/ Stage \/ Target
           \/ Click \/ ClickError \/ Clicked \/ Acknowledge
    PROVE  SamePlan
<1>1. CASE Append1 \/ DriveNoMore \/ Compose \/ Stage \/ Clicked
  BY <1>1 DEF SamePlan, Append1, DriveNoMore, Compose, Stage, Clicked
<1>2. CASE Drive
  BY <1>2 DEF SamePlan, Drive, RequestIdFor
<1>3. CASE DrivePromptMismatch \/ Refuse \/ Target
  BY <1>3 DEF SamePlan, DrivePromptMismatch, Refuse, Target
<1>4. CASE Click \/ ClickError \/ Acknowledge
  BY <1>4 DEF SamePlan, Click, Posting, ClickError, Acknowledge
<1> QED BY <1>1, <1>2, <1>3, <1>4

LEMMA AnsweringPlan ==
    ASSUME Wait \/ Receive \/ Reject \/ Accept \/ Execute \/ Archive \/ ArchiveClick \/ ArchiveProof
           \/ RotateOnRequest \/ Rotate \/ Open
    PROVE  SamePlan
<1>1. CASE Wait \/ Receive \/ Reject \/ Accept
  BY <1>1 DEF SamePlan, Wait, Receive, Reject, Accept
<1>2. CASE Execute \/ Archive \/ ArchiveClick \/ ArchiveProof
  BY <1>2 DEF SamePlan, Execute, Archive, ArchiveClick, ArchiveProof
<1>3. CASE RotateOnRequest \/ Rotate \/ Open
  BY <1>3 DEF SamePlan, RotateOnRequest, Rotate, Open
<1> QED BY <1>1, <1>2, <1>3

LEMMA ReconcilingPlan ==
    ASSUME ReconcileNothing \/ ReconcileUnsent \/ ReconcileAmbiguous \/ ReconcileUnreadable
           \/ ObserveAnswer \/ ObserveNotSent \/ ObserveFailure \/ ObserveTimeout \/ ObservePending
           \/ RetryCheck \/ RetryClick \/ ReadTurn
    PROVE  SamePlan
<1>1. CASE ReconcileNothing \/ ReconcileUnsent \/ ReconcileAmbiguous
  BY <1>1 DEF SamePlan, ReconcileNothing, ReconcileUnsent, ReconcileAmbiguous
<1>2. CASE ReconcileUnreadable \/ ObserveNotSent \/ RetryClick
  BY <1>2 DEF SamePlan, ReconcileUnreadable, ObserveNotSent, RetryClick
<1>3. CASE ObserveAnswer \/ ObserveFailure \/ ObserveTimeout \/ ObservePending \/ RetryCheck \/ ReadTurn
  BY <1>3 DEF SamePlan, ObserveAnswer, ObserveFailure, ObserveTimeout, ObservePending, RetryCheck, ReadTurn
<1> QED BY <1>1, <1>2, <1>3

LEMMA OtherPlan == ASSUME PageNext \/ OperatorNext \/ Continue \/ ContinueArchive \/ Crash PROVE SamePlan
<1>1. CASE Answer
  BY <1>1 DEF SamePlan, Answer
<1>2. CASE Vanish \/ Reload \/ Continue \/ ContinueArchive \/ Crash
  BY <1>2 DEF SamePlan, Vanish, Reload, Continue, ContinueArchive, Crash
<1>3. CASE ConfirmNotSent \/ ManualConfirm \/ ReauthorizeRetry \/ ReauthorizeMismatch
  BY <1>3 DEF SamePlan, ConfirmNotSent, ManualConfirm, ReauthorizeRetry, ReauthorizeMismatch
<1>4. CASE AuthorizeDelivery \/ AuthorizeResponse \/ ConfirmMisdirected
  BY <1>4 DEF SamePlan, AuthorizeDelivery, AuthorizeResponse, ConfirmMisdirected
<1> QED BY <1>1, <1>2, <1>3, <1>4 DEF PageNext, OperatorNext

LEMMA StepPlan == ASSUME Planned, [Next]_vars PROVE Planned' /\ trouble'.faults = trouble.faults
<1>1. SamePlan
  <2>1. CASE UNCHANGED vars
    BY <2>1 DEF vars, SamePlan
  <2>2. CASE ProcessNext
    BY <2>2, SendingPlan, AnsweringPlan, ReconcilingPlan DEF ProcessNext
  <2>3. CASE PageNext \/ OperatorNext \/ Continue \/ ContinueArchive \/ Crash
    BY <2>3, OtherPlan
  <2> QED BY <2>1, <2>2, <2>3 DEF Next
<1>2. CASE UNCHANGED trouble
  BY <1>2 DEF Planned
<1>3. ASSUME NEW kind, Trouble(kind) PROVE Planned' /\ trouble'.faults = trouble.faults
  BY <1>3 DEF Planned, Trouble
<1> QED BY <1>1, <1>2, <1>3 DEF SamePlan

\* As long as no prompt goes with the attachment of another request, and unless
\* a word of the operator is wrong, the rounds, the messages, the turns on
\* record and what the process is at agree.
Agreement == Inv /\ Planned /\ (Truthful => Keeps)

\* Every step of the process, the page and the operator keeps this agreement.
THEOREM AgreementKept == Spec /\ []OwnPrompt => []Agreement
<1>1. Init => Agreement
  <2> SUFFICES ASSUME Init PROVE Agreement
    OBVIOUS
  <2>1. trouble \in Plans
    BY DEF Init
  <2>2. Nat \subseteq Int
    OBVIOUS
  <2> QED BY <2>1, <2>2, InitInv, InitKeeps, PlanAssumption DEF Agreement, Planned
<1>2. Agreement /\ OwnPrompt /\ [Next]_vars => Agreement'
  <2> SUFFICES ASSUME Agreement, OwnPrompt, [Next]_vars PROVE Agreement'
    OBVIOUS
  <2>1. Inv' /\ Planned'
    BY NextInv, StepPlan DEF Agreement
  <2>2. ASSUME Truthful' PROVE Keeps'
    <3>1. Truthful
      BY <2>2, StepPlan DEF Agreement, Truthful
    <3> QED BY <2>1, <3>1, StepKeeps DEF Agreement
  <2> QED BY <2>1, <2>2 DEF Agreement
<1> QED BY <1>1, <1>2, PTL DEF Spec

\* No message that an answer may still come for is left without a turn: the
\* pending turn that covers it is of its round.
THEOREM NothingOrphaned == Spec /\ []OwnPrompt => []NoOrphan
<1>1. Agreement => NoOrphan
  <2> SUFFICES ASSUME Agreement, Consistent, Active(run), NEW i \in OpenMessages, ~Commanded(run, Talk[i].round)
               PROVE  \E t \in run.pending : t.round = Talk[i].round
    BY DEF NoOrphan, Active, Commanded
  <2>1. Truthful /\ todo = <<>>
    BY DEF Consistent, Truthful
  <2>2. Inv /\ Lasting(run, <<>>, talks, composer, issued) /\ ~Confirms(<<>>)
    BY <2>1 DEF Agreement, Keeps, Sound, Confirms
  <2>3. i \in DOMAIN Talk /\ Awaited(run, Talk[i])
    BY DEF OpenMessages, Awaited
  <2>4. PICK t \in run.pending : Covers(t, Talk)
    BY <2>2, <2>3 DEF Lasting, Covered, Talk
  <2>5. GoodRun(run) /\ Closed(run) /\ Rounds(run, Talk)
    BY <2>2 DEF Inv, TypeInv, Lasting, Talk
  <2>6. Talk[i].round = t.round
    BY <2>3, <2>5, AwaitedRound
  <2> QED BY <2>6
<1> QED BY <1>1, AgreementKept, PTL

-----------------------------------------------------------------------------
(* A composer that makes no attachments                                    *)

\* What is in the composer when the click comes is the prompt of its request.
Filled ==
    /\ composer.kind # "attach" /\ then \notin {"stage", "target", "click"}
    /\ pc \in {"stage", "target", "click"} => composer.rid = cur.rid

\* Every other step leads elsewhere, and fills nothing in.
Elsewhere ==
    /\ pc' \notin {"stage", "target", "click"} /\ then' \notin {"stage", "target", "click"}
    /\ composer' \in {composer, EmptyComposer}

\* How the process goes on
LEMMA GoesOn ==
    ASSUME NEW next, next \notin {"stage", "target", "click"}, NEW events, NEW code, NEW rid, NEW sub
    PROVE  /\ Goto(next) \/ Write(events, next) \/ WriteAll(events, next) \/ End(events) \/ Return(events) \/ ReturnNow
              \/ Fail(code, rid, sub) \/ FailOfPending(code) =>
                  pc' \notin {"stage", "target", "click"} /\ then' \notin {"stage", "target", "click"}
           /\ AnswerInstead => pc' \notin {"stage", "target", "click"} /\ then' \notin {"stage", "target", "click"}
  BY DEF Goto, Write, WriteAll, End, Return, ReturnNow, Fail, FailOfPending, AnswerInstead

LEMMA SendingElsewhere ==
    ASSUME Drive \/ DrivePromptMismatch \/ DriveNoMore \/ Refuse \/ Click \/ ClickError \/ Clicked \/ Acknowledge
           \/ Wait \/ Receive \/ Reject \/ Accept
    PROVE  Elsewhere
<1> USE GoesOn DEF Elsewhere, page
<1>1. CASE Drive \/ DrivePromptMismatch \/ DriveNoMore \/ Refuse
  BY <1>1 DEF Drive, RequestTurn, DrivePromptMismatch, DriveNoMore, Refuse
<1>2. CASE Click \/ ClickError
  <2>1. composer' \in {composer, EmptyComposer}
    BY <1>2 DEF Click, ClickError, Posting, Delivered
  <2>2. CASE Click
    BY <2>1, <2>2 DEF Click
  <2>3. CASE ClickError
    BY <2>1, <2>3 DEF ClickError
  <2> QED BY <1>2, <2>2, <2>3
<1>3. CASE Clicked \/ Acknowledge \/ Wait
  BY <1>3 DEF Clicked, Acknowledge, Wait
<1>4. CASE Receive \/ Reject \/ Accept
  BY <1>4 DEF Receive, Reject, RequestTurn, Accept
<1> QED BY <1>1, <1>2, <1>3, <1>4

LEMMA LoopElsewhere ==
    ASSUME Execute \/ Archive \/ ArchiveClick \/ ArchiveProof \/ RotateOnRequest \/ Rotate \/ Open
           \/ Continue \/ ContinueArchive \/ Crash
    PROVE  Elsewhere
<1> USE GoesOn DEF Elsewhere, page
<1>1. CASE Execute \/ Archive \/ ArchiveClick \/ ArchiveProof
  BY <1>1 DEF Execute, Archive, ArchiveClick, ArchiveProof
<1>2. CASE RotateOnRequest \/ Rotate \/ Open
  BY <1>2 DEF RotateOnRequest, Rotate, Open
<1>3. CASE Continue \/ ContinueArchive \/ Crash
  BY <1>3 DEF Continue, ContinueArchive, Crash
<1> QED BY <1>1, <1>2, <1>3

LEMMA ReconcilingElsewhere ==
    ASSUME ReconcileNothing \/ ReconcileUnsent \/ ReconcileAmbiguous \/ ReconcileUnreadable
           \/ ObserveAnswer \/ ObserveNotSent \/ ObserveFailure \/ ObserveTimeout \/ ObservePending
           \/ RetryCheck \/ RetryClick \/ ReadTurn
    PROVE  Elsewhere
<1> USE GoesOn DEF Elsewhere, page
<1>1. CASE ReconcileNothing \/ ReconcileUnsent \/ ReconcileAmbiguous \/ ReconcileUnreadable
  BY <1>1 DEF ReconcileNothing, ReconcileUnsent, ReconcileAmbiguous, ReconcileUnreadable
<1>2. CASE ObserveAnswer \/ ObserveNotSent
  BY <1>2 DEF ObserveAnswer, ObserveNotSent
<1>3. CASE ObserveFailure \/ ObserveTimeout
  BY <1>3 DEF ObserveFailure, ObserveTimeout
<1>4. CASE ObservePending \/ RetryCheck \/ RetryClick \/ ReadTurn
  BY <1>4 DEF ObservePending, RetryCheck, RetryClick, ReadTurn
<1> QED BY <1>1, <1>2, <1>3, <1>4

LEMMA OperatorElsewhere == ASSUME OperatorNext PROVE Elsewhere
<1> USE GoesOn DEF Elsewhere, page, Uninvolved
<1>1. CASE ConfirmNotSent \/ ManualConfirm
  BY <1>1 DEF ConfirmNotSent, ManualConfirm, Delivered
<1>2. CASE ReauthorizeRetry \/ ReauthorizeMismatch
  BY <1>2 DEF ReauthorizeRetry, ReauthorizeMismatch
<1>3. CASE AuthorizeDelivery \/ AuthorizeResponse \/ ConfirmMisdirected
  BY <1>3 DEF AuthorizeDelivery, AuthorizeResponse, ConfirmMisdirected
<1> QED BY <1>1, <1>2, <1>3 DEF OperatorNext

LEMMA FilledStep == ASSUME "attach" \notin Forms, Inv, Filled, [Next]_vars PROVE Filled'
<1>1. CASE Elsewhere
  BY <1>1 DEF Filled, Elsewhere, EmptyComposer
<1>2. CASE UNCHANGED vars
  BY <1>2 DEF Filled, vars
<1>3. CASE Append1
  BY <1>3 DEF Filled, Append1, Write, page
<1>4. CASE Compose
  BY <1>4 DEF Filled, Compose, Staged, Goto
<1>5. CASE Stage \/ Target
  <2>0. \A e : Tail(<<e>>) = <<>>
    OBVIOUS
  <2>1. CASE Stage
    BY <2>0, <2>1 DEF Filled, Stage, Write, page
  <2>2. CASE Target
    <3>1. CASE UNCHANGED cur /\ Write(<<CheckpointEvent("submitting", cur.base > 0)>>, "click")
      BY <2>0, <2>2, <3>1 DEF Filled, Target, Write, page
    <3>2. CASE Fail("notReady", cur.rid, "definitely_not_sent")
      BY <2>2, <3>2, GoesOn DEF Filled, Target, page
    <3> QED BY <2>2, <3>1, <3>2 DEF Target
  <2> QED BY <1>5, <2>1, <2>2
<1>6. CASE PageNext
  <2>1. CASE Answer
    BY <2>1 DEF Filled, Answer, local
  <2>2. CASE Vanish
    <3>1. pc \in {"stage", "target", "click"} => composer # EmptyComposer
      BY DEF Filled, Inv, TypeInv, Asking, EmptyComposer, None, Ids
    <3> QED BY <2>2, <3>1 DEF Filled, Vanish, local
  <2>3. CASE Reload
    BY <2>3 DEF Filled, Reload, local, EmptyComposer
  <2> QED BY <1>6, <2>1, <2>2, <2>3 DEF PageNext
<1> QED BY <1>1, <1>2, <1>3, <1>4, <1>5, <1>6, SendingElsewhere, LoopElsewhere, ReconcilingElsewhere, OperatorElsewhere
        DEF Next, ProcessNext

\* Without attachments the composer always holds the prompt of its request.
THEOREM InlinePrompts == ASSUME "attach" \notin Forms PROVE Spec => []OwnPrompt
<1>1. Init => Filled
  BY DEF Init, Filled, EmptyComposer
<1>2. Inv /\ Filled /\ [Next]_vars => Filled'
  BY FilledStep
<1>3. Filled => OwnPrompt
  BY DEF Filled, OwnPrompt
<1> QED BY <1>1, <1>2, <1>3, Invariance, PTL DEF Spec

-----------------------------------------------------------------------------
(* What a step does to the log                                             *)

Types == QuietTypes \cup {"staged", "submission", "received", "not_sent", "abandoned", "manual", "accepted",
                          "rotation_requested", "replaced", "completed", "blocked", "archive_started", "archive_settled"}
Keeping == (Types \ {"accepted"}) \cup {"requested"}

\* Events that request nothing
Listed(e) ==
    /\ e.type \in Types
    /\ e.type = "submission" => e.sub # "requested"
    /\ e.type = "manual" => e.turn \in Turn
Written == {e \in Events : Listed(e)}

\* One event at most is appended, and none that requests a turn.
Grows(s, u) == u \in {s, TakeoverConfirmed(s)} \/ \E e : Listed(e) /\ u = Reduce(s, e)
Requests(s, u) == \E e : e.type = "requested" /\ u = Reduce(s, e)

\* The commands stay, or one more is accepted.
MoreCommands(s, u) == u.commands = s.commands \/ \E x : u.commands = Append(s.commands, x)

LEMMA ReduceKeeps == ASSUME NEW s, GoodRun(s), NEW ev, ev.type \in Keeping PROVE Reduce(s, ev).commands = s.commands
<1> USE DEF GoodRun, Runs
<1>1. CASE ev.type \in {"resumed", "requested", "staged", "submission", "bound", "received", "executed"}
  BY <1>1 DEF Reduce, RunResumed, TurnRequested, PromptStaged, Submission, ConversationBound, ResponseReceived,
              ExecutionCompleted
<1>2. CASE ev.type \in {"not_sent", "abandoned", "conflict", "manual", "reauthorized", "waiting", "failed"}
  BY <1>2 DEF Reduce, TurnNotSentConfirmed, TurnAbandoned, RetryConflict, ManualSubmissionConfirmed, PostFixReauthorized,
              PostFixReconciliationWaiting, RunFailed
<1>3. CASE ev.type \in {"failure_observed", "failure_authorized", "failure_consumed", "failure_resent", "failure_skipped"}
  BY <1>3 DEF Reduce, ResponseFailureObserved, ResponseRetryAuthorized, ResponseRetryConsumed, ResponseRetryResent,
              ResponseRetrySkipped
<1>4. CASE ev.type \in {"timeout_observed", "timeout_authorized", "timeout_started", "timeout_rearmed"}
  BY <1>4 DEF Reduce, DeliveryTimeoutObserved, DeliveryRetryAuthorized, DeliveryRetryStarted, DeliveryRetryRearmed
<1>5. CASE ev.type \in {"rotation_requested", "replaced", "activated", "rotation_failed"}
  BY <1>5 DEF Reduce, RotationRequested, ReplacementOpened, RotationActivated, RotationFailed
<1>6. CASE ev.type \in {"completed", "blocked", "archive_started", "archive_settled"}
  BY <1>6 DEF Reduce, RunCompleted, RunBlocked, Ended, ArchiveStarted, ArchiveSettled
<1> QED BY <1>1, <1>2, <1>3, <1>4, <1>5, <1>6 DEF Keeping, Types, QuietTypes

LEMMA GrowsCommands ==
    ASSUME NEW s, GoodRun(s), NEW u, Grows(s, u) \/ Requests(s, u)
    PROVE  MoreCommands(s, u)
<1>1. CASE u \in {s, TakeoverConfirmed(s)}
  BY <1>1 DEF MoreCommands, TakeoverConfirmed, GoodRun, Runs
<1>2. ASSUME NEW e, e.type = "accepted", u = Reduce(s, e) PROVE MoreCommands(s, u)
  BY <1>2 DEF MoreCommands, Reduce, CommandAccepted, GoodRun, Runs
<1>3. ASSUME NEW e, e.type \in Keeping, u = Reduce(s, e) PROVE MoreCommands(s, u)
  BY <1>3, ReduceKeeps DEF MoreCommands
<1> QED BY <1>1, <1>2, <1>3 DEF Grows, Requests, Listed, Keeping

LEMMA WriteGrows ==
    ASSUME NEW events, Listed(Head(events)), NEW next, Write(events, next) \/ Return(events)
    PROVE  Grows(run, run')
  BY DEF Write, Return, Grows

LEMMA OneGrows ==
    ASSUME NEW e, Listed(e), NEW next,
           Write(<<e>>, next) \/ Return(<<e>>) \/ End(<<e>>) \/ WriteAll(<<e>>, next)
    PROVE  Grows(run, run')
<1>1. Head(<<e>>) = e /\ <<e>> # <<>>
  OBVIOUS
<1> QED BY <1>1, WriteGrows DEF End, WriteAll, Return

LEMMA TwoGrows ==
    ASSUME NEW e, NEW f, Listed(e), NEW next, Write(<<e, f>>, next) \/ Return(<<e, f>>)
    PROVE  Grows(run, run')
<1>1. Head(<<e, f>>) = e
  OBVIOUS
<1> QED BY <1>1, WriteGrows

LEMMA AllListed == ASSUME NEW e \in Events, e.type # "requested" PROVE e \in Written
<1> USE DEF Types, QuietTypes, Listed, Written
<1>1. CASE e \in Rearmings \cup Acceptances
  BY <1>1 DEF Rearmings, Acceptances, Events
<1>2. CASE e \in CalmEvents
  BY <1>2 DEF CalmEvents, Events
<1> QED BY <1>1, <1>2 DEF Events

LEMMA EventsGrow ==
    ASSUME NEW events \in Seq(Written), NEW next,
           (events # <<>> /\ (Write(events, next) \/ Return(events))) \/ End(events) \/ WriteAll(events, next)
    PROVE  Grows(run, run')
<1>1. CASE events = <<>>
  BY <1>1 DEF End, WriteAll, Goto, store, Grows
<1>2. CASE events # <<>>
  <2>1. Head(events) \in Written
    BY <1>2
  <2>2. Listed(Head(events))
    BY <2>1 DEF Written
  <2>3. Write(events, next) \/ Write(events, "down")
    BY <1>2 DEF End, WriteAll, Return
  <2> QED BY <2>2, <2>3, WriteGrows
<1> QED BY <1>1, <1>2

LEMMA JoinGrows ==
    ASSUME NEW q \in Seq(Written), NEW e, Listed(e), NEW next, Write(q \o <<e>>, next) \/ Return(q \o <<e>>)
    PROVE  Grows(run, run')
<1>1. q = <<>> \/ Listed(Head(q))
  <2>1. q # <<>> => Head(q) \in Written
    OBVIOUS
  <2> QED BY <2>1 DEF Written
<1> DEFINE x == q \o <<e>>
<1>2. Listed(Head(x))
  <2>1. Head(x) = IF q = <<>> THEN e ELSE Head(q)
    OBVIOUS
  <2> QED BY <1>1, <2>1
<1>3. Write(x, next) \/ Write(x, "down")
  BY DEF Return
<1> HIDE DEF x
<1> QED BY <1>2, <1>3, WriteGrows

LEMMA FailGrows ==
    ASSUME NEW code, NEW rid, NEW sub, Fail(code, rid, sub) \/ FailOfPending(code)
    PROVE  Grows(run, run')
<1>1. ASSUME NEW r, NEW x, Fail(code, r, x) PROVE Grows(run, run')
  <2>1. Listed(FailedEvent(code, r, x))
    BY DEF FailedEvent, Listed, Types, QuietTypes
  <2> QED BY <1>1, <2>1, OneGrows DEF Fail
<1> QED BY <1>1 DEF FailOfPending

LEMMA StayGrows ==
    ASSUME NEW next, Goto(next) \/ ReturnNow \/ AnswerInstead
    PROVE  run' = run /\ Grows(run, run')
  BY DEF Goto, ReturnNow, AnswerInstead, store, Grows

\* The page keeps its messages; a turn is requested only to be sent.
Steady == UNCHANGED talks /\ (Grows(run, run') \/ (Requests(run, run') /\ pc' = "compose"))

\* The events that wait request nothing.
LEMMA TodoListed == ASSUME Inv, Keeps, todo # <<>> PROVE Listed(Head(todo))
<1>1. todo \in Seq(Events) /\ Head(todo) = todo[1] /\ 1 \in DOMAIN todo /\ DOMAIN todo = 1..Len(todo) /\ Len(todo) \in Nat
  BY DEF Inv, TypeInv
<1>2. 1 = Len(todo) \/ 1 \in 1..(Len(todo) - 1)
  BY <1>1
<1>3. todo[1].type # "requested"
  BY <1>1, <1>2 DEF Keeps, Sound, Course, Going, AllQuiet, Abandoning, Accepting, Confirming, Quiet, QuietTypes
<1> QED BY <1>1, <1>3, AllListed DEF Written

LEMMA RequestSteady == ASSUME NEW c, RequestTurn(c) PROVE Requests(run, run') /\ pc' = "compose"
<1>1. PICK e : Write(<<e>>, "compose") /\ e.type = "requested"
  BY DEF RequestTurn
<1>2. Head(<<e>>) = e /\ Tail(<<e>>) = <<>>
  OBVIOUS
<1> QED BY <1>1, <1>2 DEF Write, Requests

LEMMA SendingSteady ==
    ASSUME Inv, Keeps, Append1 \/ Drive \/ DrivePromptMismatch \/ DriveNoMore \/ Refuse \/ Compose \/ Stage \/ Target
    PROVE  Steady
<1> USE DEF Steady, page
<1>1. CASE Append1
  <2>1. todo # <<>> /\ Write(todo, then)
    BY <1>1 DEF Append1, Inv, TypeInv
  <2> QED BY <1>1, <2>1, TodoListed, WriteGrows DEF Append1
<1>2. CASE Drive
  <2>1. PICK rid \in Ids : RequestTurn(NextAttempt(rid))
    BY <1>2 DEF Drive
  <2> QED BY <1>2, <2>1, RequestSteady DEF Drive
<1>3. CASE DrivePromptMismatch
  <2>1. PICK e : Return(<<e>>) /\ e.type = "conflict"
    BY <1>3 DEF DrivePromptMismatch
  <2> QED BY <1>3, <2>1, OneGrows DEF DrivePromptMismatch, Listed, Types, QuietTypes
<1>4. CASE DriveNoMore \/ Refuse
  BY <1>4, FailGrows DEF DriveNoMore, Refuse
<1>5. CASE Compose
  BY <1>5, StayGrows DEF Compose
<1>6. CASE Stage
  <2>1. PICK e : Write(<<e>>, "target") /\ e.type = "staged"
    BY <1>6 DEF Stage
  <2> QED BY <1>6, <2>1, OneGrows DEF Stage, Listed, Types
<1>7. CASE Target
  <2>1. Listed(CheckpointEvent("submitting", cur.base > 0))
    BY DEF CheckpointEvent, Listed, Types
  <2> QED BY <1>7, <2>1, OneGrows, FailGrows DEF Target
<1> QED BY <1>1, <1>2, <1>3, <1>4, <1>5, <1>6, <1>7

LEMMA FirstOf == ASSUME NEW c, NEW S, NEW q \in Seq(S) PROVE Head(<<c>> \o q) = c
<1>1. <<c>> \in Seq(S \cup {c}) /\ q \in Seq(S \cup {c}) /\ Len(<<c>>) = 1 /\ <<c>>[1] = c /\ Len(q) \in Nat
  OBVIOUS
<1> DEFINE x == <<c>> \o q
<1>2. x \in Seq(S \cup {c}) /\ Len(x) = 1 + Len(q) /\ \A n \in 1..Len(x) : x[n] = IF n <= 1 THEN <<c>>[n] ELSE q[n - 1]
  BY <1>1, Joined
<1> HIDE DEF x
<1>3. x[1] = c
  BY <1>1, <1>2
<1>4. Head(x) = x[1]
  BY <1>1, <1>2
<1> QED BY <1>3, <1>4 DEF x

LEMMA AnsweringSteady ==
    ASSUME Inv, Keeps, Clicked \/ Acknowledge \/ Wait \/ Receive \/ Reject \/ Accept
    PROVE  Steady
<1> USE DEF Steady, page
<1>1. CASE Clicked
  BY <1>1, FailGrows, StayGrows DEF Clicked
<1>2. CASE Acknowledge
  <2>1. UNCHANGED talks
    BY <1>2 DEF Acknowledge
  <2> DEFINE resent == [type |-> "failure_resent", rid |-> cur.rid, round |-> cur.round, of |-> cur.of]
             q == IF cur.kind = "response" /\ cur.first THEN <<resent>> ELSE <<>>
  <2>2. q \in Seq({resent})
    <3>1. \A e : <<e>> \in Seq({e}) /\ <<>> \in Seq({e})
      OBVIOUS
    <3> HIDE DEF resent
    <3> QED BY <3>1
  <2> HIDE DEF q
  <2>3. ASSUME NEW url PROVE Listed(Head(<<CheckpointEvent("submitted", url)>> \o q))
    <3> DEFINE c == CheckpointEvent("submitted", url)
    <3>1. Listed(c)
      BY DEF CheckpointEvent, Listed, Types
    <3> HIDE DEF c
    <3>2. Listed(Head(<<c>> \o q))
      BY <2>2, <3>1, FirstOf
    <3> QED BY <3>2 DEF c
  <2>4. CASE \E submit \in BOOLEAN :
                 LET events == <<CheckpointEvent("submitted", submit \/ cur.base > 0)>> \o q
                 IN IF submit THEN Return(events) ELSE Write(events, "wait") /\ UNCHANGED cur
    <3>1. PICK submit \in BOOLEAN :
              LET events == <<CheckpointEvent("submitted", submit \/ cur.base > 0)>> \o q
              IN IF submit THEN Return(events) ELSE Write(events, "wait") /\ UNCHANGED cur
      BY <2>4
    <3> DEFINE events == <<CheckpointEvent("submitted", submit \/ cur.base > 0)>> \o q
    <3>2. Listed(Head(events)) /\ (Write(events, "wait") \/ Return(events))
      BY <2>3, <3>1
    <3> HIDE DEF events
    <3>3. Write(events, "wait") \/ Write(events, "down")
      BY <3>2 DEF Return
    <3> QED BY <2>1, <3>2, <3>3, WriteGrows
  <2>5. CASE Return(<<CheckpointEvent("possibly_sent", cur.base > 0), FailedEvent("ambiguous", cur.rid, "possibly_sent")>>)
    <3> DEFINE c == CheckpointEvent("possibly_sent", cur.base > 0)
               f == FailedEvent("ambiguous", cur.rid, "possibly_sent")
    <3>1. Listed(c)
      BY DEF CheckpointEvent, Listed, Types
    <3>2. Write(<<c, f>>, "down")
      BY <2>5 DEF Return
    <3> HIDE DEF c, f
    <3> QED BY <2>1, <3>1, <3>2, TwoGrows
  <2> QED BY <1>2, <2>1, <2>4, <2>5, FailGrows DEF Acknowledge, q
<1>3. CASE Wait
  BY <1>3, FailGrows, StayGrows DEF Wait
<1>4. CASE Receive
  <2>1. PICK e : Write(<<e>>, "parse") /\ e.type = "received"
    BY <1>4 DEF Receive
  <2> QED BY <1>4, <2>1, OneGrows DEF Receive, Listed, Types
<1>5. CASE Reject
  <2>1. ASSUME NEW e, e.type = "conflict", NEW next, Write(<<e>>, next) \/ Return(<<e>>)
        PROVE  Grows(run, run')
    BY <2>1, OneGrows DEF Listed, Types, QuietTypes
  <2>2. CASE Return(<<[type |-> "conflict", rid |-> cur.rid, code |-> "responseConflict"]>>)
    BY <1>5, <2>1, <2>2 DEF Reject
  <2>3. CASE RequestTurn([cur EXCEPT !.attempt = @ + 1, !.first = FALSE])
    BY <1>5, <2>3, RequestSteady DEF Reject
  <2> QED BY <1>5, <2>2, <2>3, FailGrows DEF Reject
<1>6. CASE Accept
  <2> DEFINE E(t) == AbandonedEvent(t, "operator_selected", FALSE, FALSE)
             others == {t \in run.pending : cur.recovered /\ t.rid # cur.rid}
             given == {E(t) : t \in others}
  <2>1. PICK action \in {"work", "complete", "blocked"} :
            \/ Write(SetToSeq(given) \o <<AcceptedEvent(action)>>, "execute")
            \/ Return(SetToSeq(given) \o <<AcceptedEvent(action)>>)
    BY <1>6 DEF Accept
  <2>2. cur.rid \in Ids /\ cur.round \in 1..MaxRounds /\ UNCHANGED talks
    BY <1>6, AskingTyped DEF Accept, Asking
  <2>4. given \subseteq Written
    <3>1. ASSUME NEW t \in others PROVE E(t) \in Written
      <4>1. t \in Turn
        BY PendingTyped
      <4>2. E(t) \in Events
        BY <4>1, TurnEvents DEF Events, Reasons
      <4>3. E(t).type # "requested"
        BY DEF AbandonedEvent
      <4> HIDE DEF E
      <4> QED BY <4>2, <4>3, AllListed
    <3> QED BY <3>1
  <2>5. IsFiniteSet(given)
    <3>1. IsFiniteSet(others)
      BY FS_Subset DEF Inv, TypeInv, GoodRun
    <3> DEFINE f == [t \in others |-> E(t)]
    <3>2. f \in Surjection(others, given)
      BY DEF Surjection
    <3> HIDE DEF f
    <3> QED BY <3>1, <3>2, FS_Surjection
  <2> HIDE DEF given
  <2>6. SetToSeq(given) \in Seq(Written)
    BY <2>4, <2>5, SetToSeqTyped
  <2>7. Listed(AcceptedEvent(action))
    BY DEF AcceptedEvent, Listed, Types
  <2> QED BY <2>1, <2>2, <2>6, <2>7, JoinGrows
<1> QED BY <1>1, <1>2, <1>3, <1>4, <1>5, <1>6

LEMMA LoopSteady ==
    ASSUME Execute \/ Archive \/ ArchiveClick \/ ArchiveProof \/ RotateOnRequest \/ Rotate \/ Open
                \/ Continue \/ ContinueArchive \/ Crash
    PROVE  Steady
<1> USE DEF Steady, page
<1>0. ASSUME NEW e, e.type \in {"executed", "completed", "blocked", "archive_settled", "archive_started", "activated",
                                "resumed", "rotation_requested", "replaced", "rotation_failed"},
             NEW next, Write(<<e>>, next) \/ Return(<<e>>) \/ End(<<e>>) \/ WriteAll(<<e>>, next)
      PROVE  Grows(run, run')
  BY <1>0, OneGrows DEF Listed, Types, QuietTypes
<1>1. CASE Execute
  <2>1. ASSUME NEW e, NEW f, e.type \in {"executed", "blocked"}, Return(<<e, f>>) PROVE Grows(run, run')
    BY <2>1, TwoGrows DEF Listed, Types, QuietTypes
  <2>2. UNCHANGED talks /\ Executed.type = "executed"
    BY <1>1 DEF Execute, Executed
  <2>3. CASE \E next : Write(<<Executed>>, next) \/ Return(<<Executed>>)
    BY <1>0, <2>2, <2>3
  <2>4. CASE Return(<<Executed, FailedEvent("stagnation", None, "none")>>)
    BY <2>1, <2>2, <2>4
  <2>5. CASE Write(<<[type |-> "completed"]>>, "archive")
    BY <1>0, <2>2, <2>5
  <2>6. CASE Return(<<[type |-> "blocked"], Executed>>)
    BY <2>1, <2>2, <2>6
  <2> QED BY <1>1, <2>3, <2>4, <2>5, <2>6 DEF Execute
<1>2. CASE Archive \/ ArchiveProof
  <2>1. \A status : Settled(status).type = "archive_settled"
    BY DEF Settled
  <2>2. End(<<>>) => Grows(run, run')
    BY StayGrows DEF End, WriteAll
  <2>3. ASSUME NEW status, End(<<Settled(status)>>) PROVE Grows(run, run')
    BY <1>0, <2>1, <2>3
  <2>4. Write(<<[type |-> "archive_started"]>>, "archiving") => Grows(run, run')
    BY <1>0
  <2> QED BY <1>2, <2>2, <2>3, <2>4 DEF Archive, ArchiveProof
<1>3. CASE ArchiveClick \/ ContinueArchive
  BY <1>3, StayGrows DEF ArchiveClick, ContinueArchive
<1>4. CASE RotateOnRequest
  <2>1. ASSUME NEW turn, Write(<<[type |-> "rotation_requested", turn |-> turn]>>, "open") PROVE Grows(run, run')
    <3> DEFINE e == [type |-> "rotation_requested", turn |-> turn]
    <3>1. e.type = "rotation_requested" /\ Write(<<e>>, "open")
      BY <2>1
    <3> HIDE DEF e
    <3> QED BY <1>0, <3>1
  <2> QED BY <1>4, <2>1, FailGrows DEF RotateOnRequest
<1>5. CASE Rotate
  <2>1. Write(<<[type |-> "activated"]>>, "reconcile") => Grows(run, run')
    BY <1>0
  <2> QED BY <1>5, <2>1, StayGrows DEF Rotate
<1>6. CASE Open
  <2>1. End(<<>>) \/ WriteAll(<<>>, "reconcile") => Grows(run, run')
    BY StayGrows DEF End, WriteAll
  <2>2. WriteAll(<<[type |-> "replaced"]>>, "reconcile") => Grows(run, run')
    BY <1>0
  <2>3. End(<<[type |-> "rotation_failed"]>>) => Grows(run, run')
    BY <1>0
  <2> QED BY <1>6, <2>1, <2>2, <2>3 DEF Open
<1>7. CASE Continue
  <2>1. ASSUME NEW next, Write(<<[type |-> "resumed"]>>, next) PROVE Grows(run, run')
    BY <1>0, <2>1
  <2> QED BY <1>7, <2>1 DEF Continue
<1>8. CASE Crash
  BY <1>8 DEF Crash, Grows
<1> QED BY <1>1, <1>2, <1>3, <1>4, <1>5, <1>6, <1>7, <1>8

LEMMA SkipListed == ASSUME NEW t \in Turn PROVE Skip(t) \in Seq(Written)
<1> DEFINE ev == [type |-> "failure_skipped", rid |-> t.rid, round |-> t.round]
<1>1. ev \in Events /\ ev.type # "requested"
  BY TurnEvents DEF Events
<1> HIDE DEF ev
<1>2. ev \in Written
  BY <1>1, AllListed
<1>3. <<ev>> \in Seq(Written) /\ <<>> \in Seq(Written)
  BY <1>2
<1> QED BY <1>3 DEF Skip, ev

\* What is written about a turn
LEMMA TurnGrows ==
    ASSUME NEW t \in Turn
    PROVE  /\ \A e, next : Listed(e) /\ (Write(<<e>>, next) \/ Return(<<e>>)) => Grows(run, run')
           /\ \A e, f, next : Listed(e) /\ (Write(<<e, f>>, next) \/ Return(<<e, f>>)) => Grows(run, run')
           /\ \A e, next : Listed(e) /\ (Write(Skip(t) \o <<e>>, next) \/ Return(Skip(t) \o <<e>>)) => Grows(run, run')
           /\ \A next : WriteAll(Skip(t), next) \/ End(Skip(t)) => Grows(run, run')
<1>1. Skip(t) \in Seq(Written)
  BY SkipListed
<1>2. \A e, next : Listed(e) /\ (Write(<<e>>, next) \/ Return(<<e>>)) => Grows(run, run')
  BY OneGrows
<1>3. \A e, f, next : Listed(e) /\ (Write(<<e, f>>, next) \/ Return(<<e, f>>)) => Grows(run, run')
  BY TwoGrows
<1>4. \A e, next : Listed(e) /\ (Write(Skip(t) \o <<e>>, next) \/ Return(Skip(t) \o <<e>>)) => Grows(run, run')
  BY <1>1, JoinGrows
<1>5. \A next : WriteAll(Skip(t), next) \/ End(Skip(t)) => Grows(run, run')
  BY <1>1, EventsGrow
<1> QED BY <1>2, <1>3, <1>4, <1>5

TurnTypes == {"failure_consumed", "failure_observed", "failure_authorized", "timeout_observed", "timeout_authorized",
              "timeout_started", "timeout_rearmed", "reauthorized"}

LEMMA EventKinds ==
    ASSUME NEW t
    PROVE  /\ \A base : Listed(NotSentEvent(t, base))
           /\ \A reason, unconsumed, fresh : Listed(AbandonedEvent(t, reason, unconsumed, fresh))
           /\ \A code, sub : Listed(FailedEvent(code, t.rid, sub))
           /\ Listed([type |-> "waiting", turn |-> t])
           /\ \A type \in TurnTypes : Listed([type |-> type, rid |-> t.rid, round |-> t.round])
  BY DEF NotSentEvent, AbandonedEvent, FailedEvent, TurnTypes, Listed, Types, QuietTypes

\* A proof that the turn was not sent, if there is none yet, and its end
LEMMA UnsentGrows ==
    ASSUME NEW t \in Turn, NEW keep, NEW reason, NEW fresh, NEW q \in Seq(Written), NEW next,
           LET events == (IF keep THEN <<NotSentEvent(t, t.base)>> ELSE <<>>) \o <<AbandonedEvent(t, reason, TRUE, fresh)>>
               more == q \o (IF keep THEN <<NotSentEvent(t, t.base)>> ELSE <<>>)
                         \o <<AbandonedEvent(t, reason, TRUE, fresh)>>
           IN Write(events, next) \/ Return(events) \/ Write(more, next) \/ Return(more)
    PROVE  Grows(run, run')
<1> DEFINE n == NotSentEvent(t, t.base)
           pre == IF keep THEN <<n>> ELSE <<>>
           e == AbandonedEvent(t, reason, TRUE, fresh)
           all == q \o pre
<1>1. n \in Written
  <2>1. t.base \in Nat
    BY TurnFields DEF Turn, Turns
  <2>2. n \in Events /\ n.type # "requested"
    BY <2>1, TurnEvents DEF NotSentEvent, Events
  <2> HIDE DEF n
  <2> QED BY <2>2, AllListed
<1>2. pre \in Seq(Written) /\ Listed(e)
  <2>1. Listed(e)
    BY EventKinds
  <2> HIDE DEF n, e
  <2>2. <<n>> \in Seq(Written) /\ <<>> \in Seq(Written)
    BY <1>1
  <2> QED BY <2>1, <2>2
<1> HIDE DEF pre, e, n
<1>3. all \in Seq(Written)
  BY <1>2, Joined
<1> HIDE DEF all
<1>4. Write(pre \o <<e>>, next) \/ Return(pre \o <<e>>) \/ Write(all \o <<e>>, next) \/ Return(all \o <<e>>)
  BY DEF n, pre, e, all
<1> QED BY <1>2, <1>3, <1>4, JoinGrows

LEMMA ReconcilingSteady ==
    ASSUME Inv, ReconcileNothing \/ ReconcileUnsent \/ ReconcileAmbiguous \/ ReconcileUnreadable
                \/ ObserveAnswer \/ ObserveNotSent \/ ObserveFailure \/ ObserveTimeout \/ ObservePending
                \/ RetryCheck \/ ReadTurn
    PROVE  Steady
<1> USE DEF Steady, page
<1>1. CASE ReconcileNothing \/ ReconcileAmbiguous \/ ReconcileUnreadable
  BY <1>1, FailGrows, StayGrows DEF ReconcileNothing, ReconcileAmbiguous, ReconcileUnreadable
<1>2. CASE ReadTurn
  <2>1. PICK t \in run.pending :
            \/ Fail("turnMismatch", t.rid, "possibly_sent") \/ Fail("confirmationConflict", t.rid, "possibly_sent")
            \/ Goto("received") \/ ReturnNow
    BY <1>2 DEF ReadTurn
  <2> QED BY <1>2, <2>1, FailGrows, StayGrows DEF ReadTurn
<1>3. CASE ReconcileUnsent
  <2>1. PICK t \in run.pending :
        LET keep == t.comp = "attach" /\ t.retryOf = None /\ ~t.manual /\ run.bound /\ run.notSent.of # t.rid
            events == (IF keep THEN <<NotSentEvent(t, t.base)>> ELSE <<>>)
                      \o <<AbandonedEvent(t, "definitely_not_sent_retry", TRUE, FALSE)>>
        IN Write(events, "drive") \/ Return(events)
    BY <1>3 DEF ReconcileUnsent
  <2>2. t \in Turn /\ <<>> \in Seq(Written)
    BY PendingTyped
  <2>3. Grows(run, run')
    BY <2>1, <2>2, UnsentGrows
  <2> QED BY <1>3, <2>3 DEF ReconcileUnsent
<1>4. CASE ObserveAnswer
  <2>1. PICK t \in run.pending :
            \/ Write(Skip(t) \o <<FailedEvent("turnMismatch", t.rid, "possibly_sent")>>, "down")
            \/ WriteAll(Skip(t), "received")
    BY <1>4 DEF ObserveAnswer
  <2>2. t \in Turn
    BY PendingTyped
  <2>3. Grows(run, run')
    BY <2>1, <2>2, TurnGrows, EventKinds
  <2> QED BY <1>4, <2>3 DEF ObserveAnswer
<1>5. CASE ObserveNotSent
  <2>1. PICK t \in run.pending :
            \/ Return(<<AbandonedEvent(t, "definitely_not_sent_retry", TRUE, TRUE)>>)
            \/ Return(<<[type |-> "waiting", turn |-> t]>>)
            \/ Return(Skip(t)
                      \o (IF run.notSent.of # t.rid THEN <<NotSentEvent(t, t.base)>> ELSE <<>>)
                      \o <<AbandonedEvent(t, "fresh_observation_definitely_not_sent", TRUE, TRUE)>>)
    BY <1>5 DEF ObserveNotSent
  <2>2. t \in Turn
    BY PendingTyped
  <2>3. Skip(t) \in Seq(Written)
    BY <2>2, SkipListed
  <2>4. CASE Return(Skip(t)
                      \o (IF run.notSent.of # t.rid THEN <<NotSentEvent(t, t.base)>> ELSE <<>>)
                      \o <<AbandonedEvent(t, "fresh_observation_definitely_not_sent", TRUE, TRUE)>>)
    <3>1. Grows(run, run')
      BY <2>2, <2>3, <2>4, UnsentGrows
    <3> QED BY <1>5, <3>1 DEF ObserveNotSent
  <2>5. CASE \/ Return(<<AbandonedEvent(t, "definitely_not_sent_retry", TRUE, TRUE)>>)
             \/ Return(<<[type |-> "waiting", turn |-> t]>>)
    <3>1. Grows(run, run')
      BY <2>2, <2>5, TurnGrows, EventKinds
    <3> QED BY <1>5, <3>1 DEF ObserveNotSent
  <2> QED BY <2>1, <2>4, <2>5
<1>6. CASE ObserveFailure
  <2>1. PICK t \in run.pending :
            \/ Write(<<[type |-> "failure_consumed", rid |-> t.rid, round |-> t.round],
                       AbandonedEvent(t, "controller_response_retry_authorized", TRUE, FALSE)>>, "drive")
            \/ Return(<<[type |-> "failure_observed", rid |-> t.rid, round |-> t.round]>>)
            \/ ReturnNow
    BY <1>6 DEF ObserveFailure
  <2>2. t \in Turn
    BY PendingTyped
  <2>3. Grows(run, run')
    BY <2>1, <2>2, TurnGrows, EventKinds, StayGrows DEF TurnTypes
  <2> QED BY <1>6, <2>3 DEF ObserveFailure
<1>7. CASE ObserveTimeout
  <2>1. PICK t \in run.pending :
            \/ Return(Skip(t) \o <<[type |-> "timeout_observed", rid |-> t.rid, round |-> t.round]>>)
            \/ WriteAll(Skip(t), "retry")
            \/ Write(Skip(t) \o <<[type |-> "timeout_rearmed", rid |-> t.rid, round |-> t.round]>>, "retry")
            \/ End(Skip(t))
    BY <1>7 DEF ObserveTimeout
  <2>2. t \in Turn
    BY PendingTyped
  <2>3. Grows(run, run')
    BY <2>1, <2>2, TurnGrows, EventKinds DEF TurnTypes
  <2> QED BY <1>7, <2>3 DEF ObserveTimeout
<1>8. CASE ObservePending
  <2>1. PICK t \in run.pending : End(Skip(t))
    BY <1>8 DEF ObservePending
  <2>2. t \in Turn
    BY PendingTyped
  <2> QED BY <1>8, <2>1, <2>2, TurnGrows DEF ObservePending
<1>9. CASE RetryCheck
  <2>1. PICK e : e.type = "timeout_started" /\ (Write(<<e>>, "retryclick") \/ AnswerInstead)
    BY <1>9 DEF RetryCheck
  <2> QED BY <1>9, <2>1, OneGrows, StayGrows DEF RetryCheck, Listed, Types, QuietTypes
<1> QED BY <1>1, <1>2, <1>3, <1>4, <1>5, <1>6, <1>7, <1>8, <1>9

LEMMA OperatorSteady ==
    ASSUME Inv, ConfirmNotSent \/ ReauthorizeRetry \/ ReauthorizeMismatch \/ AuthorizeDelivery \/ AuthorizeResponse
                \/ ConfirmMisdirected
    PROVE  Steady
<1> USE DEF Steady, page, Uninvolved
<1>0. /\ \A t \in run.pending \cup run.abandoned : t \in Turn
      /\ <<>> \in Seq(Written)
  BY Fields DEF Inv, TypeInv
<1>1. CASE ConfirmNotSent
  <2>1. PICK t \in run.pending : Write(NotSentConfirmed(t), "down")
    BY <1>1 DEF ConfirmNotSent
  <2>2. Grows(run, run')
    BY <1>0, <2>1, UnsentGrows DEF NotSentConfirmed
  <2> QED BY <1>1, <2>2 DEF ConfirmNotSent
<1>2. CASE ReauthorizeRetry \/ ConfirmMisdirected
  <2>1. PICK t \in run.pending : \E f :
            \/ Write(<<[type |-> "reauthorized", rid |-> t.rid, round |-> t.round], f>>, "down")
            \/ Write(<<NotSentEvent(t, Len(Talk)), f>>, "down")
    BY <1>2 DEF ReauthorizeRetry, ConfirmMisdirected
  <2>2. Grows(run, run')
    BY <1>0, <2>1, TurnGrows, EventKinds DEF TurnTypes
  <2> QED BY <1>2, <2>2 DEF ReauthorizeRetry, ConfirmMisdirected
<1>3. CASE ReauthorizeMismatch \/ AuthorizeDelivery \/ AuthorizeResponse
  <2>1. PICK t \in run.pending \cup run.abandoned : \E type \in TurnTypes :
            Write(<<[type |-> type, rid |-> t.rid, round |-> t.round]>>, "down")
    BY <1>3 DEF ReauthorizeMismatch, AuthorizeDelivery, AuthorizeResponse, TurnTypes
  <2>2. Grows(run, run')
    BY <1>0, <2>1, TurnGrows, EventKinds
  <2> QED BY <1>3, <2>2 DEF ReauthorizeMismatch, AuthorizeDelivery, AuthorizeResponse
<1> QED BY <1>1, <1>2, <1>3

-----------------------------------------------------------------------------
(* The conversation as Exchange sees it                                    *)

Shown(w) == [i \in DOMAIN w |-> Message(w[i])]
AllShown == [g \in 1..MaxGen |-> Shown(talks[g])]
ShownMessages == [round : AnyRound, ans : {"none", "good", "bad", "failed", "timeout", "late"}]

LEMMA ShownFacts ==
    ASSUME NEW w \in Seq(Messages)
    PROVE  /\ Shown(w) \in Seq(ShownMessages) /\ Len(Shown(w)) = Len(w) /\ Len(w) \in Nat
           /\ DOMAIN w = 1..Len(w) /\ DOMAIN Shown(w) = 1..Len(w)
           /\ \A i \in 1..Len(w) : Shown(w)[i] = Message(w[i]) /\ w[i] \in Messages
<1>1. \A m \in Messages : Message(m) \in ShownMessages
  BY DEF Messages, ShownMessages, Message
<1> QED BY <1>1 DEF Shown

LEMMA ShownAppend ==
    ASSUME NEW w \in Seq(Messages), NEW m \in Messages
    PROVE  Shown(Append(w, m)) = Append(Shown(w), Message(m))
<1> DEFINE x == Append(w, m)
           y == Append(Shown(w), Message(m))
<1>1. x \in Seq(Messages) /\ Len(x) = Len(w) + 1 /\ \A i \in 1..(Len(w) + 1) : x[i] = IF i <= Len(w) THEN w[i] ELSE m
  OBVIOUS
<1>2. Message(m) \in ShownMessages
  BY DEF Messages, ShownMessages, Message
<1>3. /\ y \in Seq(ShownMessages) /\ Len(y) = Len(w) + 1
      /\ \A i \in 1..(Len(w) + 1) : y[i] = IF i <= Len(w) THEN Shown(w)[i] ELSE Message(m)
  BY <1>2, ShownFacts
<1> HIDE DEF x, y
<1>4. Shown(x) \in Seq(ShownMessages) /\ Len(Shown(x)) = Len(y) /\ \A i \in 1..Len(y) : Shown(x)[i] = y[i]
  BY <1>1, <1>3, ShownFacts
<1>5. Shown(x) = y
  BY <1>3, <1>4, SeqEqual
<1> QED BY <1>5 DEF x, y

LEMMA ShownAnswer ==
    ASSUME NEW w \in Seq(Messages), w # <<>>, NEW ans \in {"none", "good", "bad", "failed", "timeout", "late"}
    PROVE  Shown([w EXCEPT ![Len(w)].ans = ans]) = [Shown(w) EXCEPT ![Len(w)].ans = ans]
<1> DEFINE n == Len(w)
           x == [w EXCEPT ![n].ans = ans]
           y == [Shown(w) EXCEPT ![n].ans = ans]
<1>1. n \in 1..Len(w) /\ n \in Nat
  OBVIOUS
<1>2. /\ x \in Seq(Messages) /\ Len(x) = Len(w)
      /\ \A i \in 1..Len(w) : x[i] = IF i = n THEN [w[n] EXCEPT !.ans = ans] ELSE w[i]
  <2>1. [w[n] EXCEPT !.ans = ans] \in Messages
    <3>1. \A m \in Messages : [m EXCEPT !.ans = ans] \in Messages
      BY DEF Messages
    <3> QED BY <1>1, <3>1
  <2> QED BY <1>1, <2>1, ExceptSeq
<1>3. /\ y \in Seq(ShownMessages) /\ Len(y) = Len(w)
      /\ \A i \in 1..Len(w) : y[i] = IF i = n THEN [Shown(w)[n] EXCEPT !.ans = ans] ELSE Shown(w)[i]
  <2>1. Shown(w) \in Seq(ShownMessages) /\ Len(Shown(w)) = Len(w) /\ n \in 1..Len(Shown(w))
    BY <1>1, ShownFacts
  <2>2. [Shown(w)[n] EXCEPT !.ans = ans] \in ShownMessages
    <3>1. \A m \in ShownMessages : [m EXCEPT !.ans = ans] \in ShownMessages
      BY DEF ShownMessages
    <3> QED BY <2>1, <3>1
  <2> QED BY <2>1, <2>2, ExceptSeq
<1>4. Message([w[n] EXCEPT !.ans = ans]) = [Shown(w)[n] EXCEPT !.ans = ans]
  <2>1. Shown(w)[n] = Message(w[n]) /\ w[n] \in Messages
    BY <1>1, ShownFacts
  <2> QED BY <2>1 DEF Message, Messages
<1> HIDE DEF x, y, n
<1>5. Shown(x) \in Seq(ShownMessages) /\ Len(Shown(x)) = Len(y) /\ \A i \in 1..Len(y) : Shown(x)[i] = y[i]
  BY <1>1, <1>2, <1>3, <1>4, ShownFacts
<1>6. Shown(x) = y
  BY <1>3, <1>5, SeqEqual
<1> QED BY <1>6 DEF x, y, n

LEMMA ShownFront ==
    ASSUME NEW w \in Seq(Messages), w # <<>>
    PROVE  Shown(SubSeq(w, 1, Len(w) - 1)) = SubSeq(Shown(w), 1, Len(w) - 1)
<1> DEFINE n == Len(w) - 1
           x == SubSeq(w, 1, n)
           y == SubSeq(Shown(w), 1, n)
<1>1. n \in Nat /\ Len(w) = n + 1 /\ \A i \in 1..n : i \in 1..Len(w) /\ w[i] \in Messages
  OBVIOUS
<1> HIDE DEF n
<1>2. x \in Seq(Messages) /\ Len(x) = n /\ \A i \in 1..n : x[i] = w[i]
  BY <1>1, SubSeqProperties
<1>3. y \in Seq(ShownMessages) /\ Len(y) = n /\ \A i \in 1..n : y[i] = Shown(w)[i]
  <2>1. \A i \in 1..n : Shown(w)[i] \in ShownMessages
    BY <1>1, ShownFacts
  <2> QED BY <1>1, <2>1, SubSeqProperties
<1> HIDE DEF x, y
<1>4. Shown(x) \in Seq(ShownMessages) /\ Len(Shown(x)) = Len(y) /\ \A i \in 1..Len(y) : Shown(x)[i] = y[i]
  BY <1>1, <1>2, <1>3, ShownFacts
<1>5. Shown(x) = y
  BY <1>3, <1>4, SeqEqual
<1> QED BY <1>5 DEF x, y, n

LEMMA ShownChange ==
    ASSUME Inv, NEW x, talks' = [talks EXCEPT ![run.gen] = x]
    PROVE  AllShown' = [AllShown EXCEPT ![run.gen] = Shown(x)]
<1>1. talks \in [1..MaxGen -> Seq(Messages)] /\ run.gen \in 1..MaxGen
  BY Fields DEF Inv, TypeInv, PageInv
<1>2. AllShown' = [g \in 1..MaxGen |-> Shown(talks'[g])]
  BY DEF AllShown
<1> QED BY <1>1, <1>2 DEF AllShown

AllRounds == [n \in DOMAIN run.commands |-> run.commands[n].round]

LEMMA SameRounds == ASSUME run'.commands = run.commands PROVE AllRounds' = AllRounds
  BY DEF AllRounds

\* A round that Exchange knows of
LEMMA Rounded == \A round : Promise!Accepted(round) # {} <=> Commanded(run, round)
  BY DEF Promise!Accepted, Commanded

\* A message is delivered: Ask.
LEMMA AskImplements ==
    ASSUME Inv, NEW round \in 1..MaxRounds, Reached(run, round - 1), NoneAwaited(run, Talk), composer.rid \in Ids,
           Delivered(round), run'.commands = run.commands
    PROVE  Promise!Next
<1> DEFINE g == run.gen
           m == [rid |-> composer.rid, round |-> round, ans |-> "none"]
<1>1. g \in 1..MaxGen /\ Talk = talks[g] /\ talks \in [1..MaxGen -> Seq(Messages)]
  BY Fields DEF Inv, TypeInv, PageInv, Talk
<1>2. Promise!Open(g) = {}
  <2>1. ASSUME NEW i \in Promise!Open(g) PROVE FALSE
    <3>1. i \in DOMAIN Talk /\ Message(Talk[i]).ans \in {"none", "good"} /\ ~Commanded(run, Message(Talk[i]).round)
      BY <1>1, <2>1, Rounded DEF Promise!Open
    <3>2. Awaited(run, Talk[i])
      BY <3>1 DEF Awaited, Message
    <3> QED BY <3>1, <3>2 DEF NoneAwaited
  <2> QED BY <2>1
<1>3. round = 1 \/ Promise!Accepted(round - 1) # {}
  BY Rounded, TurnAssumption DEF Reached
<1>4. m \in Messages /\ Message(m) = [round |-> round, ans |-> "none"]
  BY DEF Messages, Message, AnyId, AnyRound
<1>5. talks' = [talks EXCEPT ![g] = Append(talks[g], m)]
  BY DEF Delivered
<1> HIDE DEF m
<1>6. AllShown' = [AllShown EXCEPT ![g] = Append(AllShown[g], [round |-> round, ans |-> "none"])]
  <2>1. AllShown' = [AllShown EXCEPT ![g] = Shown(Append(talks[g], m))]
    BY <1>5, ShownChange
  <2>2. Shown(Append(talks[g], m)) = Append(Shown(talks[g]), Message(m))
    BY <1>1, <1>4, ShownAppend
  <2>3. AllShown[g] = Shown(talks[g])
    BY <1>1 DEF AllShown
  <2> QED BY <1>4, <2>1, <2>2, <2>3
<1>7. AllRounds' = AllRounds
  BY SameRounds
<1>8. Promise!Ask(g, round)
  BY <1>2, <1>3, <1>6, <1>7 DEF Promise!Ask, AllShown, AllRounds, Shown
<1> QED BY <1>1, <1>8 DEF Promise!Next, Promise!Conversations

\* The last message gets an answer, or is asked anew: Answer.
LEMMA AnswerImplements ==
    ASSUME Inv, Talk # <<>>, Latest.ans \in {"none", "timeout"},
           NEW ans \in {"none", "good", "bad", "failed", "timeout", "late"},
           talks' = [talks EXCEPT ![run.gen][Len(Talk)].ans = ans], run'.commands = run.commands
    PROVE  Promise!Next
<1>0. PICK g \in 1..MaxGen : g = run.gen
  BY Fields DEF Inv, TypeInv
<1> DEFINE n == Len(Talk)
<1>1. g \in 1..MaxGen /\ Talk = talks[g] /\ talks \in [1..MaxGen -> Seq(Messages)] /\ n \in 1..Len(Talk)
  BY <1>0 DEF Inv, TypeInv, PageInv, Talk
<1>2. talks' = [talks EXCEPT ![g] = [talks[g] EXCEPT ![n].ans = ans]]
  BY <1>0
<1>3. AllShown[g] = Shown(Talk) /\ Len(AllShown[g]) = n /\ AllShown[g][n] = Message(Latest) /\ AllShown[g] # <<>>
  <2>1. AllShown[g] = Shown(Talk)
    BY <1>1 DEF AllShown
  <2>2. Len(Shown(Talk)) = n /\ Shown(Talk)[n] = Message(Latest) /\ Shown(Talk) \in Seq(ShownMessages)
    BY <1>1, ShownFacts DEF Latest
  <2> QED BY <1>1, <2>1, <2>2
<1>4. AllShown' = [AllShown EXCEPT ![g] = [AllShown[g] EXCEPT ![n].ans = ans]]
  <2>1. AllShown' = [AllShown EXCEPT ![g] = Shown([Talk EXCEPT ![n].ans = ans])]
    BY <1>0, <1>1, <1>2, ShownChange
  <2>2. Shown([Talk EXCEPT ![n].ans = ans]) = [Shown(Talk) EXCEPT ![n].ans = ans]
    BY <1>1, ShownAnswer
  <2> QED BY <1>3, <2>1, <2>2
<1>5. Message(Latest).ans = Latest.ans
  BY DEF Message
<1>6. AllRounds' = AllRounds
  BY SameRounds
<1>7. Promise!Answer(g)
  BY <1>3, <1>4, <1>5, <1>6 DEF Promise!Answer, AllShown, AllRounds, Shown
<1>8. \E c \in Promise!Conversations : Promise!Answer(c)
  BY <1>1, <1>7 DEF Promise!Conversations
<1> QED BY <1>8 DEF Promise!Next

\* The page takes the last message back: Answer.
LEMMA TakenImplements ==
    ASSUME Inv, Talk # <<>>, Latest.ans = "none",
           talks' = [talks EXCEPT ![run.gen] = SubSeq(Talk, 1, Len(Talk) - 1)], run'.commands = run.commands
    PROVE  Promise!Next
<1>0. PICK g \in 1..MaxGen : g = run.gen
  BY Fields DEF Inv, TypeInv
<1> DEFINE n == Len(Talk)
<1>1. g \in 1..MaxGen /\ Talk = talks[g] /\ talks \in [1..MaxGen -> Seq(Messages)] /\ n \in 1..Len(Talk)
  BY <1>0 DEF Inv, TypeInv, PageInv, Talk
<1>3. AllShown[g] = Shown(Talk) /\ Len(AllShown[g]) = n /\ AllShown[g][n] = Message(Latest) /\ AllShown[g] # <<>>
  <2>1. AllShown[g] = Shown(Talk)
    BY <1>1 DEF AllShown
  <2>2. Len(Shown(Talk)) = n /\ Shown(Talk)[n] = Message(Latest) /\ Shown(Talk) \in Seq(ShownMessages)
    BY <1>1, ShownFacts DEF Latest
  <2> QED BY <1>1, <2>1, <2>2
<1>4. AllShown' = [AllShown EXCEPT ![g] = SubSeq(AllShown[g], 1, n - 1)]
  <2>1. AllShown' = [AllShown EXCEPT ![g] = Shown(SubSeq(Talk, 1, n - 1))]
    BY <1>0, ShownChange
  <2>2. Shown(SubSeq(Talk, 1, n - 1)) = SubSeq(Shown(Talk), 1, n - 1)
    BY <1>1, ShownFront
  <2> QED BY <1>3, <2>1, <2>2
<1>5. Message(Latest).ans = Latest.ans
  BY DEF Message
<1>6. AllRounds' = AllRounds
  BY SameRounds
<1>7. Promise!Answer(g)
  BY <1>3, <1>4, <1>5, <1>6 DEF Promise!Answer, AllShown, AllRounds, Shown
<1>8. \E c \in Promise!Conversations : Promise!Answer(c)
  BY <1>1, <1>7 DEF Promise!Conversations
<1> QED BY <1>8 DEF Promise!Next

\* The answers that Exchange counts
LEMMA AnswersFinite ==
    ASSUME Inv, NEW r
    PROVE  IsFiniteSet(Promise!AllAnswers(r))
<1> DEFINE P(g) == {<<g, i>> : i \in Promise!Answers(g, r)}
           all == {P(g) : g \in 1..MaxGen}
<1>1. ASSUME NEW g \in 1..MaxGen PROVE IsFiniteSet(P(g))
  <2>1. talks[g] \in Seq(Messages)
    BY DEF Inv, TypeInv, PageInv
  <2>2. PICK n \in Nat : n = Len(talks[g])
    BY <2>1
  <2>3. Promise!Answers(g, r) \subseteq 1..n
    BY <2>1, <2>2 DEF Promise!Answers
  <2> DEFINE A == Promise!Answers(g, r)
             f == [i \in A |-> <<g, i>>]
  <2>4. f \in Surjection(A, P(g))
    BY DEF Surjection
  <2>5. IsFiniteSet(A)
    <3>1. 1 \in Int /\ n \in Int
      OBVIOUS
    <3>2. IsFiniteSet(1..n)
      BY <3>1, FS_Interval
    <3> HIDE DEF A
    <3>3. A \subseteq 1..n
      BY <2>3 DEF A
    <3> QED BY <3>2, <3>3, FS_Subset
  <2> HIDE DEF f, A
  <2> QED BY <2>4, <2>5, FS_Surjection
<1>2. IsFiniteSet(all)
  <2> DEFINE f == [g \in 1..MaxGen |-> P(g)]
  <2>1. f \in Surjection(1..MaxGen, all)
    BY DEF Surjection
  <2>2. IsFiniteSet(1..MaxGen)
    <3>1. 1 \in Int /\ MaxGen \in Int
      BY TurnAssumption
    <3> QED BY <3>1, FS_Interval
  <2> HIDE DEF f, all
  <2> QED BY <2>1, <2>2, FS_Surjection
<1>3. \A x \in all : IsFiniteSet(x)
  BY <1>1
<1>4. Promise!AllAnswers(r) = UNION all
  BY DEF Promise!AllAnswers, Promise!Conversations
<1> HIDE DEF all
<1> QED BY <1>2, <1>3, <1>4, FS_UNION

\* The page has the answer of a command.
LEMMA AnswerCounted ==
    ASSUME Inv, NEW g \in 1..MaxGen, NEW rid, NEW r, HasAnswer(talks[g], rid, r)
    PROVE  \E e \in Promise!AllAnswers(r) : talks[e[1]][e[2]].rid = rid
<1>1. PICK i \in DOMAIN talks[g] : talks[g][i].rid = rid /\ talks[g][i].round = r /\ talks[g][i].ans \in {"good", "late"}
  BY DEF HasAnswer, Command
<1>2. i \in Promise!Answers(g, r)
  BY <1>1 DEF Promise!Answers, Message
<1>3. <<g, i>> \in Promise!AllAnswers(r)
  BY <1>2 DEF Promise!AllAnswers, Promise!Conversations
<1> QED BY <1>1, <1>3

\* Exchange counts as FiniteSets does.
LEMMA SameCardinality == \A S : Promise!Cardinality(S) = Cardinality(S)
  BY DEF Promise!Cardinality, Cardinality

\* A command is accepted: Accept.
LEMMA AcceptImplements ==
    ASSUME Inv, Inv', Keeps', talks' = talks, NEW x, run'.commands = Append(run.commands, x)
    PROVE  Promise!Next
<1> DEFINE old == run.commands
           new == run'.commands
           n == Len(old) + 1
<1>1. /\ old \in Accepted /\ new \in Accepted /\ Len(old) \in Nat /\ DOMAIN old = 1..Len(old) /\ DOMAIN new = 1..n
      /\ new[n] = x /\ \A i \in 1..Len(old) : new[i] = old[i]
  <2>1. old \in Accepted /\ new \in Accepted
    BY DEF Inv, TypeInv, GoodRun, Runs
  <2>2. x \in [rid : Ids, round : 1..MaxRounds]
    <3>1. new[n] = x /\ n \in 1..Len(new)
      BY <2>1 DEF Accepted
    <3> QED BY <2>1, <3>1 DEF Accepted
  <2> QED BY <2>1, <2>2 DEF Accepted
<1>2. PICK r \in 1..MaxRounds : r = x.round
  BY <1>1 DEF Accepted
<1>3. Backed(run', talks)
  BY DEF Keeps, Sound, Lasting
<1> DEFINE S == {i \in DOMAIN new : new[i].round = r}
           T == Promise!AllAnswers(r)
           f == [i \in S |-> CHOOSE e \in T : talks[e[1]][e[2]].rid = new[i].rid]
<1>4. ASSUME NEW i \in S PROVE f[i] \in T /\ talks[f[i][1]][f[i][2]].rid = new[i].rid
  <2>1. PICK rid : rid = new[i].rid
    OBVIOUS
  <2>2. \E g \in 1..MaxGen : HasAnswer(talks[g], rid, r)
    BY <1>3, <2>1 DEF Backed
  <2>3. \E e \in T : talks[e[1]][e[2]].rid = rid
    BY <2>2, AnswerCounted
  <2> HIDE DEF T, S
  <2> QED BY <2>1, <2>3
<1>5. f \in Injection(S, T)
  <2>1. f \in [S -> T]
    BY <1>4
  <2>2. ASSUME NEW i \in S, NEW j \in S, f[i] = f[j] PROVE i = j
    <3> HIDE DEF f, T
    <3>1. new[i].rid = new[j].rid
      BY <1>4, <2>2
    <3> QED BY <1>3, <3>1 DEF Backed
  <2> HIDE DEF f, S, T
  <2>3. \A i, j \in S : f[i] = f[j] => i = j
    BY <2>2
  <2>4. DOMAIN f = S
    BY <2>1
  <2>5. IsInjective(f)
    BY <2>3, <2>4 DEF IsInjective
  <2> QED BY <2>1, <2>5 DEF Injection
<1>6. IsFiniteSet(T)
  BY AnswersFinite
<1> HIDE DEF f, T
<1>7. IsFiniteSet(S) /\ Cardinality(S) <= Cardinality(T)
  <2> HIDE DEF S
  <2> QED BY <1>5, <1>6, FS_Injection
<1>8. S = Promise!Accepted(r) \cup {n} /\ n \notin Promise!Accepted(r)
  BY <1>1, <1>2 DEF Promise!Accepted
<1> DEFINE U == Promise!Accepted(r)
<1>9. IsFiniteSet(U)
  <2> HIDE DEF S, U
  <2>1. U \subseteq S
    BY <1>8 DEF U
  <2> QED BY <1>7, <2>1, FS_Subset
<1>10. Cardinality(U) < Cardinality(T)
  <2>1. S = U \cup {n} /\ n \notin U
    BY <1>8
  <2> HIDE DEF S, U
  <2>2. Cardinality(S) = Cardinality(U) + 1
    BY <1>9, <2>1, FS_AddElement
  <2>3. Cardinality(U) \in Nat /\ Cardinality(T) \in Nat
    BY <1>6, <1>9, FS_CardinalityType
  <2> QED BY <1>7, <2>2, <2>3
<1>11. AllRounds' = Append(AllRounds, r)
  <2> DEFINE y == AllRounds'
             z == Append(AllRounds, r)
  <2>0. (\A i \in 1..Len(old) : old[i].round \in 1..MaxRounds) /\ (\A i \in 1..n : new[i].round \in 1..MaxRounds)
    <3>1. GoodRun(run) /\ GoodRun(run')
      BY DEF Inv, TypeInv
    <3>2. \A i \in DOMAIN old : old[i].round \in 1..MaxRounds
      BY <3>1, CommandRounds
    <3>3. \A i \in DOMAIN new : new[i].round \in 1..MaxRounds
      BY <3>1, CommandRounds
    <3> QED BY <1>1, <3>2, <3>3
  <2>1. AllRounds \in Seq(1..MaxRounds) /\ Len(AllRounds) = Len(old) /\ \A i \in 1..Len(old) : AllRounds[i] = old[i].round
    BY <1>1, <2>0 DEF AllRounds
  <2>2. y \in Seq(1..MaxRounds) /\ Len(y) = n /\ \A i \in 1..n : y[i] = new[i].round
    <3>1. y = [i \in 1..n |-> new[i].round]
      BY <1>1 DEF AllRounds
    <3>2. n \in Nat
      BY <1>1
    <3> HIDE DEF n, new, y
    <3> QED BY <2>0, <3>1, <3>2
  <2>3. z \in Seq(1..MaxRounds) /\ Len(z) = n /\ \A i \in 1..n : z[i] = IF i <= Len(old) THEN AllRounds[i] ELSE r
    BY <1>1, <2>1
  <2> HIDE DEF y, z
  <2>4. \A i \in 1..Len(y) : y[i] = z[i]
    <3>1. ASSUME NEW i \in 1..n PROVE y[i] = z[i]
      <4>1. CASE i <= Len(old)
        <5>1. i \in 1..Len(old)
          BY <1>1, <4>1
        <5>2. y[i] = new[i].round /\ z[i] = AllRounds[i] /\ new[i] = old[i]
          BY <1>1, <2>2, <2>3, <4>1, <5>1
        <5> QED BY <2>1, <5>1, <5>2
      <4>2. CASE ~(i <= Len(old))
        <5>1. i = n
          BY <1>1, <4>2
        <5>2. y[i] = new[n].round /\ z[i] = r
          BY <2>2, <2>3, <4>2, <5>1
        <5> QED BY <1>1, <1>2, <5>2
      <4> QED BY <4>1, <4>2
    <3> QED BY <2>2, <3>1
  <2>5. y = z
    BY <2>2, <2>3, <2>4, SeqEqual
  <2> QED BY <2>5 DEF y, z
<1>12. Promise!Accept(r)
  <2>1. Promise!Cardinality(Promise!Accepted(r)) < Promise!Cardinality(Promise!AllAnswers(r))
    BY <1>10, SameCardinality DEF T
  <2>2. AllShown' = AllShown
    BY DEF AllShown
  <2> QED BY <1>11, <2>1, <2>2 DEF Promise!Accept, AllRounds, AllShown, Shown
<1> QED BY <1>12 DEF Promise!Next

\* What Exchange sees
Seen == <<AllShown, AllRounds>>

LEMMA SeenVars == Promise!vars = Seen /\ (UNCHANGED Seen => UNCHANGED Promise!vars)
  BY DEF Promise!vars, Seen, AllShown, Shown, AllRounds

\* The page stays: a command is accepted, or nothing happens.
LEMMA SteadyImplements ==
    ASSUME Inv, Inv', Keeps', UNCHANGED talks, Grows(run, run') \/ Requests(run, run')
    PROVE  [Promise!Next]_Promise!vars
<1>0. MoreCommands(run, run')
  BY GrowsCommands DEF Inv, TypeInv
<1>1. CASE run'.commands = run.commands
  <2>1. AllShown' = AllShown /\ AllRounds' = AllRounds
    BY <1>1, SameRounds DEF AllShown
  <2> QED BY <2>1, SeenVars DEF Seen
<1>2. CASE \E x : run'.commands = Append(run.commands, x)
  BY <1>2, AcceptImplements
<1> QED BY <1>0, <1>1, <1>2 DEF MoreCommands

\* The click posts the prompt of the round that is asked.
LEMMA PostingImplements ==
    ASSUME Inv, Keeps, OwnPrompt, pc = "click", Delivered(cur.round), run'.commands = run.commands
    PROVE  Promise!Next
<1>1. /\ Lasting(run, <<>>, talks, composer, issued) /\ Sends(run, cur) /\ AtSending(run, Talk, pc, cur)
      /\ cur.rid \in Ids /\ cur.round \in 1..MaxRounds
  BY AtSend DEF Sending
<1>2. NoneAwaited(run, Talk) /\ composer.rid \in Ids
  BY <1>1 DEF AtSending, OwnPrompt
<1>3. PICK t \in run.pending : t.round = cur.round
  BY <1>1 DEF Sends, Only
<1>4. Reached(run, cur.round - 1)
  BY <1>1, <1>3 DEF Lasting, Rounds, GoodTurn
<1>5. PICK round \in 1..MaxRounds : round = cur.round
  BY <1>1
<1> QED BY <1>2, <1>4, <1>5, AskImplements

LEMMA ClickImplements ==
    ASSUME Inv, Inv', Keeps, Keeps', OwnPrompt, Click \/ ClickError
    PROVE  [Promise!Next]_Promise!vars
<1>1. pc = "click"
  BY DEF Click, ClickError
<1>2. CASE Click
  <2>1. (Delivered(cur.round) \/ UNCHANGED talks) /\ run' = run
    BY <1>2, StayGrows DEF Click, Posting
  <2>2. CASE UNCHANGED talks
    BY <2>1, <2>2, SteadyImplements DEF Grows
  <2> QED BY <1>1, <2>1, <2>2, PostingImplements
<1>3. CASE ClickError
  <2> DEFINE ev == CheckpointEvent("possibly_sent", cur.base > 0)
  <2>1. CASE UNCHANGED page /\ Fail("preclick", cur.rid, "definitely_not_sent")
    BY <2>1, FailGrows, SteadyImplements DEF page
  <2>2. CASE Write(<<ev>>, "clicked")
    <3>1. ev.type = "submission"
      BY DEF CheckpointEvent
    <3> HIDE DEF ev
    <3>2. run' = Reduce(run, ev)
      BY <2>2 DEF Write
    <3>3. run'.commands = run.commands
      BY <3>1, <3>2, ReduceKeeps DEF Inv, TypeInv, Keeping, Types
    <3>4. Delivered(cur.round) \/ UNCHANGED talks
      BY <1>3 DEF ClickError, page
    <3>5. Grows(run, run')
      <4>1. Listed(ev)
        BY DEF ev, CheckpointEvent, Listed, Types
      <4> QED BY <3>2, <4>1 DEF Grows
    <3>6. CASE UNCHANGED talks
      BY <3>6, <3>5, SteadyImplements
    <3> QED BY <1>1, <3>3, <3>4, <3>6, PostingImplements
  <2> QED BY <1>3, <2>1, <2>2 DEF ClickError
<1> QED BY <1>2, <1>3

\* The Retry of the page asks the last message anew.
LEMMA RetryClickImplements ==
    ASSUME Inv, Inv', Keeps, Keeps', RetryClick
    PROVE  [Promise!Next]_Promise!vars
<1>1. pc = "retryclick"
  BY DEF RetryClick
<1>2. CASE TimedOut /\ talks' = [talks EXCEPT ![run.gen][Len(Talk)].ans = "none"] /\ ReturnNow
  <2>1. Talk # <<>> /\ Latest.ans = "timeout"
    BY <1>1, <1>2, AtRetrying DEF TimedOut
  <2>2. run'.commands = run.commands
    BY <1>2, StayGrows
  <2> QED BY <1>2, <2>1, <2>2, AnswerImplements
<1>3. CASE AnswerInstead /\ UNCHANGED talks
  BY <1>3, StayGrows, SteadyImplements
<1>4. CASE Fail("legacyPreClick", cur.rid, "possibly_sent") /\ UNCHANGED talks
  BY <1>4, FailGrows, SteadyImplements
<1> QED BY <1>2, <1>3, <1>4 DEF RetryClick

LEMMA PageImplements ==
    ASSUME Inv, Inv', Keeps, Keeps', PageNext
    PROVE  [Promise!Next]_Promise!vars
<1>0. run' = run /\ run'.commands = run.commands
  BY DEF PageNext, Answer, Vanish, Reload, store
<1>1. CASE Answer
  <2>1. PICK ans \in {"good", "bad", "failed", "timeout", "late"} :
            /\ Answering \/ (Talk # <<>> /\ Latest.ans = "timeout")
            /\ talks' = [talks EXCEPT ![run.gen][Len(Talk)].ans = ans]
    BY <1>1 DEF Answer
  <2>2. Talk # <<>> /\ Latest.ans \in {"none", "timeout"}
    BY <2>1 DEF Answering
  <2> QED BY <1>0, <2>1, <2>2, AnswerImplements
<1>2. CASE Vanish
  <2>1. /\ Talk # <<>> /\ Latest.ans = "none"
        /\ talks' = [talks EXCEPT ![run.gen] = SubSeq(Talk, 1, Len(Talk) - 1)]
    BY <1>2 DEF Vanish, Answering
  <2> QED BY <1>0, <2>1, TakenImplements
<1>3. CASE Reload
  BY <1>0, <1>3, SteadyImplements DEF Reload, Grows
<1> QED BY <1>1, <1>2, <1>3 DEF PageNext

\* The operator sends what the composer still holds: nothing is awaited then.
LEMMA ManualImplements ==
    ASSUME Inv, Inv', Keeps, Keeps', Truthful, ManualConfirm
    PROVE  [Promise!Next]_Promise!vars
<1>1. pc = "down" /\ run.status \in {"running", "failed"}
  BY DEF ManualConfirm
<1>2. PICK t \in run.pending \cup run.abandoned :
        /\ UNCHANGED page \/ (composer.rid = t.rid /\ Delivered(t.round))
        /\ Write((IF run.bound THEN <<>> ELSE <<[type |-> "bound"]>>) \o <<[type |-> "manual", turn |-> t]>>, "down")
  BY DEF ManualConfirm, Truthful, Trouble
<1>3. /\ GoodRun(run) /\ Active(run) /\ Rounds(run, Talk) /\ Covered(run, <<>>, Talk, composer)
  BY <1>1, AtOperator
<1>4. t \in Turn /\ t.rid \in Ids /\ t.round \in 1..MaxRounds
  <2>1. t \in Turn
    BY <1>3, Fields
  <2> QED BY <2>1, TurnFields
<1>5. run'.commands = run.commands /\ Grows(run, run')
  <2> DEFINE b == [type |-> "bound"]
             a == [type |-> "manual", turn |-> t]
             pre == IF run.bound THEN <<>> ELSE <<b>>
  <2>1. Head(pre \o <<a>>) \in {a, b}
    <3> HIDE DEF a, b
    <3> QED OBVIOUS
  <2>2. /\ a.type \in Keeping /\ b.type \in Keeping
        /\ Listed(a) /\ Listed(b)
    BY <1>4 DEF Keeping, Listed, Types, QuietTypes
  <2> HIDE DEF a, b
  <2> DEFINE e == Head(pre \o <<a>>)
  <2>3. run' = Reduce(run, e)
    BY <1>2 DEF Write, a, b
  <2>4. e.type \in Keeping /\ Listed(e)
    BY <2>1, <2>2
  <2> HIDE DEF e
  <2> QED BY <1>3, <2>3, <2>4, ReduceKeeps DEF Grows
<1>6. CASE UNCHANGED page
  BY <1>5, <1>6, SteadyImplements DEF page
<1>7. CASE composer.rid = t.rid /\ Delivered(t.round)
  <2>1. composer # EmptyComposer
    BY <1>4, <1>7 DEF EmptyComposer, Ids, None
  <2>2. NoneAwaited(run, Talk)
    BY <1>3, <2>1 DEF Covered, NoneAwaited
  <2>3. Reached(run, t.round - 1)
    BY <1>3 DEF Rounds, GoodTurn
  <2>4. PICK round \in 1..MaxRounds : round = t.round
    BY <1>4
  <2> QED BY <1>4, <1>5, <1>7, <2>2, <2>3, <2>4, AskImplements
<1> QED BY <1>2, <1>6, <1>7

LEMMA StepImplements ==
    ASSUME Inv, Inv', Keeps, Keeps', OwnPrompt, Truthful, [Next]_vars
    PROVE  [Promise!Next]_Promise!vars
<1>1. CASE UNCHANGED vars
  <2>1. AllShown' = AllShown /\ AllRounds' = AllRounds
    BY <1>1 DEF vars, AllShown, AllRounds
  <2> QED BY <2>1, SeenVars DEF Seen
<1>2. CASE Append1 \/ Drive \/ DrivePromptMismatch \/ DriveNoMore \/ Refuse \/ Compose \/ Stage \/ Target
           \/ Clicked \/ Acknowledge \/ Wait \/ Receive \/ Reject \/ Accept
  BY <1>2, SendingSteady, AnsweringSteady, SteadyImplements DEF Steady
<1>3. CASE Execute \/ Archive \/ ArchiveClick \/ ArchiveProof \/ RotateOnRequest \/ Rotate \/ Open
           \/ Continue \/ ContinueArchive \/ Crash
  BY <1>3, LoopSteady, SteadyImplements DEF Steady
<1>4. CASE ReconcileNothing \/ ReconcileUnsent \/ ReconcileAmbiguous \/ ReconcileUnreadable
           \/ ObserveAnswer \/ ObserveNotSent \/ ObserveFailure \/ ObserveTimeout \/ ObservePending
           \/ RetryCheck \/ ReadTurn
  BY <1>4, ReconcilingSteady, SteadyImplements DEF Steady
<1>5. CASE Click \/ ClickError \/ RetryClick \/ PageNext
  BY <1>5, ClickImplements, RetryClickImplements, PageImplements
<1>6. CASE OperatorNext
  BY <1>6, OperatorSteady, SteadyImplements, ManualImplements DEF OperatorNext, Steady
<1> QED BY <1>1, <1>2, <1>3, <1>4, <1>5, <1>6 DEF Next, ProcessNext

LEMMA InitImplements == ASSUME Init PROVE Promise!Init
<1>1. run.commands = <<>>
  BY DEF Init, InitialRun
<1>2. AllRounds = <<>>
  BY <1>1 DEF AllRounds
<1>3. AllShown = [g \in 1..MaxGen |-> <<>>]
  <2>1. \A g \in 1..MaxGen : talks[g] = <<>>
    BY DEF Init
  <2>2. Shown(<<>>) = <<>>
    BY DEF Shown
  <2> QED BY <2>1, <2>2 DEF AllShown
<1> QED BY <1>2, <1>3 DEF Promise!Init, Promise!Conversations, AllRounds, AllShown, Shown

\* As long as no prompt goes with the attachment of another request, and when no
\* word of the operator is wrong, the loop keeps the promise of Exchange: it asks
\* nothing while an answer is open, no round before its turn, and takes every
\* answer once.
THEOREM PromiseKept == Spec /\ []OwnPrompt /\ Truthful => ImplementsExchange
<1>1. Init => Promise!Init
  BY InitImplements
<1>2. Agreement /\ Agreement' /\ OwnPrompt /\ Truthful /\ [Next]_vars => [Promise!Next]_Promise!vars
  BY StepPlan, StepImplements DEF Agreement, Truthful
<1>3. Agreement /\ Truthful /\ [Next]_vars => Truthful'
  BY StepPlan DEF Agreement, Truthful
<1>4. Spec /\ []OwnPrompt => []Agreement
  BY AgreementKept
<1> QED BY <1>1, <1>2, <1>3, <1>4, PTL DEF Spec, ImplementsExchange, Promise!Spec

\* When no prompt becomes an attachment, the word of the operator is the only
\* condition.
THEOREM InlinePromiseKept ==
    ASSUME "attach" \notin Forms
    PROVE  Spec /\ Truthful => ImplementsExchange
<1>1. Spec => []OwnPrompt
  BY InlinePrompts
<1>2. Spec /\ []OwnPrompt /\ Truthful => ImplementsExchange
  BY PromiseKept
<1> QED BY <1>1, <1>2, PTL
-----------------------------------------------------------------------------
(* No message of a turn that is only requested                             *)

\* One pending turn at most per request
Unique(s) == \A t, v \in s.pending : t.rid = v.rid => t = v

\* The operator confirms this request.
Confirmed(q, rid) == \E i \in DOMAIN q : q[i].type = "manual" /\ q[i].turn.rid = rid

\* No message is awaited of the request of a turn that is only requested.
Unasked(s, q, w) ==
    \A t \in s.pending : t.sub = "requested" /\ ~Confirmed(q, t.rid) =>
        \A i \in DOMAIN w : Awaited(s, w[i]) => w[i].rid # t.rid

Unsubmitted == Unique(run) /\ Unasked(run, todo, Talk)

Proceeds(s, u) ==
    /\ s.answered \subseteq u.answered
    /\ u.gen = s.gen \/ u.gen = s.gen + 1
    /\ Unique(s) => Unique(u)
    /\ \A v \in u.pending : v.sub = "requested" => \E t \in s.pending : t.rid = v.rid /\ t.sub = "requested"

\* Each pending turn was pending, or changed and stays what it was requested for.
LEMMA StampedProceeds ==
    ASSUME NEW s, NEW u, u.answered = s.answered, u.gen = s.gen,
           NEW F, u.pending = {F[t] : t \in s.pending},
           \A t \in s.pending : F[t].rid = t.rid /\ (F[t].sub = "requested" => t.sub = "requested")
    PROVE  Proceeds(s, u)
  BY DEF Proceeds, Unique

LEMMA FewerProceeds ==
    ASSUME NEW s, NEW u, s.answered \subseteq u.answered, u.gen = s.gen \/ u.gen = s.gen + 1,
           u.pending \subseteq s.pending
    PROVE  Proceeds(s, u)
  BY DEF Proceeds, Unique

LEMMA EventProceeds == ASSUME NEW s, GoodRun(s), NEW e, Listed(e) PROVE Proceeds(s, Reduce(s, e))
<1> DEFINE u == Reduce(s, e)
           Same == u.answered = s.answered /\ u.gen = s.gen
<1>1. CASE e.type \in {"resumed", "bound", "received", "executed", "not_sent", "conflict", "reauthorized", "waiting"}
  <2>1. u.pending = s.pending /\ u.gen = s.gen /\ s.answered \subseteq u.answered
    BY <1>1 DEF Reduce, RunResumed, ConversationBound, ResponseReceived, ExecutionCompleted, TurnNotSentConfirmed,
                RetryConflict, PostFixReauthorized, PostFixReconciliationWaiting, GoodRun, Runs
  <2> QED BY <2>1, FewerProceeds
<1>2. CASE e.type \in {"failure_observed", "failure_authorized", "failure_consumed", "failure_resent", "failure_skipped"}
  <2>1. u.pending = s.pending /\ Same
    BY <1>2 DEF Reduce, ResponseFailureObserved, ResponseRetryAuthorized, ResponseRetryConsumed, ResponseRetryResent,
                ResponseRetrySkipped, GoodRun, Runs
  <2> QED BY <2>1, FewerProceeds
<1>3. CASE e.type \in {"timeout_observed", "timeout_authorized", "timeout_started", "timeout_rearmed"}
  <2>1. u.pending = s.pending /\ Same
    BY <1>3 DEF Reduce, DeliveryTimeoutObserved, DeliveryRetryAuthorized, DeliveryRetryStarted, DeliveryRetryRearmed,
                GoodRun, Runs
  <2> QED BY <2>1, FewerProceeds
<1>4. CASE e.type \in {"rotation_requested", "activated", "rotation_failed", "archive_started", "archive_settled"}
  <2>1. u.pending = s.pending /\ Same
    BY <1>4 DEF Reduce, RotationRequested, RotationActivated, RotationFailed, ArchiveStarted, ArchiveSettled, GoodRun, Runs
  <2> QED BY <2>1, FewerProceeds
<1>5. CASE e.type \in {"accepted", "abandoned", "completed", "blocked"}
  <2>1. u.pending \subseteq s.pending /\ Same
    BY <1>5 DEF Reduce, CommandAccepted, TurnAbandoned, RunCompleted, RunBlocked, Ended, Without, GoodRun, Runs
  <2> QED BY <2>1, FewerProceeds
<1>6. CASE e.type = "replaced"
  <2>1. u.pending \subseteq s.pending /\ u.answered = s.answered /\ (u.gen = s.gen \/ u.gen = s.gen + 1)
    BY <1>6 DEF Reduce, ReplacementOpened, Without, GoodRun, Runs
  <2> QED BY <2>1, FewerProceeds
<1>7. CASE e.type = "manual"
  <2> DEFINE t == [e.turn EXCEPT !.sub = "submitted", !.manual = TRUE]
  <2>1. u = ManualSubmissionConfirmed(s, e.turn)
    BY <1>7 DEF Reduce
  <2>2. u.pending = Without(s.pending, e.turn.rid) \cup {t} /\ Same
    BY <2>1 DEF ManualSubmissionConfirmed, GoodRun, Runs
  <2>3. t.rid = e.turn.rid /\ t.sub = "submitted"
    BY <1>7 DEF Listed, Turn, Turns
  <2> HIDE DEF t
  <2> QED BY <2>2, <2>3 DEF Proceeds, Unique, Without
<1>8. CASE e.type = "staged"
  <2> DEFINE F == [t \in s.pending |-> IF t.rid = e.rid THEN [t EXCEPT !.comp = e.comp, !.base = e.base] ELSE t]
  <2>1. u.pending = {F[t] : t \in s.pending} /\ Same
    BY <1>8 DEF Reduce, PromptStaged, GoodRun, Runs
  <2>2. ASSUME NEW t \in s.pending PROVE F[t].rid = t.rid /\ F[t].sub = t.sub
    <3>1. t \in Turn
      BY Fields
    <3> QED BY <3>1 DEF Turn, Turns
  <2> HIDE DEF F
  <2> QED BY <2>1, <2>2, StampedProceeds
<1>9. CASE e.type = "submission" /\ TurnOf(s.pending, e.rid) # {}
  <2> DEFINE F == [t \in s.pending |-> IF t.rid = e.rid THEN [t EXCEPT !.sub = e.sub, !.comp = e.comp, !.base = e.base] ELSE t]
  <2>1. u.pending = {F[t] : t \in s.pending} /\ Same
    BY <1>9 DEF Reduce, Submission, GoodRun, Runs
  <2>2. ASSUME NEW t \in s.pending PROVE F[t].rid = t.rid /\ (F[t].sub = "requested" => t.sub = "requested")
    <3>1. t \in Turn
      BY Fields
    <3> QED BY <1>9, <3>1 DEF Turn, Turns, Listed
  <2> HIDE DEF F
  <2> QED BY <2>1, <2>2, StampedProceeds
<1>10. CASE e.type = "submission" /\ TurnOf(s.pending, e.rid) = {}
  <2>1. u = s
    BY <1>10 DEF Reduce, Submission
  <2> QED BY <2>1, FewerProceeds
<1>11. CASE e.type = "failed"
  <2> DEFINE F == [t \in s.pending |->
                      IF t.rid = e.rid /\ t.sub # "submitted" /\ e.sub \in {"submitting", "possibly_sent", "submitted"}
                      THEN [t EXCEPT !.sub = e.sub] ELSE t]
  <2>1. u.pending = {F[t] : t \in s.pending} /\ Same
    BY <1>11 DEF Reduce, RunFailed, GoodRun, Runs
  <2>2. ASSUME NEW t \in s.pending PROVE F[t].rid = t.rid /\ (F[t].sub = "requested" => t.sub = "requested")
    BY Fields DEF Turn, Turns
  <2> HIDE DEF F
  <2> QED BY <2>1, <2>2, StampedProceeds
<1> QED BY <1>1, <1>2, <1>3, <1>4, <1>5, <1>6, <1>7, <1>8, <1>9, <1>10, <1>11 DEF Listed, Types, QuietTypes
LEMMA GrowsProceeds == ASSUME NEW s, GoodRun(s), NEW u, Grows(s, u) PROVE Proceeds(s, u)
<1>1. CASE u \in {s, TakeoverConfirmed(s)}
  <2>1. u.pending = s.pending /\ u.answered = s.answered /\ u.gen = s.gen
    BY <1>1 DEF TakeoverConfirmed, GoodRun, Runs
  <2> QED BY <2>1, FewerProceeds
<1> QED BY <1>1, EventProceeds DEF Grows

LEMMA RequestsUnique == ASSUME NEW s, GoodRun(s), Unique(s), NEW u, Requests(s, u) PROVE Unique(u)
<1>1. PICK e : e.type = "requested" /\ u = Reduce(s, e)
  BY DEF Requests
<1>2. u.pending = Without(s.pending, e.turn.rid) \cup {e.turn}
  BY <1>1 DEF Reduce, TurnRequested, GoodRun, Runs
<1> QED BY <1>2 DEF Unique, Without

LEMMA AwaitedBefore ==
    ASSUME NEW s, GoodRun(s), NEW u, MoreCommands(s, u), s.answered \subseteq u.answered, NEW m, Awaited(u, m)
    PROVE  Awaited(s, m)
<1>1. Commanded(s, m.round) => Commanded(u, m.round)
  <2>1. CASE u.commands = s.commands
    BY <2>1 DEF Commanded
  <2>2. CASE \E x : u.commands = Append(s.commands, x)
    <3>1. PICK x : u.commands = Append(s.commands, x)
      BY <2>2
    <3>2. /\ Len(s.commands) \in Nat /\ DOMAIN s.commands = 1..Len(s.commands)
          /\ DOMAIN u.commands = 1..(Len(s.commands) + 1)
          /\ \A n \in 1..Len(s.commands) : u.commands[n] = s.commands[n]
      BY <3>1, Fields DEF Accepted
    <3>3. 1..Len(s.commands) \subseteq 1..(Len(s.commands) + 1)
      BY <3>2
    <3> QED BY <3>2, <3>3 DEF Commanded
  <2> QED BY <2>1, <2>2 DEF MoreCommands
<1> QED BY <1>1 DEF Awaited

\* Whoever asks a turn found nothing awaited.
LEMMA ComposingUnasked == ASSUME Keeps', pc' = "compose" PROVE Unasked(run, todo, Talk)'
<1>1. place' = "compose"
  BY DEF place
<1>2. AtSending(run, Talk, place, cur)'
  BY <1>1 DEF Keeps, Sound, Course, Going, Abandoning, Accepting, Confirming, Talk
<1> QED BY <1>1, <1>2 DEF AtSending, NoneAwaited, Unasked

LEMMA SteadyUnsubmitted ==
    ASSUME Inv, Inv', Keeps, Keeps', Unsubmitted, Steady,
           \A v \in run'.pending : v.sub = "requested" /\ Confirmed(todo, v.rid) => Confirmed(todo', v.rid)
    PROVE  Unsubmitted'
<1>0. GoodRun(run) /\ Unique(run)
  BY DEF Inv, TypeInv, Unsubmitted
<1>1. CASE Requests(run, run') /\ pc' = "compose"
  BY <1>0, <1>1, RequestsUnique, ComposingUnasked DEF Unsubmitted
<1>2. CASE Grows(run, run')
  <2>1. Proceeds(run, run') /\ MoreCommands(run, run')
    BY <1>0, <1>2, GrowsProceeds, GrowsCommands
  <2>2. Unique(run)'
    BY <1>0, <2>1 DEF Proceeds, Unique
  <2>3. ASSUME NEW v \in run'.pending, v.sub = "requested", ~Confirmed(todo', v.rid),
               NEW i \in DOMAIN talks'[run'.gen], Awaited(run', talks'[run'.gen][i])
        PROVE  talks'[run'.gen][i].rid # v.rid
    <3>1. PICK t \in run.pending : t.rid = v.rid /\ t.sub = "requested"
      BY <2>1, <2>3 DEF Proceeds
    <3>2. ~Confirmed(todo, t.rid)
      BY <2>3, <3>1
    <3>3. talks' = talks /\ run'.gen \in 1..MaxGen /\ run.gen \in 1..MaxGen
      BY Fields DEF Inv, TypeInv, Steady
    <3>4. run'.gen = run.gen
      <4>1. CASE run'.gen = run.gen + 1
        <5>1. talks[run'.gen] = <<>>
          BY <3>3, <4>1 DEF Keeps, Sound, Lasting, Backed
        <5> QED BY <2>3, <3>3, <5>1
      <4> QED BY <2>1, <4>1 DEF Proceeds
    <3>5. i \in DOMAIN Talk /\ Awaited(run', Talk[i])
      BY <2>3, <3>3, <3>4 DEF Talk
    <3>6. Awaited(run, Talk[i])
      BY <1>0, <2>1, <3>5, AwaitedBefore DEF Proceeds
    <3>7. Talk[i].rid # t.rid
      BY <3>1, <3>2, <3>5, <3>6 DEF Unsubmitted, Unasked
    <3> QED BY <3>1, <3>3, <3>4, <3>7 DEF Talk
  <2> QED BY <2>2, <2>3 DEF Unsubmitted, Unasked, Talk
<1> QED BY <1>1, <1>2 DEF Steady

\* While no confirmation of the operator waits to be appended
LEMMA CalmUnsubmitted ==
    ASSUME Inv, Inv', Keeps, Keeps', Unsubmitted, Steady, pc # "append" \/ Crash
    PROVE  Unsubmitted'
<1>1. \A rid : ~Confirmed(todo, rid)
  BY DEF Inv, TypeInv, Confirmed, Crash
<1> QED BY <1>1, SteadyUnsubmitted

LEMMA AppendUnsubmitted == ASSUME Inv, Inv', Keeps, Keeps', Unsubmitted, Append1 PROVE Unsubmitted'
<1>1. Shorter(todo, Tail(todo)) /\ Head(todo) = todo[1] /\ todo[1] \in Events /\ todo # <<>>
  BY TailShorter DEF Inv, TypeInv, Append1
<1>2. todo' = Tail(todo) /\ run' = Reduce(run, todo[1])
  BY <1>1 DEF Append1, Write
<1>3. ASSUME NEW v \in run'.pending, v.sub = "requested", Confirmed(todo, v.rid) PROVE Confirmed(todo', v.rid)
  <2>1. PICK i \in DOMAIN todo : todo[i].type = "manual" /\ todo[i].turn.rid = v.rid
    BY <1>3 DEF Confirmed
  <2>2. CASE i = 1
    <3> DEFINE t == todo[1].turn
               w == [t EXCEPT !.sub = "submitted", !.manual = TRUE]
    <3>1. t \in Turn
      BY <1>1, <2>1, <2>2, AllListed DEF Written, Listed
    <3>2. run' = ManualSubmissionConfirmed(run, t)
      BY <1>2, <2>1, <2>2 DEF Reduce
    <3>3. run'.pending = Without(run.pending, t.rid) \cup {w}
      BY <3>2 DEF ManualSubmissionConfirmed, Inv, TypeInv, GoodRun, Runs
    <3>4. w.sub = "submitted"
      BY <3>1 DEF Turn, Turns
    <3> HIDE DEF w
    <3> QED BY <1>3, <2>1, <2>2, <3>3, <3>4 DEF Without
  <2>3. CASE i # 1
    <3>1. i - 1 \in DOMAIN todo' /\ todo'[i - 1] = todo[i]
      BY <1>1, <1>2, <2>3 DEF Shorter
    <3> QED BY <2>1, <3>1 DEF Confirmed
  <2> QED BY <2>2, <2>3
<1> QED BY <1>3, SendingSteady, SteadyUnsubmitted

\* After the click the turn is past its checkpoint.
LEMMA ClickUnsubmitted ==
    ASSUME Inv, Inv', Keeps, Keeps', Unsubmitted, Click \/ ClickError
    PROVE  Unsubmitted'
<1>1. pc = "click" /\ GoodRun(run) /\ Unique(run)
  BY DEF Click, ClickError, Inv, TypeInv, Unsubmitted
<1>2. \A t \in run.pending : t.sub # "requested"
  BY <1>1, AtSend DEF Sending, AtSending
<1>3. Grows(run, run')
  <2>1. CASE Click
    BY <2>1, StayGrows DEF Click
  <2>2. CASE ClickError
    <3> DEFINE ev == CheckpointEvent("possibly_sent", cur.base > 0)
    <3>1. Listed(ev)
      BY DEF CheckpointEvent, Listed, Types
    <3> HIDE DEF ev
    <3>2. Write(<<ev>>, "clicked") => Grows(run, run')
      BY <3>1, OneGrows
    <3> QED BY <2>2, <3>2, FailGrows DEF ClickError, ev
  <2> QED BY <2>1, <2>2
<1>4. Proceeds(run, run')
  BY <1>1, <1>3, GrowsProceeds
<1> QED BY <1>1, <1>2, <1>4 DEF Proceeds, Unsubmitted, Unique, Unasked

\* The pending turn of the Retry is past its checkpoint.
LEMMA RetryClickUnsubmitted == ASSUME Inv, Inv', Keeps, Keeps', Unsubmitted, RetryClick PROVE Unsubmitted'
<1>1. pc = "retryclick" /\ Unique(run)
  BY DEF RetryClick, Unsubmitted
<1>2. Only(run, cur.rid) /\ \E t \in run.pending : Covers(t, Talk)
  BY <1>1, AtRetrying
<1>3. \A t \in run.pending : t.sub # "requested"
  BY <1>1, <1>2 DEF Only, Covers, Unique
<1>4. CASE ReturnNow
  <2>1. run' = run
    BY <1>4, StayGrows
  <2> QED BY <1>1, <1>3, <2>1 DEF Unsubmitted, Unique, Unasked
<1>5. CASE UNCHANGED talks /\ (AnswerInstead \/ Fail("legacyPreClick", cur.rid, "possibly_sent"))
  BY <1>1, <1>5, StayGrows, FailGrows, CalmUnsubmitted DEF Steady
<1> QED BY <1>4, <1>5 DEF RetryClick

\* The page brings no message back that nobody awaits.
LEMMA PageUnsubmitted == ASSUME Inv, Unsubmitted, PageNext PROVE Unsubmitted'
<1>1. UNCHANGED <<run, todo>>
  BY DEF PageNext, Answer, Vanish, Reload, store
<1>2. talks \in Conversations /\ run.gen \in 1..MaxGen /\ Talk \in Seq(Messages)
  BY TalkTyped DEF Inv, TypeInv, PageInv, Conversations
<1> DEFINE w == Talk
           x == talks'[run.gen]
<1>3. \A i \in DOMAIN x : i \in DOMAIN w /\ x[i].rid = w[i].rid /\ (Awaited(run, x[i]) => Awaited(run, w[i]))
  <2>1. CASE Answer
    <3>1. PICK ans \in {"good", "bad", "failed", "timeout", "late"} :
            /\ \/ Answering
               \/ /\ Talk # <<>> /\ Latest.ans = "timeout"
                  /\ ans = IF pc = "received" \/ Latest.rid \in run.answered THEN "late" ELSE "good"
            /\ talks' = [talks EXCEPT ![run.gen][Len(Talk)].ans = ans]
      BY <2>1 DEF Answer
    <3>2. talks[run.gen] # <<>> /\ talks[run.gen][Len(talks[run.gen])].ans \in {"none", "timeout"}
      BY <3>1 DEF Answering, Latest, Talk
    <3>3. ReanswersIn(talks, talks', run.gen, ans)
      BY <1>2, <3>1, <3>2, ReansweredMessage DEF Talk
    <3>4. Reanswers(w, x, ans) /\ w[Len(w)] = Latest
      BY <3>3 DEF ReanswersIn, Talk, Latest
    <3> HIDE DEF w, x
    <3>5. Awaited(run, x[Len(w)]) => Awaited(run, w[Len(w)])
      BY <3>1, <3>4 DEF Reanswers, Awaited, Answering
    <3> QED BY <3>4, <3>5 DEF Reanswers
  <2>2. CASE Vanish
    <3>1. Talk # <<>> /\ Talk[Len(Talk)].ans = "none" /\ x = SubSeq(Talk, 1, Len(Talk) - 1)
      BY <1>2, <2>2 DEF Vanish, Answering, Latest, Conversations
    <3> QED BY <1>2, <3>1, TakenBack, TakenBackFacts
  <2>3. CASE Reload
    BY <2>3 DEF Reload, Talk
  <2> QED BY <2>1, <2>2, <2>3 DEF PageNext
<1>4. ASSUME NEW t \in run.pending, t.sub = "requested", ~Confirmed(todo, t.rid), NEW i \in DOMAIN x, Awaited(run, x[i])
      PROVE  x[i].rid # t.rid
  BY <1>3, <1>4 DEF Unsubmitted, Unasked
<1> QED BY <1>1, <1>4 DEF Unsubmitted, Unasked, Unique, Talk

\* What the operator has sent or seen is of the turn that is confirmed.
LEMMA ManualUnsubmitted == ASSUME Inv, Inv', Keeps, Keeps', Unsubmitted, Truthful, ManualConfirm PROVE Unsubmitted'
<1>1. pc = "down" /\ run.status \in {"running", "failed"}
  BY DEF ManualConfirm
<1> DEFINE b == [type |-> "bound"]
           pre == IF run.bound THEN <<>> ELSE <<b>>
<1>2. PICK t \in run.pending \cup run.abandoned :
        /\ UNCHANGED page \/ (composer.rid = t.rid /\ Delivered(t.round))
        /\ Write(pre \o <<[type |-> "manual", turn |-> t]>>, "down")
  BY DEF ManualConfirm, Truthful, Trouble
<1> DEFINE a == [type |-> "manual", turn |-> t]
<1>3. GoodRun(run) /\ Unique(run) /\ Active(run) /\ Covered(run, <<>>, Talk, composer) /\ todo = <<>>
  BY <1>1, AtOperator, AtPlace DEF Unsubmitted
<1>4. t \in Turn /\ t.rid \in Ids /\ t.round \in 1..MaxRounds
  <2>1. t \in Turn
    BY <1>3, Fields
  <2> QED BY <2>1, TurnFields
<1>5. \/ run' = Reduce(run, a)
      \/ run' = Reduce(run, b) /\ \E i \in DOMAIN todo' : todo'[i] = a
  <2> HIDE DEF a, b
  <2>1. Write(pre \o <<a>>, "down")
    BY <1>2 DEF a
  <2>2. CASE run.bound
    <3>1. <<a>> \in Seq({a}) /\ <<>> \in Seq({a}) /\ Head(<<a>>) = a
      OBVIOUS
    <3>2. <<>> \o <<a>> = <<a>>
      BY <3>1
    <3> QED BY <2>1, <2>2, <3>1, <3>2 DEF Write, pre
  <2>3. CASE ~run.bound
    <3> DEFINE x == <<b>> \o <<a>>
    <3>1. <<a>> \in Seq({a, b}) /\ <<b>> \in Seq({a, b}) /\ Len(<<a>>) = 1 /\ Len(<<b>>) = 1 /\ <<a>>[1] = a
      OBVIOUS
    <3>2. /\ x \in Seq({a, b}) /\ Len(x) = 1 + 1
          /\ \A n \in 1..(1 + 1) : x[n] = IF n <= 1 THEN <<b>>[n] ELSE <<a>>[n - 1]
      BY <3>1, Joined
    <3>3. Head(x) = b
      BY <3>1, FirstOf
    <3> HIDE DEF x
    <3>4. x[Len(x)] = a /\ Len(x) # 1 /\ x # <<>>
      <4>1. Len(x) = 2 /\ x[2] = a
        <5>1. 2 \in 1..(1 + 1) /\ ~(2 <= 1) /\ 2 - 1 = 1 /\ 1 + 1 = 2
          OBVIOUS
        <5> HIDE DEF a, b
        <5>2. x[2] = <<a>>[1]
          BY <3>2, <5>1
        <5> QED BY <3>1, <3>2, <5>1, <5>2
      <4>2. x # <<>>
        BY <3>2, <4>1, EmptySeq
      <4> QED BY <4>1, <4>2
    <3>5. Shorter(x, Tail(x))
      BY <3>2, <3>4, TailShorter
    <3>6. \E i \in DOMAIN Tail(x) : Tail(x)[i] = a
      <4> DEFINE r == Tail(x)
      <4>1. Len(r) \in Nat /\ Len(r) # 0 /\ DOMAIN r = 1..Len(r) /\ r[Len(r)] = a
        BY <3>4, <3>5 DEF Shorter
      <4> HIDE DEF r
      <4>2. Len(r) \in DOMAIN r
        BY <4>1
      <4>3. \E i \in DOMAIN r : r[i] = a
        BY <4>1, <4>2
      <4> QED BY <4>3 DEF r
    <3>7. Write(x, "down")
      BY <2>1, <2>3 DEF pre, x
    <3> QED BY <3>3, <3>6, <3>7 DEF Write
  <2> QED BY <2>2, <2>3
<1>6. Listed(a) /\ Listed(b)
  BY <1>4 DEF Listed, Types, QuietTypes
<1>7. Proceeds(run, run') /\ MoreCommands(run, run') /\ Unique(run)' /\ run'.gen = run.gen
  <2>1. Grows(run, run')
    BY <1>5, <1>6 DEF Grows
  <2>2. run'.gen = run.gen
    BY <1>3, <1>5 DEF Reduce, ManualSubmissionConfirmed, ConversationBound, GoodRun, Runs
  <2> QED BY <1>3, <2>1, <2>2, GrowsProceeds, GrowsCommands DEF Proceeds, Unique
<1>8. \A v \in run'.pending : v.sub = "requested" /\ ~Confirmed(todo', v.rid) => v.rid # t.rid
  <2>1. CASE run' = Reduce(run, a)
    <3> DEFINE w == [t EXCEPT !.sub = "submitted", !.manual = TRUE]
    <3>1. run' = ManualSubmissionConfirmed(run, t)
      BY <2>1 DEF Reduce
    <3>2. run'.pending = Without(run.pending, t.rid) \cup {w}
      BY <1>3, <3>1 DEF ManualSubmissionConfirmed, GoodRun, Runs
    <3>3. w.sub = "submitted"
      BY <1>4 DEF Turn, Turns
    <3> HIDE DEF w
    <3> QED BY <3>2, <3>3 DEF Without
  <2>2. CASE \E i \in DOMAIN todo' : todo'[i] = a
    <3>1. a.type = "manual" /\ a.turn = t
      OBVIOUS
    <3> HIDE DEF a
    <3>2. Confirmed(todo', t.rid)
      BY <2>2, <3>1 DEF Confirmed
    <3> QED BY <3>2
  <2> QED BY <1>5, <2>1, <2>2
<1>9. ASSUME NEW v \in run'.pending, v.sub = "requested", ~Confirmed(todo', v.rid),
             NEW i \in DOMAIN talks'[run.gen], Awaited(run', talks'[run.gen][i])
      PROVE  talks'[run.gen][i].rid # v.rid
  <2>1. PICK z \in run.pending : z.rid = v.rid /\ z.sub = "requested"
    BY <1>7, <1>9 DEF Proceeds
  <2>2. Awaited(run, talks'[run.gen][i])
    BY <1>3, <1>7, <1>9, AwaitedBefore DEF Proceeds
  <2>3. ~Confirmed(todo, z.rid)
    BY <1>3 DEF Confirmed
  <2>4. CASE UNCHANGED page
    BY <1>9, <2>1, <2>2, <2>3, <2>4 DEF Unsubmitted, Unasked, Talk, page
  <2>5. CASE composer.rid = t.rid /\ Delivered(t.round)
    <3> DEFINE m == [rid |-> t.rid, round |-> t.round, ans |-> "none"]
    <3>1. talks' = [talks EXCEPT ![run.gen] = Append(@, m)]
      BY <2>5 DEF Delivered
    <3>2. m \in Messages /\ m.rid = t.rid
      BY <1>4, TurnAssumption DEF Messages, AnyId, AnyRound
    <3> HIDE DEF m
    <3>3. talks \in Conversations /\ run.gen \in 1..MaxGen
      BY TalkTyped DEF Inv, TypeInv, PageInv, Conversations
    <3>4. Posts(talks[run.gen], talks'[run.gen], m)
      BY <3>1, <3>2, <3>3, PostedMessage DEF PostsTo
    <3>5. NoneAwaited(run, Talk)
      <4>1. composer # EmptyComposer
        BY <1>4, <2>5, TurnAssumption DEF EmptyComposer, None, Ids
      <4> QED BY <1>3, <4>1 DEF Covered, NoneAwaited
    <3>6. talks'[run.gen][i] = m
      BY <1>9, <2>2, <3>4, <3>5 DEF Posts, NoneAwaited, Talk
    <3> QED BY <1>8, <1>9, <3>2, <3>6
  <2> QED BY <1>2, <2>4, <2>5
<1> QED BY <1>7, <1>9 DEF Unsubmitted, Unasked, Talk

LEMMA StepUnsubmitted ==
    ASSUME Inv, Inv', Keeps, Keeps', Unsubmitted, Truthful, [Next]_vars
    PROVE  Unsubmitted'
<1>1. CASE UNCHANGED vars
  BY <1>1 DEF vars, Unsubmitted, Unique, Unasked, Talk
<1>2. CASE Drive \/ DrivePromptMismatch \/ DriveNoMore \/ Refuse \/ Compose \/ Stage \/ Target
  <2>1. pc # "append"
    BY <1>2 DEF Drive, DrivePromptMismatch, DriveNoMore, Refuse, Compose, Stage, Target
  <2> QED BY <1>2, <2>1, SendingSteady, CalmUnsubmitted
<1>3. CASE Clicked \/ Acknowledge \/ Wait \/ Receive \/ Reject \/ Accept
  <2>1. pc # "append"
    BY <1>3 DEF Clicked, Acknowledge, Wait, Receive, Reject, Accept
  <2> QED BY <1>3, <2>1, AnsweringSteady, CalmUnsubmitted
<1>4. CASE Execute \/ Archive \/ ArchiveClick \/ ArchiveProof \/ RotateOnRequest \/ Rotate \/ Open
           \/ Continue \/ ContinueArchive \/ Crash
  <2>1. pc # "append" \/ Crash
    BY <1>4 DEF Execute, Archive, ArchiveClick, ArchiveProof, RotateOnRequest, Rotate, Open, Continue, ContinueArchive
  <2> QED BY <1>4, <2>1, LoopSteady, CalmUnsubmitted
<1>5. CASE ReconcileNothing \/ ReconcileUnsent \/ ReconcileAmbiguous \/ ReconcileUnreadable
           \/ ObserveAnswer \/ ObserveNotSent \/ ObserveFailure \/ ObserveTimeout \/ ObservePending
           \/ RetryCheck \/ ReadTurn
  <2>1. pc # "append"
    BY <1>5 DEF ReconcileNothing, ReconcileUnsent, ReconcileAmbiguous, ReconcileUnreadable, ObserveAnswer, ObserveNotSent,
                ObserveFailure, ObserveTimeout, ObservePending, RetryCheck, ReadTurn
  <2> QED BY <1>5, <2>1, ReconcilingSteady, CalmUnsubmitted
<1>6. CASE ConfirmNotSent \/ ReauthorizeRetry \/ ReauthorizeMismatch \/ AuthorizeDelivery \/ AuthorizeResponse
           \/ ConfirmMisdirected
  <2>1. pc # "append"
    BY <1>6 DEF ConfirmNotSent, ReauthorizeRetry, ReauthorizeMismatch, AuthorizeDelivery, AuthorizeResponse,
                ConfirmMisdirected, Operator
  <2> QED BY <1>6, <2>1, OperatorSteady, CalmUnsubmitted
<1>7. CASE Append1 \/ Click \/ ClickError \/ RetryClick \/ PageNext \/ ManualConfirm
  BY <1>7, AppendUnsubmitted, ClickUnsubmitted, RetryClickUnsubmitted, PageUnsubmitted, ManualUnsubmitted
<1> QED BY <1>1, <1>2, <1>3, <1>4, <1>5, <1>6, <1>7 DEF Next, ProcessNext, OperatorNext

\* As long as no prompt goes with the attachment of another request, a turn that
\* is on record as only requested has no message that an answer may come for, so
\* that reconcilePendingControllerTurn may ask it again without a look at the page.
THEOREM CheckpointBeforeClick == Spec /\ []OwnPrompt => []UnsentUntilCheckpoint
<1>1. Init => (Truthful => Unsubmitted)
  <2>1. Init => run.pending = {}
    BY DEF Init, InitialRun
  <2> QED BY <2>1 DEF Unsubmitted, Unique, Unasked
<1>2. Agreement /\ Agreement' /\ (Truthful => Unsubmitted) /\ [Next]_vars => (Truthful => Unsubmitted)'
  <2> SUFFICES ASSUME Agreement, Agreement', Truthful => Unsubmitted, [Next]_vars, Truthful'
               PROVE  Unsubmitted'
    OBVIOUS
  <2>1. Truthful
    BY StepPlan DEF Agreement, Truthful
  <2> QED BY <2>1, StepUnsubmitted DEF Agreement
<1>3. Agreement /\ (Truthful => Unsubmitted) => UnsentUntilCheckpoint
  <2> SUFFICES ASSUME Truthful => Unsubmitted, Consistent, NEW t \in run.pending, t.sub = "requested",
                      NEW i \in OpenMessages, Talk[i].rid = t.rid
               PROVE  Commanded(run, Talk[i].round)
    BY DEF UnsentUntilCheckpoint, Commanded
  <2>1. Truthful /\ ~Confirmed(todo, t.rid)
    BY DEF Consistent, Truthful, Confirmed
  <2>2. i \in DOMAIN Talk /\ ~Awaited(run, Talk[i])
    BY <2>1 DEF OpenMessages, Unsubmitted, Unasked
  <2> QED BY <2>2 DEF OpenMessages, Awaited
<1>4. Spec /\ []OwnPrompt => []Agreement
  BY AgreementKept
<1> QED BY <1>1, <1>2, <1>3, <1>4, PTL DEF Spec
=============================================================================
