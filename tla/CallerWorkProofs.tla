-------------------------- MODULE CallerWorkProofs --------------------------
(***************************************************************************)
(* Proofs about CallerWork for any number of processes, callers, claims,   *)
(* crashes and takeovers: type correctness, agreement of the events with   *)
(* the terminal record, and what calls promise each other: no append is    *)
(* ignored, a token names one caller, one claim begins, a success was      *)
(* announced, a report stands, the status file follows the record.         *)
(***************************************************************************)
EXTENDS CallerWork, FiniteSetTheorems, SequenceTheorems, TLAPS

(* What the steps and the calls look like *)

Values == Hashes \cup Terminal \cup {"none"}
Kinds == {"none", "claimed", "started", "heartbeat", "progress", "released",
          "ambiguous", "review", "status", "intent", "submitted"}
Event == [kind : Kinds, caller : Callers \cup {Nobody}, token : 0..MaxClaims,
          time : 0..MaxTime, value : Values]
Dos == {"append", "check", "replace", "recheck", "create", "copy", "grant", "began", "report"}
AnyStep == [do : Dos, status : Active \cup Terminal \cup {"none"}, event : Event]

\* What a step of each kind carries.
Carries(s) ==
    /\ s.do = "append" /\ s.event.kind = "progress" => s.event.value \in Hashes
    /\ s.do = "append" /\ s.event.kind = "status" => s.event.value \in Terminal
    /\ s.do = "append" /\ s.event.kind = "intent" =>
         s.event.value \in Terminal /\ s.event.token \in 1..MaxClaims
    /\ s.do = "replace" => s.status \in Active
    /\ s.do \in {"create", "report"} => s.status \in Terminal
    /\ s.do = "grant" => s.event.caller \in Callers /\ s.event.token \in 1..MaxClaims
    /\ s.do = "began" => s.event.token \in 1..MaxClaims

Steps == {s \in AnyStep : Carries(s)}

Ops == {"claim", "start", "heartbeat", "progress", "review", "release", "submit",
        "expire", "cancel"}
AnyCall == [op : Ops \cup {"none"}, caller : Callers \cup {Nobody}, token : 0..MaxClaims,
            value : Values]

Asked(c) ==
    /\ c.op \in Ops
    /\ c.op = "claim" => c.caller \in Callers
    /\ c.op = "progress" => c.value \in Hashes
    /\ c.op = "submit" => c.value \in Terminal

\* A held claim has a token.
Numbered(j) == j.claim # NoClaim => j.token \in 1..MaxClaims

\* What the processes hold.
LocalInv ==
    /\ owner \in Processes \cup {Nobody}
    /\ pc \in [Processes -> {"idle", "load", "decide", "run"}]
    /\ call \in [Processes -> AnyCall]
    /\ \A p \in Processes : pc[p] \in {"load", "decide"} => Asked(call[p])
    /\ mine \in [Processes -> Job]
    /\ \A p \in Processes : Numbered(mine[p])
    /\ todo \in [Processes -> Seq(Steps)]

TypeInv == TypeOK /\ Numbered(job) /\ LocalInv

-----------------------------------------------------------------------------
(* Why the events agree with the terminal record *)

\* The terminal status that an event brings about.
Ending(s) == s.do = "append" /\ s.event.kind \in {"status", "ambiguous", "review"}
Ends(s) == IF s.event.kind = "status" THEN s.event.value ELSE "ambiguous"

\* q creates the record v before its i-th step.
Creates(q, v, i) == \E j \in 1..Len(q) : j < i /\ q[j].do = "create" /\ q[j].status = v

\* Whatever ends the job is on record as a, or is recorded first.
Backed(q, a) ==
    \A i \in 1..Len(q) : Ending(q[i]) => Ends(q[i]) = a \/ Creates(q, Ends(q[i]), i)

AgreeInv ==
    /\ TypeInv
    /\ TerminalAgrees
    /\ \A p \in Processes : Backed(todo[p], anchor)

\* A sequence that may be planned.
Good(q) == q \in Seq(Steps) /\ Backed(q, anchor)

\* ... after which the record is v, and one that ends the job with v at most.
Covers(q, v) == Good(q) /\ (anchor = v \/ Creates(q, v, Len(q) + 1))
Only(q, v) == q \in Seq(Steps) /\ \A i \in 1..Len(q) : Ending(q[i]) => Ends(q[i]) = v

-----------------------------------------------------------------------------
(* Sequences of steps *)

LEMMA EmptyIsGood == Good(<<>>)
  BY DEF Good, Backed

LEMMA EmptyOnly == \A v : Only(<<>>, v)
  BY DEF Only

LEMMA GoodConcat ==
    ASSUME NEW q, NEW r, Good(q), Good(r)
    PROVE  Good(q \o r)
<1>1. q \o r \in Seq(Steps)
  BY ConcatProperties DEF Good
<1>2. ASSUME NEW i \in 1..Len(q \o r), Ending((q \o r)[i])
      PROVE  Ends((q \o r)[i]) = anchor \/ Creates(q \o r, Ends((q \o r)[i]), i)
  <2>0. /\ Len(q) \in Nat /\ Len(r) \in Nat /\ Len(q \o r) = Len(q) + Len(r)
        /\ \A k \in 1..Len(q) + Len(r) :
             (q \o r)[k] = IF k <= Len(q) THEN q[k] ELSE r[k - Len(q)]
    BY ConcatProperties, LenProperties DEF Good
  <2>1. CASE i <= Len(q)
    <3>1. (q \o r)[i] = q[i] /\ i \in 1..Len(q)
      BY <2>0, <2>1
    <3>2. CASE Creates(q, Ends(q[i]), i)
      <4>1. PICK j \in 1..Len(q) : j < i /\ q[j].do = "create" /\ q[j].status = Ends(q[i])
        BY <3>2 DEF Creates
      <4>2. j \in 1..Len(q \o r) /\ (q \o r)[j] = q[j]
        BY <2>0
      <4> QED
        BY <3>1, <4>1, <4>2 DEF Creates
    <3> QED
      BY <1>2, <3>1, <3>2 DEF Good, Backed
  <2>2. CASE i > Len(q)
    <3>1. i - Len(q) \in 1..Len(r) /\ (q \o r)[i] = r[i - Len(q)]
      BY <2>0, <2>2
    <3>2. CASE Creates(r, Ends(r[i - Len(q)]), i - Len(q))
      <4>1. PICK j \in 1..Len(r) : j < i - Len(q) /\ r[j].do = "create"
                                   /\ r[j].status = Ends(r[i - Len(q)])
        BY <3>2 DEF Creates
      <4>2. j + Len(q) \in 1..Len(q \o r) /\ (q \o r)[j + Len(q)] = r[j] /\ j + Len(q) < i
        BY <2>0, <4>1
      <4> QED
        BY <3>1, <4>1, <4>2 DEF Creates
    <3> QED
      BY <1>2, <3>1, <3>2 DEF Good, Backed
  <2> QED
    BY <2>0, <2>1, <2>2
<1> QED
  BY <1>1, <1>2 DEF Good, Backed

LEMMA OnlyConcat ==
    ASSUME NEW q, NEW r, NEW v, Only(q, v), Only(r, v)
    PROVE  Only(q \o r, v)
<1>1. /\ q \o r \in Seq(Steps)
      /\ Len(q) \in Nat /\ Len(r) \in Nat /\ Len(q \o r) = Len(q) + Len(r)
      /\ \A k \in 1..Len(q) + Len(r) :
           (q \o r)[k] = IF k <= Len(q) THEN q[k] ELSE r[k - Len(q)]
  BY ConcatProperties, LenProperties DEF Only
<1>2. ASSUME NEW i \in 1..Len(q \o r), Ending((q \o r)[i])
      PROVE  Ends((q \o r)[i]) = v
  <2>1. CASE i <= Len(q)
    BY <1>1, <1>2, <2>1 DEF Only
  <2>2. CASE i > Len(q)
    <3>1. i - Len(q) \in 1..Len(r) /\ (q \o r)[i] = r[i - Len(q)]
      BY <1>1, <2>2
    <3> QED
      BY <1>2, <3>1 DEF Only
  <2> QED
    BY <1>1, <2>1, <2>2
<1> QED
  BY <1>1, <1>2 DEF Only

\* Once the record is v, or will be, the job may end with v.
LEMMA CoversConcat ==
    ASSUME NEW q, NEW r, NEW v, Covers(q, v), Only(r, v)
    PROVE  Covers(q \o r, v)
<1>0. /\ q \o r \in Seq(Steps)
      /\ Len(q) \in Nat /\ Len(r) \in Nat /\ Len(q \o r) = Len(q) + Len(r)
      /\ \A k \in 1..Len(q) + Len(r) :
           (q \o r)[k] = IF k <= Len(q) THEN q[k] ELSE r[k - Len(q)]
  BY ConcatProperties, LenProperties DEF Only, Covers, Good
<1>1. ASSUME NEW n \in Nat, NEW w, Creates(q, w, n)
      PROVE  Creates(q \o r, w, n)
  <2>1. PICK j \in 1..Len(q) : j < n /\ q[j].do = "create" /\ q[j].status = w
    BY <1>1 DEF Creates
  <2>2. j \in 1..Len(q \o r) /\ (q \o r)[j] = q[j]
    BY <1>0
  <2> QED
    BY <2>1, <2>2 DEF Creates
<1>2. ASSUME NEW n \in Nat, n > Len(q), Creates(q, v, Len(q) + 1)
      PROVE  Creates(q \o r, v, n)
  BY <1>0, <1>1, <1>2 DEF Creates
<1>3. ASSUME NEW i \in 1..Len(q \o r), Ending((q \o r)[i])
      PROVE  Ends((q \o r)[i]) = anchor \/ Creates(q \o r, Ends((q \o r)[i]), i)
  <2>1. CASE i <= Len(q)
    <3>1. (q \o r)[i] = q[i] /\ i \in 1..Len(q) /\ i \in Nat
      BY <1>0, <2>1
    <3> QED
      BY <1>1, <1>3, <3>1 DEF Covers, Good, Backed
  <2>2. CASE i > Len(q)
    <3>1. i - Len(q) \in 1..Len(r) /\ (q \o r)[i] = r[i - Len(q)] /\ i \in Nat
      BY <1>0, <2>2
    <3>2. Ends((q \o r)[i]) = v
      BY <1>3, <3>1 DEF Only
    <3> QED
      BY <1>2, <2>2, <3>1, <3>2 DEF Covers
  <2> QED
    BY <1>0, <2>1, <2>2
<1>4. anchor = v \/ Creates(q \o r, v, Len(q \o r) + 1)
  BY <1>0, <1>2 DEF Covers
<1> QED
  BY <1>0, <1>3, <1>4 DEF Covers, Good, Backed

-----------------------------------------------------------------------------
(* The steps that calls plan *)

LEMMA StepIsStep ==
    ASSUME NEW do \in Dos \ {"append"}, NEW status \in Active \cup Terminal \cup {"none"},
           NEW caller \in Callers \cup {Nobody}, NEW token \in 0..MaxClaims,
           do = "replace" => status \in Active,
           do \in {"create", "report"} => status \in Terminal,
           do = "grant" => caller \in Callers /\ token \in 1..MaxClaims,
           do = "began" => token \in 1..MaxClaims
    PROVE  [do |-> do, status |-> status,
            event |-> [kind |-> "none", caller |-> caller, token |-> token, time |-> 0,
                       value |-> "none"]] \in Steps
  BY CallerWorkAssumption DEF Steps, AnyStep, Carries, Event, Kinds, Values

LEMMA LogIsPlanned ==
    ASSUME NEW kind \in Kinds, NEW caller \in Callers \cup {Nobody}, NEW token \in 0..MaxClaims,
           NEW time \in 0..MaxTime, NEW value \in Values,
           kind = "progress" => value \in Hashes,
           kind = "status" => value \in Terminal,
           kind = "intent" => value \in Terminal /\ token \in 1..MaxClaims
    PROVE  /\ Log(kind, caller, token, time, value) \in Seq(Steps)
           /\ Len(Log(kind, caller, token, time, value)) = 1
           /\ Log(kind, caller, token, time, value)[1].do = "append"
           /\ Log(kind, caller, token, time, value)[1].event.kind = kind
           /\ Log(kind, caller, token, time, value)[1].event.value = value
<1> DEFINE s == [do |-> "append", status |-> "none",
                 event |-> [kind |-> kind, caller |-> caller, token |-> token, time |-> time,
                            value |-> value]]
<1>1. s \in Steps
  BY DEF Steps, AnyStep, Carries, Event, Dos
<1>2. Log(kind, caller, token, time, value) = <<s>>
  BY DEF Log, Carry, Fact
<1> QED
  BY <1>1, <1>2

\* Steps that leave the job active.
LEMMA NoEndings ==
    ASSUME NEW q \in Seq(Steps), \A i \in 1..Len(q) : ~Ending(q[i])
    PROVE  Good(q) /\ \A v : Only(q, v)
  BY DEF Good, Backed, Only

\* An event that leaves the job active.
LEMMA LogIsGood ==
    ASSUME NEW kind \in Kinds \ {"status", "ambiguous", "review"},
           NEW caller \in Callers \cup {Nobody}, NEW token \in 0..MaxClaims,
           NEW time \in 0..MaxTime, NEW value \in Values,
           kind = "progress" => value \in Hashes,
           kind = "intent" => value \in Terminal /\ token \in 1..MaxClaims
    PROVE  /\ Good(Log(kind, caller, token, time, value))
           /\ \A v : Only(Log(kind, caller, token, time, value), v)
<1>1. kind \in Kinds /\ kind \notin {"status", "ambiguous", "review"}
  OBVIOUS
<1>2. kind = "status" => value \in Terminal
  BY <1>1
<1>3. /\ Log(kind, caller, token, time, value) \in Seq(Steps)
      /\ Len(Log(kind, caller, token, time, value)) = 1
      /\ Log(kind, caller, token, time, value)[1].event.kind = kind
  BY <1>1, <1>2, LogIsPlanned
<1>4. \A i \in 1..Len(Log(kind, caller, token, time, value)) :
        ~Ending(Log(kind, caller, token, time, value)[i])
  BY <1>1, <1>3 DEF Ending
<1> QED
  BY <1>3, <1>4, NoEndings

\* An event that ends it.
LEMMA LogEnds ==
    ASSUME NEW kind \in {"status", "ambiguous", "review"},
           NEW caller \in Callers \cup {Nobody}, NEW token \in 0..MaxClaims,
           NEW time \in 0..MaxTime, NEW value \in Values,
           kind = "status" => value \in Terminal
    PROVE  Only(Log(kind, caller, token, time, value), IF kind = "status" THEN value ELSE "ambiguous")
<1>1. kind \in Kinds
  BY DEF Kinds
<1> QED
  BY <1>1, LogIsPlanned DEF Only, Ends

LEMMA OnlyIsGood == ASSUME NEW q, Only(q, anchor) PROVE Good(q)
  BY DEF Only, Good, Backed

LEMMA UpdateIsGood ==
    ASSUME NEW status \in Active
    PROVE  Good(Update(status))
<1>1. /\ Step("check", status) \in Steps /\ Step("replace", status) \in Steps
      /\ Step("recheck", status) \in Steps
  BY StepIsStep, CallerWorkAssumption DEF Step, NoFact, Fact, Dos
<1>2. Update(status) \in Seq(Steps) /\ Len(Update(status)) = 3
  BY <1>1 DEF Update
<1>3. \A i \in 1..3 : Update(status)[i].do # "append"
  BY DEF Update, Step
<1> QED
  BY <1>2, <1>3 DEF Good, Backed, Ending

LEMMA SettleCovers ==
    ASSUME NEW status \in Terminal
    PROVE  Covers(Settle(status), status)
<1>1. Step("create", status) \in Steps /\ Step("copy", status) \in Steps
  BY StepIsStep, CallerWorkAssumption DEF Step, NoFact, Fact, Dos
<1>2. Settle(status) \in Seq(Steps) /\ Len(Settle(status)) = 2
  BY <1>1 DEF Settle
<1>3. \A i \in 1..2 : Settle(status)[i].do # "append"
  BY DEF Settle, Step
<1>4. Settle(status)[1].do = "create" /\ Settle(status)[1].status = status
  BY DEF Settle, Step
<1> QED
  BY <1>2, <1>3, <1>4 DEF Covers, Creates, Good, Backed, Ending

LEMMA AnswersAreGood ==
    /\ \A caller \in Callers, token \in 1..MaxClaims : Good(Told(caller, token))
    /\ \A token \in 1..MaxClaims : Good(Begun(token))
    /\ \A status \in Terminal : \A v : Only(Reported(status), v)
<1>1. ASSUME NEW caller \in Callers, NEW token \in 1..MaxClaims
      PROVE  Good(Told(caller, token))
  <2> DEFINE s == [do |-> "grant", status |-> "none",
                   event |-> [kind |-> "none", caller |-> caller, token |-> token, time |-> 0,
                              value |-> "none"]]
  <2>1. Told(caller, token) = <<s>>
    BY DEF Told, Carry, Fact
  <2>2. s \in Steps
    BY StepIsStep, CallerWorkAssumption DEF Dos
  <2> QED
    BY <2>1, <2>2 DEF Good, Backed, Ending
<1>2. ASSUME NEW token \in 1..MaxClaims
      PROVE  Good(Begun(token))
  <2> DEFINE s == [do |-> "began", status |-> "none",
                   event |-> [kind |-> "none", caller |-> Nobody, token |-> token, time |-> 0,
                              value |-> "none"]]
  <2>1. Begun(token) = <<s>>
    BY DEF Begun, Carry, Fact
  <2>2. s \in Steps
    BY StepIsStep, CallerWorkAssumption DEF Dos
  <2> QED
    BY <2>1, <2>2 DEF Good, Backed, Ending
<1>3. ASSUME NEW status \in Terminal, NEW v
      PROVE  Only(Reported(status), v)
  <2>1. Step("report", status) \in Steps
    BY StepIsStep, CallerWorkAssumption DEF Step, NoFact, Fact, Dos
  <2> QED
    BY <2>1 DEF Reported, Only, Ending, Step
<1> QED
  BY <1>1, <1>2, <1>3

\* Steps that do not disturb an earlier record.
LEMMA GoodThenCovers ==
    ASSUME NEW q, NEW r, NEW v, Good(q), Covers(r, v)
    PROVE  Covers(q \o r, v)
<1>1. Good(q \o r)
  BY GoodConcat DEF Covers
<1>2. /\ Len(q) \in Nat /\ Len(r) \in Nat /\ Len(q \o r) = Len(q) + Len(r)
      /\ \A k \in 1..Len(q) + Len(r) :
           (q \o r)[k] = IF k <= Len(q) THEN q[k] ELSE r[k - Len(q)]
  BY ConcatProperties, LenProperties DEF Covers, Good
<1>3. CASE Creates(r, v, Len(r) + 1)
  <2>1. PICK j \in 1..Len(r) : r[j].do = "create" /\ r[j].status = v
    BY <1>3 DEF Creates
  <2>2. /\ j + Len(q) \in 1..Len(q \o r) /\ j + Len(q) < Len(q \o r) + 1
        /\ (q \o r)[j + Len(q)] = r[j]
    BY <1>2
  <2> QED
    BY <1>1, <2>1, <2>2 DEF Covers, Creates
<1> QED
  BY <1>1, <1>3 DEF Covers

-----------------------------------------------------------------------------
(* Every plan is good *)

\* What a call has read has its type.
LEMMA Loaded ==
    ASSUME TypeInv, NEW p \in Processes
    PROVE  /\ mode \in {"work", "advise"} /\ anchor \in Terminal \cup {"none"}
           /\ Now(p) \in 0..MaxTime
           /\ mine[p].status \in Active \cup Terminal
           /\ mine[p].token \in 0..MaxClaims
           /\ mine[p].claim.caller \in Callers \cup {Nobody}
           /\ Held(p) => mine[p].token \in 1..MaxClaims
<1>1. mine[p] \in Job /\ Numbered(mine[p])
  BY DEF TypeInv, LocalInv
<1>2. Now(p) \in 0..MaxTime
  BY CallerWorkAssumption DEF TypeInv, TypeOK, Now
<1>3. mine[p].claim \in Claim
  BY <1>1 DEF Job
<1> QED
  BY <1>1, <1>2, <1>3 DEF TypeInv, TypeOK, Job, Claim, Numbered, Held

LEMMA NoteIsGood ==
    ASSUME TypeInv, NEW p \in Processes, NEW value \in Values,
           NEW kind \in Kinds \ {"status", "ambiguous", "review"},
           kind = "progress" => value \in Hashes,
           kind = "intent" => value \in Terminal /\ mine[p].token \in 1..MaxClaims
    PROVE  Good(Note(p, kind, value)) /\ \A v : Only(Note(p, kind, value), v)
  BY Loaded, LogIsGood DEF Note

LEMMA NoteEnds ==
    ASSUME TypeInv, NEW p \in Processes
    PROVE  /\ \A kind \in {"ambiguous", "review"} : Only(Note(p, kind, "none"), "ambiguous")
           /\ \A v \in Terminal : Only(Note(p, "status", v), v)
<1>1. "none" \in Values /\ Terminal \subseteq Values
  BY DEF Values
<1>2. ASSUME NEW kind \in {"ambiguous", "review"}
      PROVE  Only(Note(p, kind, "none"), "ambiguous")
  BY <1>1, Loaded, LogEnds DEF Note
<1>3. ASSUME NEW v \in Terminal
      PROVE  Only(Note(p, "status", v), v)
  BY <1>1, Loaded, LogEnds DEF Note
<1> QED
  BY <1>2, <1>3

LEMMA ReleasingIsGood ==
    ASSUME TypeInv, NEW p \in Processes
    PROVE  Good(Releasing(p))
<1>1. Good(Note(p, "released", "none"))
  BY NoteIsGood DEF Kinds, Values
<1>2. Good(Update("pending"))
  BY UpdateIsGood DEF Active
<1> QED
  BY <1>1, <1>2, GoodConcat DEF Releasing

LEMMA SettledIsGood ==
    ASSUME TypeInv, NEW p \in Processes, NEW kind \in {"ambiguous", "review"}
    PROVE  Good(Settle("ambiguous") \o Note(p, kind, "none"))
<1>1. Covers(Settle("ambiguous"), "ambiguous")
  BY SettleCovers DEF Terminal
<1> QED
  BY <1>1, NoteEnds, CoversConcat DEF Covers

LEMMA AmbiguousIsGood ==
    ASSUME TypeInv, NEW p \in Processes
    PROVE  Good(Ambiguous(p))
<1>1. CASE anchor # "none"
  <2>1. Good(Note(p, "status", anchor))
    BY <1>1, Loaded, NoteEnds, OnlyIsGood
  <2> QED
    BY <1>1, <2>1, EmptyIsGood DEF Ambiguous
<1>2. CASE anchor = "none"
  BY <1>2, SettledIsGood DEF Ambiguous
<1> QED
  BY <1>1, <1>2

LEMMA LapseIsGood ==
    ASSUME TypeInv, NEW p \in Processes
    PROVE  Good(Lapse(p))
  BY EmptyIsGood, AmbiguousIsGood, ReleasingIsGood DEF Lapse

LEMMA ClaimPlanIsGood ==
    ASSUME TypeInv, NEW p \in Processes, call[p].caller \in Callers
    PROVE  Good(ClaimPlan(p))
<1>1. Good(Claiming(p))
  <2>1. CASE mine[p].status = "pending" /\ MayRenew(p) /\ mine[p].token < MaxClaims
    <3>1. NextToken(mine[p]) \in 1..MaxClaims
      BY <2>1, Loaded, CallerWorkAssumption DEF NextToken
    <3>2. Good(Log("claimed", call[p].caller, NextToken(mine[p]), Now(p), "none"))
      BY <3>1, Loaded, LogIsGood, CallerWorkAssumption DEF Kinds, Values
    <3>3. Good(Update("pending"))
      BY UpdateIsGood DEF Active
    <3>4. Good(Told(call[p].caller, NextToken(mine[p])))
      BY <3>1, AnswersAreGood
    <3> QED
      BY <2>1, <3>2, <3>3, <3>4, GoodConcat DEF Claiming
  <2> QED
    BY <2>1, EmptyIsGood DEF Claiming
<1>2. Held(p) => Good(Told(call[p].caller, mine[p].token))
  BY Loaded, AnswersAreGood
<1>3. Good(Releasing(p) \o Claiming(p))
  BY <1>1, ReleasingIsGood, GoodConcat
<1> QED
  BY <1>1, <1>2, <1>3, EmptyIsGood, AmbiguousIsGood DEF ClaimPlan

LEMMA StartPlanIsGood ==
    ASSUME TypeInv, NEW p \in Processes
    PROVE  Good(StartPlan(p))
<1>1. CASE Exact(p) /\ mine[p].token \in 1..MaxClaims
  <2>1. Good(Note(p, "started", "none"))
    BY NoteIsGood DEF Kinds, Values
  <2>2. Good(Update("running"))
    BY UpdateIsGood DEF Active
  <2>3. Good(Begun(mine[p].token))
    BY <1>1, AnswersAreGood
  <2>4. Good(Note(p, "started", "none") \o Update("running") \o Begun(mine[p].token))
    BY <2>1, <2>2, <2>3, GoodConcat
  <2> QED
    BY <2>3, <2>4, LapseIsGood, EmptyIsGood DEF StartPlan
<1>2. Exact(p) => mine[p].token \in 1..MaxClaims
  BY Loaded DEF Exact, Of, Held
<1>3. CASE ~Exact(p)
  BY <1>3, EmptyIsGood DEF StartPlan
<1> QED
  BY <1>1, <1>2, <1>3

LEMMA HeartbeatPlanIsGood ==
    ASSUME TypeInv, NEW p \in Processes
    PROVE  Good(HeartbeatPlan(p))
<1>1. Good(Note(p, "heartbeat", "none"))
  BY NoteIsGood DEF Kinds, Values
<1>2. Good(Update(IF mine[p].claim.started THEN "running" ELSE "pending"))
  BY UpdateIsGood DEF Active
<1>3. Good(Note(p, "heartbeat", "none")
             \o Update(IF mine[p].claim.started THEN "running" ELSE "pending"))
  BY <1>1, <1>2, GoodConcat
<1> QED
  BY <1>3, LapseIsGood, EmptyIsGood DEF HeartbeatPlan

LEMMA ProgressPlanIsGood ==
    ASSUME TypeInv, NEW p \in Processes, call[p].value \in Hashes
    PROVE  Good(ProgressPlan(p))
<1>1. Good(Note(p, "progress", call[p].value))
  BY NoteIsGood DEF Kinds, Values
<1>2. Good(Update("running"))
  BY UpdateIsGood DEF Active
<1>3. Good(Note(p, "progress", call[p].value) \o Update("running"))
  BY <1>1, <1>2, GoodConcat
<1> QED
  BY <1>3, LapseIsGood, EmptyIsGood DEF ProgressPlan

LEMMA ReviewPlanIsGood ==
    ASSUME TypeInv, NEW p \in Processes
    PROVE  Good(ReviewPlan(p))
  BY SettledIsGood, AmbiguousIsGood, EmptyIsGood DEF ReviewPlan

LEMMA ReleasePlanIsGood ==
    ASSUME TypeInv, NEW p \in Processes
    PROVE  Good(ReleasePlan(p))
  BY LapseIsGood, ReleasingIsGood, EmptyIsGood DEF ReleasePlan

LEMMA ExpirePlanIsGood ==
    ASSUME TypeInv, NEW p \in Processes
    PROVE  Good(ExpirePlan(p))
  BY AmbiguousIsGood, ReleasingIsGood, EmptyIsGood DEF ExpirePlan

\* The announced result, its record, and the events that end the job with it.
LEMMA SubmissionStepsAreGood ==
    ASSUME TypeInv, NEW p \in Processes, NEW status \in Terminal,
           anchor \in {"none", status},
           mode = "work" => mine[p].token \in 1..MaxClaims
    PROVE  Good(SubmissionSteps(p, status))
<1> DEFINE announce == IF mode = "work" /\ intent[mine[p].token] = "none"
                       THEN Note(p, "intent", status) ELSE <<>>
           settle == IF anchor = "none" THEN Settle(status) ELSE <<>>
           record == IF recorded THEN <<>> ELSE Note(p, "submitted", status)
<1>0. status \in Values
  BY DEF Values
<1>1. Good(announce)
  <2>1. mode = "work" => Good(Note(p, "intent", status))
    BY <1>0, NoteIsGood DEF Kinds
  <2> QED
    BY <2>1, EmptyIsGood
<1>2. Covers(settle, status)
  BY SettleCovers, EmptyIsGood DEF Covers
<1>3. Only(record, status)
  <2>1. Only(Note(p, "submitted", status), status)
    BY <1>0, NoteIsGood DEF Kinds
  <2> QED
    BY <2>1, EmptyOnly
<1>4. Only(Note(p, "status", status), status) /\ Only(Reported(status), status)
  BY NoteEnds, AnswersAreGood
<1>5. SubmissionSteps(p, status)
        = announce \o settle \o record \o Note(p, "status", status) \o Reported(status)
  BY DEF SubmissionSteps
<1> HIDE DEF announce, settle, record
<1>6. Covers(announce \o settle, status)
  BY <1>1, <1>2, GoodThenCovers
<1>7. Covers(announce \o settle \o record, status)
  BY <1>3, <1>6, CoversConcat
<1>8. Covers(announce \o settle \o record \o Note(p, "status", status), status)
  BY <1>4, <1>7, CoversConcat
<1>9. Covers(announce \o settle \o record \o Note(p, "status", status) \o Reported(status), status)
  BY <1>4, <1>8, CoversConcat
<1> QED
  BY <1>5, <1>9 DEF Covers

LEMMA SubmitPlanIsGood ==
    ASSUME TypeInv, NEW p \in Processes, call[p].value \in Terminal
    PROVE  Good(SubmitPlan(p))
<1> DEFINE status == IF anchor # "none" THEN anchor ELSE call[p].value
           announced == IF Exact(p) /\ mode = "work" THEN intent[mine[p].token] ELSE "none"
           durable == anchor # "none" /\ announced = anchor
<1>1. status \in Terminal /\ anchor \in {"none", status}
  BY Loaded
<1>2. Exact(p) => mine[p].token \in 1..MaxClaims
  BY Loaded DEF Exact, Of, Held
<1>3. mode = "advise" \/ Exact(p) => Good(SubmissionSteps(p, status))
  BY <1>1, <1>2, SubmissionStepsAreGood
<1>4. Exact(p) => Good(Validated(p, durable, SubmissionSteps(p, status)))
  BY <1>3, LapseIsGood, EmptyIsGood DEF Validated
<1>5. CASE ~IsActive(p) \/ (mode = "work" /\ ~Exact(p))
  BY <1>5, EmptyIsGood DEF SubmitPlan
<1>6. CASE IsActive(p) /\ (mode = "advise" \/ Exact(p))
  BY <1>3, <1>4, <1>6, Loaded, EmptyIsGood DEF SubmitPlan
<1> QED
  BY <1>5, <1>6, Loaded

LEMMA CancelPlanIsGood ==
    ASSUME TypeInv, NEW p \in Processes
    PROVE  Good(CancelPlan(p))
<1>1. \A v \in Terminal : Good(Settle(v))
  BY SettleCovers DEF Covers
<1>2. anchor # "none" => Good(Note(p, "status", anchor))
  BY Loaded, NoteEnds, OnlyIsGood
<1>3. Cancelled(mine[p].status) \in Terminal
  BY DEF Cancelled, Terminal
<1>4. Good(Settle(Cancelled(mine[p].status)) \o Note(p, "status", Cancelled(mine[p].status)))
  BY <1>3, SettleCovers, NoteEnds, CoversConcat DEF Covers
<1>5. mine[p].status \in {"cancelled", "ambiguous"} => Good(Settle(mine[p].status))
  BY <1>1 DEF Terminal
<1> QED
  BY <1>2, <1>4, <1>5, EmptyIsGood DEF CancelPlan

LEMMA PlanIsGood ==
    ASSUME TypeInv, NEW p \in Processes, Asked(call[p])
    PROVE  Good(Plan(p))
<1>1. call[p].op \in Ops
  BY DEF Asked
<1>2. CASE call[p].op = "claim"
  BY <1>2, ClaimPlanIsGood DEF Asked, Plan
<1>3. CASE call[p].op = "progress"
  BY <1>3, ProgressPlanIsGood DEF Asked, Plan
<1>4. CASE call[p].op = "submit"
  BY <1>4, SubmitPlanIsGood DEF Asked, Plan
<1>5. CASE call[p].op \in {"start", "heartbeat", "review", "release", "expire", "cancel"}
  BY <1>5, StartPlanIsGood, HeartbeatPlanIsGood, ReviewPlanIsGood, ReleasePlanIsGood,
     ExpirePlanIsGood, CancelPlanIsGood DEF Plan
<1> QED
  BY <1>1, <1>2, <1>3, <1>4, <1>5 DEF Ops

-----------------------------------------------------------------------------
(* Replay *)

\* Replay keeps a job a job.
LEMMA ReplayedIsJob ==
    ASSUME NEW j \in Job, Numbered(j), NEW s \in Steps, s.do = "append"
    PROVE  Replay(j, s.event) \in Job /\ Numbered(Replay(j, s.event))
<1> DEFINE e == s.event
<1>0. /\ e.caller \in Callers \cup {Nobody} /\ e.token \in 0..MaxClaims
      /\ e.time \in 0..MaxTime /\ e.kind \in Kinds
      /\ e.kind = "progress" => e.value \in Hashes
      /\ e.kind = "status" => e.value \in Terminal
  BY DEF Steps, AnyStep, Carries, Event
<1>1. /\ e.time \in 0..MaxTime /\ e.time + TTL \in 0..(MaxTime + TTL)
      /\ j.status \in Active \cup Terminal /\ j.token \in 0..MaxClaims /\ j.claim \in Claim
      /\ NoClaim \in Claim
  BY <1>0, CallerWorkAssumption DEF Job, Claim, NoClaim
<1> SUFFICES Replay(j, e) \in Job /\ Numbered(Replay(j, e))
  OBVIOUS
<1> HIDE DEF e
<1>2. Renewed(j, e) \in Claim
  BY <1>1 DEF Renewed, Claim
<1>3. CASE Accepts(j, e) /\ e.kind = "claimed"
  <2>1. e.token = j.token + 1
    BY <1>3 DEF Accepts
  <2>2. e.token \in 1..MaxClaims
    BY <2>1, <1>0, <1>1, CallerWorkAssumption
  <2> DEFINE c == [NoClaim EXCEPT !.caller = e.caller, !.hb = e.time, !.exp = e.time + TTL]
  <2>3. c \in Claim
    BY <1>0, <1>1 DEF Claim
  <2>4. Replay(j, e) = [j EXCEPT !.token = e.token, !.claim = c]
    BY <1>3 DEF Replay, Effect
  <2> HIDE DEF c
  <2>5. e.token \in 0..MaxClaims
    BY <1>0
  <2>6. Replay(j, e) \in Job /\ Replay(j, e).token = e.token
    BY <1>1, <2>3, <2>4, <2>5 DEF Job
  <2> QED
    BY <2>2, <2>6 DEF Numbered
<1>4. CASE Accepts(j, e) /\ e.kind = "started"
  <2>1. j.token \in 1..MaxClaims
    BY <1>4 DEF Accepts, Of, Numbered
  <2>2. [Renewed(j, e) EXCEPT !.started = TRUE] \in Claim
    BY <1>2 DEF Claim
  <2> QED
    BY <1>1, <1>4, <2>1, <2>2 DEF Replay, Effect, Job, Numbered, Active
<1>5. CASE Accepts(j, e) /\ e.kind = "heartbeat"
  <2>1. j.token \in 1..MaxClaims
    BY <1>5 DEF Accepts, Of, Numbered
  <2> QED
    BY <1>1, <1>2, <1>5, <2>1 DEF Replay, Effect, Job, Numbered
<1>6. CASE Accepts(j, e) /\ e.kind = "progress"
  <2>1. j.token \in 1..MaxClaims
    BY <1>6 DEF Accepts, Of, Numbered
  <2>2. [Renewed(j, e) EXCEPT !.hashes = @ \cup {e.value}] \in Claim
    BY <1>0, <1>2, <1>6 DEF Claim
  <2> QED
    BY <1>1, <1>6, <2>1, <2>2 DEF Replay, Effect, Job, Numbered
<1>7. CASE Accepts(j, e) /\ e.kind = "released"
  BY <1>1, <1>7 DEF Replay, Effect, Job, Numbered
<1>8. CASE Accepts(j, e) /\ e.kind \in {"ambiguous", "review"}
  BY <1>1, <1>8 DEF Replay, Effect, Job, Numbered, Terminal
<1>9. CASE Accepts(j, e) /\ e.kind = "status"
  BY <1>0, <1>1, <1>9 DEF Replay, Effect, Job, Numbered
<1>10. Accepts(j, e) => e.kind \in {"claimed", "started", "heartbeat", "progress", "released",
                                    "ambiguous", "review", "status"}
  BY DEF Accepts
<1>11. CASE ~Accepts(j, e)
  BY <1>11 DEF Replay
<1> QED
  BY <1>3, <1>4, <1>5, <1>6, <1>7, <1>8, <1>9, <1>10, <1>11

\* An event ends the job only in the way it says.
LEMMA ReplayEnds ==
    ASSUME NEW j \in Job, NEW s \in Steps, s.do = "append",
           Replay(j, s.event).status \in Terminal
    PROVE  \/ Replay(j, s.event).status = j.status
           \/ Ending(s) /\ Replay(j, s.event).status = Ends(s)
<1> DEFINE e == s.event
<1>1. Accepts(j, e) => e.kind \in {"claimed", "started", "heartbeat", "progress", "released",
                                   "ambiguous", "review", "status"}
  BY DEF Accepts
<1>2. e.kind \in {"claimed", "heartbeat", "progress", "released"} =>
        Effect(j, e).status = j.status
  BY DEF Effect, Job
<1>3. e.kind = "started" => Effect(j, e).status \notin Terminal
  BY DEF Effect, Job, Terminal
<1>4. e.kind \in {"ambiguous", "review", "status"} =>
        Ending(s) /\ Effect(j, e).status = Ends(s)
  BY DEF Effect, Job, Ending, Ends
<1> QED
  BY <1>1, <1>2, <1>3, <1>4 DEF Replay

-----------------------------------------------------------------------------
(* Steps that are left *)

LEMMA StepsLeft ==
    ASSUME TypeInv, NEW p \in Processes, NEW do, Does(p, do)
    PROVE  /\ Head(todo[p]) \in Steps /\ Head(todo[p]) = todo[p][1] /\ Head(todo[p]).do = do
           /\ Tail(todo[p]) \in Seq(Steps) /\ Len(todo[p]) \in Nat \ {0}
  BY HeadTailProperties, LenProperties DEF TypeInv, LocalInv, Does

\* The record is created once: what is backed by a later one is backed by it.
LEMMA BackedLater ==
    ASSUME NEW q \in Seq(Steps), NEW a, NEW b, Backed(q, a), a \in {"none", b}
    PROVE  Backed(q, b)
<1>1. ASSUME NEW i \in 1..Len(q), Ending(q[i])
      PROVE  Ends(q[i]) # "none"
  <2>1. q[i] \in Steps
    BY ElementOfSeq
  <2> QED
    BY <1>1, <2>1 DEF Steps, Carries, Ending, Ends, Terminal
<1> QED
  BY <1>1 DEF Backed

LEMMA BackedTail ==
    ASSUME NEW q \in Seq(Steps), q # <<>>, NEW a, NEW b, Backed(q, a), a \in {"none", b},
           Head(q).do = "create" => Head(q).status = b
    PROVE  Backed(Tail(q), b)
<1>1. /\ Len(q) \in Nat \ {0} /\ Len(Tail(q)) = Len(q) - 1 /\ Head(q) = q[1]
      /\ \A i \in 1..Len(Tail(q)) : Tail(q)[i] = q[i + 1]
  BY HeadTailProperties, LenProperties
<1>2. ASSUME NEW i \in 1..Len(Tail(q)), Ending(Tail(q)[i])
      PROVE  Ends(Tail(q)[i]) = b \/ Creates(Tail(q), Ends(Tail(q)[i]), i)
  <2>1. i + 1 \in 1..Len(q) /\ Tail(q)[i] = q[i + 1]
    BY <1>1
  <2>2. Backed(q, b)
    BY BackedLater
  <2>3. CASE Creates(q, Ends(q[i + 1]), i + 1)
    <3>1. PICK j \in 1..Len(q) : j < i + 1 /\ q[j].do = "create" /\ q[j].status = Ends(q[i + 1])
      BY <2>3 DEF Creates
    <3>2. CASE j = 1
      BY <1>1, <2>1, <3>1, <3>2
    <3>3. CASE j # 1
      <4>1. j - 1 \in 1..Len(Tail(q)) /\ j - 1 < i /\ Tail(q)[j - 1] = q[j]
        BY <1>1, <3>1, <3>3
      <4> QED
        BY <2>1, <3>1, <4>1 DEF Creates
    <3> QED
      BY <3>2, <3>3
  <2> QED
    BY <1>2, <2>1, <2>2, <2>3 DEF Backed
<1> QED
  BY <1>2 DEF Backed

-----------------------------------------------------------------------------
(* Type correctness *)

LEMMA CallsAreAsked ==
    ASSUME TypeInv, NEW request \in Calls
    PROVE  request \in AnyCall /\ Asked(request)
<1>0. /\ \A g \in granted : g.caller \in Callers /\ g.token \in 1..MaxClaims
      /\ \A t \in 1..MaxClaims : t \in 0..MaxClaims
      /\ 0 \in 0..MaxClaims
  BY CallerWorkAssumption DEF TypeInv, TypeOK, Grant
<1>1. CASE \E c \in Callers : request = Request("claim", [caller |-> c, token |-> 0], "none")
  BY <1>0, <1>1 DEF Request, AnyCall, Asked, Ops, Values
<1>2. CASE \E o \in {"start", "heartbeat", "review", "release"}, g \in granted :
             request = Request(o, g, "none")
  BY <1>0, <1>2 DEF Request, AnyCall, Asked, Ops, Values
<1>3. CASE \E g \in granted, h \in Hashes : request = Request("progress", g, h)
  BY <1>0, <1>3 DEF Request, AnyCall, Asked, Ops, Values
<1>4. CASE \E g \in granted, v \in {"succeeded", "ambiguous"} : request = Request("submit", g, v)
  BY <1>0, <1>4 DEF Request, AnyCall, Asked, Ops, Values, Terminal
<1>5. CASE \E v \in {"succeeded", "failed"} : request = Request("submit", Anyone, v)
  BY <1>0, <1>5 DEF Request, Anyone, AnyCall, Asked, Ops, Values, Terminal
<1>6. CASE \E o \in {"expire", "cancel"} : request = Request(o, Anyone, "none")
  BY <1>0, <1>6 DEF Request, Anyone, AnyCall, Asked, Ops, Values
<1> QED
  BY <1>1, <1>2, <1>3, <1>4, <1>5, <1>6 DEF Calls

LEMMA NewJobIsJob == NewJob \in Job /\ Numbered(NewJob)
<1>1. NoClaim \in Claim
  BY CallerWorkAssumption DEF NoClaim, Claim
<1> QED
  BY <1>1, CallerWorkAssumption DEF NewJob, Job, Active, Numbered

LEMMA NoCallIsCall == NoCall \in AnyCall
  BY CallerWorkAssumption DEF NoCall, AnyCall, Values

LEMMA LeaveKeeps ==
    ASSUME TypeInv, NEW p \in Processes, Leave(p)
    PROVE  LocalInv'
<1>1. /\ owner' \in Processes \cup {Nobody}
      /\ pc' \in [Processes -> {"idle", "load", "decide", "run"}]
      /\ mine' \in [Processes -> Job] /\ \A r \in Processes : Numbered(mine[r])'
      /\ call' \in [Processes -> AnyCall]
      /\ todo' \in [Processes -> Seq(Steps)]
  BY NewJobIsJob, NoCallIsCall DEF TypeInv, LocalInv, Leave, Numbered
<1>2. ASSUME NEW r \in Processes, pc'[r] \in {"load", "decide"}
      PROVE  Asked(call'[r])
  <2>1. r # p /\ pc'[r] = pc[r] /\ call'[r] = call[r]
    BY <1>2 DEF TypeInv, LocalInv, Leave
  <2> QED
    BY <1>2, <2>1 DEF TypeInv, LocalInv
<1> QED
  BY <1>1, <1>2 DEF LocalInv

LEMMA ProceedKeeps ==
    ASSUME TypeInv, NEW p \in Processes, NEW do, Does(p, do), Proceed(p)
    PROVE  LocalInv'
<1>1. todo' \in [Processes -> Seq(Steps)]
  BY StepsLeft DEF TypeInv, LocalInv, Proceed
<1> QED
  BY <1>1 DEF TypeInv, LocalInv, Proceed, Numbered, Asked

LEMMA InitTypeInv == Init => TypeInv
<1> SUFFICES ASSUME Init PROVE TypeInv
  OBVIOUS
<1>1. /\ NewJob \in Job /\ Numbered(NewJob)
      /\ MaxTime \in Nat /\ MaxClaims \in Nat /\ MaxCrashes \in Nat /\ MaxTakeovers \in Nat
      /\ 0 \in 0..MaxTime /\ 0 \in 0..MaxCrashes /\ 0 \in 0..MaxTakeovers
  BY NewJobIsJob, CallerWorkAssumption
<1>2. LocalInv
  BY <1>1, NoCallIsCall DEF Init, LocalInv
<1>3. TypeOK
  BY <1>1 DEF Init, TypeOK
<1>4. Numbered(job)
  BY <1>1 DEF Init
<1> QED
  BY <1>2, <1>3, <1>4 DEF TypeInv

LEMMA NextTypeInv == TypeInv /\ [Next]_vars => TypeInv'
<1> SUFFICES ASSUME TypeInv, [Next]_vars PROVE TypeInv'
  OBVIOUS
<1> USE DEF events, store, local, told, faults
<1>1. ASSUME NEW p \in Processes, NEW request \in Calls, Enter(p, request)
      PROVE  TypeInv'
  <2>1. request \in AnyCall /\ Asked(request)
    BY CallsAreAsked
  <2>2. LocalInv'
    BY <1>1, <2>1 DEF TypeInv, LocalInv, Enter, Numbered, Asked
  <2> QED
    BY <1>1, <2>2 DEF TypeInv, TypeOK, LocalInv, Enter, Numbered
<1>2. ASSUME NEW p \in Processes, Load(p)
      PROVE  TypeInv'
  <2>1. job \in Job /\ Numbered(job)
    BY DEF TypeInv, TypeOK
  <2>2. LocalInv'
    BY <1>2, <2>1 DEF TypeInv, LocalInv, Load, At, Numbered, Asked
  <2> QED
    BY <1>2, <2>2 DEF TypeInv, TypeOK, LocalInv, Load, Numbered
<1>3. ASSUME NEW p \in Processes, Decide(p)
      PROVE  TypeInv'
  <2>1. Plan(p) \in Seq(Steps)
    BY <1>3, PlanIsGood DEF TypeInv, LocalInv, Decide, At, Good
  <2>2. LocalInv'
    BY <1>3, <2>1, NewJobIsJob, NoCallIsCall DEF TypeInv, LocalInv, Decide, At, Numbered, Asked
  <2> QED
    BY <1>3, <2>2 DEF TypeInv, TypeOK, LocalInv, Decide, Numbered
<1>4. ASSUME NEW p \in Processes, AppendEvent(p)
      PROVE  TypeInv'
  <2>1. LocalInv'
    BY <1>4, LeaveKeeps, ProceedKeeps DEF AppendEvent
  <2>2. CASE owner # p
    BY <1>4, <2>1, <2>2 DEF TypeInv, TypeOK, LocalInv, AppendEvent, Numbered
  <2>3. CASE owner = p
    <3> DEFINE s == Head(todo[p])
    <3>1. s \in Steps /\ s.do = "append"
      BY <1>4, StepsLeft DEF AppendEvent
    <3>2. job' \in Job /\ Numbered(job')
      BY <1>4, <2>3, <3>1, ReplayedIsJob DEF TypeInv, TypeOK, AppendEvent
    <3>3. s.event.kind = "intent" => s.event.value \in Terminal /\ s.event.token \in 1..MaxClaims
      BY <3>1 DEF Steps, Carries
    <3>4. intent' \in [1..MaxClaims -> Terminal \cup {"none"}]
      BY <1>4, <2>3, <3>3 DEF TypeInv, TypeOK, AppendEvent
    <3>5. recorded' \in BOOLEAN
      BY <1>4, <2>3 DEF TypeInv, TypeOK, AppendEvent
    <3> QED
      BY <1>4, <2>1, <3>2, <3>4, <3>5 DEF TypeInv, TypeOK, LocalInv, AppendEvent, Numbered
  <2> QED
    BY <2>2, <2>3
<1>5. ASSUME NEW p \in Processes, Look(p)
      PROVE  TypeInv'
  <2>1. LocalInv'
    BY <1>5, LeaveKeeps, ProceedKeeps DEF Look
  <2> QED
    BY <1>5, <2>1 DEF TypeInv, TypeOK, LocalInv, Look, Numbered
<1>6. ASSUME NEW p \in Processes, ReplaceFile(p)
      PROVE  TypeInv'
  <2>1. LocalInv'
    BY <1>6, ProceedKeeps DEF ReplaceFile
  <2>2. Head(todo[p]).status \in Active
    BY <1>6, StepsLeft DEF ReplaceFile, Steps, Carries
  <2> QED
    BY <1>6, <2>1, <2>2 DEF TypeInv, TypeOK, LocalInv, ReplaceFile, Numbered
<1>7. ASSUME NEW p \in Processes, CreateTerminal(p)
      PROVE  TypeInv'
  <2>1. LocalInv'
    BY <1>7, LeaveKeeps, ProceedKeeps DEF CreateTerminal
  <2>2. Head(todo[p]).status \in Terminal
    BY <1>7, StepsLeft DEF CreateTerminal, Steps, Carries
  <2> QED
    BY <1>7, <2>1, <2>2 DEF TypeInv, TypeOK, LocalInv, CreateTerminal, Numbered
<1>8. ASSUME NEW p \in Processes, CopyTerminal(p)
      PROVE  TypeInv'
  <2>1. LocalInv'
    BY <1>8, ProceedKeeps DEF CopyTerminal
  <2> QED
    BY <1>8, <2>1 DEF TypeInv, TypeOK, LocalInv, CopyTerminal, Numbered
<1>9. ASSUME NEW p \in Processes, Answer(p)
      PROVE  TypeInv'
  <2>1. LocalInv'
    BY <1>9, LeaveKeeps DEF Answer
  <2>2. Head(todo[p]) \in Steps
    BY <1>9, StepsLeft DEF Answer
  <2> DEFINE s == Head(todo[p])
  <2>3. /\ s.do = "grant" => [caller |-> s.event.caller, token |-> s.event.token] \in Grant
        /\ s.do = "began" => s.event.token \in 1..MaxClaims
        /\ s.do = "report" => s.status \in Terminal
    BY <2>2 DEF Steps, Carries, Grant
  <2> HIDE DEF s
  <2>4. granted' \subseteq Grant /\ began' \subseteq 1..MaxClaims /\ reported' \subseteq Terminal
    BY <1>9, <2>3 DEF TypeInv, TypeOK, Answer, s
  <2> QED
    BY <1>9, <2>1, <2>4 DEF TypeInv, TypeOK, LocalInv, Answer, Numbered
<1>10. ASSUME NEW p \in Processes, Return(p)
       PROVE  TypeInv'
  <2>1. LocalInv'
    BY <1>10, LeaveKeeps DEF Return
  <2> QED
    BY <1>10, <2>1 DEF TypeInv, TypeOK, LocalInv, Return, Numbered
<1>11. ASSUME NEW p \in Processes, Crash(p)
       PROVE  TypeInv'
  <2>1. LocalInv'
    BY <1>11, LeaveKeeps DEF Crash
  <2>2. crashes' \in 0..MaxCrashes
    BY <1>11, CallerWorkAssumption DEF TypeInv, TypeOK, Crash
  <2> QED
    BY <1>11, <2>1, <2>2 DEF TypeInv, TypeOK, LocalInv, Crash, Numbered
<1>12. CASE TakeOver
  <2>1. LocalInv'
    BY <1>12 DEF TypeInv, LocalInv, TakeOver, Numbered, Asked
  <2>2. takeovers' \in 0..MaxTakeovers
    BY <1>12, CallerWorkAssumption DEF TypeInv, TypeOK, TakeOver
  <2> QED
    BY <1>12, <2>1, <2>2 DEF TypeInv, TypeOK, LocalInv, TakeOver, Numbered
<1>13. CASE Tick
  <2>1. LocalInv'
    BY <1>13 DEF TypeInv, LocalInv, Tick, Numbered, Asked
  <2>2. clock' \in 0..MaxTime
    BY <1>13, CallerWorkAssumption DEF TypeInv, TypeOK, Tick
  <2> QED
    BY <1>13, <2>1, <2>2 DEF TypeInv, TypeOK, LocalInv, Tick, Numbered
<1>14. CASE UNCHANGED vars
  BY <1>14 DEF vars, TypeInv, TypeOK, LocalInv, Numbered, Asked
<1> QED
  BY <1>1, <1>2, <1>3, <1>4, <1>5, <1>6, <1>7, <1>8, <1>9, <1>10, <1>11, <1>12, <1>13, <1>14
     DEF Next, Work

\* Every variable keeps its type: what calls load, plan and leave behind is what
\* the reducer and the status files can hold.
THEOREM TypeCorrect == Spec => []TypeOK
<1>1. TypeInv => TypeOK
  BY DEF TypeInv
<1> QED
  BY <1>1, InitTypeInv, NextTypeInv, PTL DEF Spec

-----------------------------------------------------------------------------
(* The events agree with the terminal record *)

LEMMA EmptyBacked == \A a : Backed(<<>>, a)
  BY DEF Backed

LEMMA LeaveBacked ==
    ASSUME AgreeInv, NEW p \in Processes, Leave(p), UNCHANGED anchor
    PROVE  \A r \in Processes : Backed(todo'[r], anchor')
  BY EmptyBacked DEF AgreeInv, TypeInv, LocalInv, Leave

\* One process performs its first step; the record is what it was, or was missing
\* and is now what that step creates.
LEMMA ProceedBacked ==
    ASSUME AgreeInv, NEW p \in Processes, NEW do, Does(p, do), Proceed(p),
           anchor \in {"none", anchor'},
           do = "create" => anchor' = Head(todo[p]).status
    PROVE  \A r \in Processes : Backed(todo'[r], anchor')
<1>1. TypeInv /\ \A r \in Processes : todo[r] \in Seq(Steps) /\ Backed(todo[r], anchor)
  BY DEF AgreeInv, TypeInv, LocalInv
<1>2. Head(todo[p]).do = do /\ todo[p] # <<>>
  BY DEF Does
<1>3. Backed(Tail(todo[p]), anchor')
  BY <1>1, <1>2, BackedTail
<1>4. ASSUME NEW r \in Processes, r # p
      PROVE  Backed(todo[r], anchor')
  BY <1>1, BackedLater
<1>5. /\ todo'[p] = Tail(todo[p])
      /\ \A r \in Processes : r # p => todo'[r] = todo[r]
  BY DEF Proceed, AgreeInv, TypeInv, LocalInv
<1> QED
  BY <1>3, <1>4, <1>5

LEMMA NextAgrees == AgreeInv /\ [Next]_vars => AgreeInv'
<1> SUFFICES ASSUME AgreeInv, [Next]_vars PROVE AgreeInv'
  OBVIOUS
<1> USE DEF events, store, local, told, faults
<1>0. TypeInv /\ TypeInv'
  BY NextTypeInv DEF AgreeInv
<1>1. ASSUME UNCHANGED <<job, anchor>>
      PROVE  TerminalAgrees'
  BY <1>1 DEF AgreeInv, TerminalAgrees
<1>2. ASSUME UNCHANGED <<job, anchor, todo>>
      PROVE  AgreeInv'
  BY <1>0, <1>1, <1>2 DEF AgreeInv
<1>3. ASSUME NEW p \in Processes, Leave(p), UNCHANGED <<job, anchor>>
      PROVE  AgreeInv'
  BY <1>0, <1>1, <1>3, LeaveBacked DEF AgreeInv
<1>4. ASSUME NEW p \in Processes, NEW do, do # "create", Does(p, do), Proceed(p),
             UNCHANGED <<job, anchor>>
      PROVE  AgreeInv'
  BY <1>0, <1>1, <1>4, ProceedBacked DEF AgreeInv
<1>5. ASSUME NEW p \in Processes, NEW request \in Calls, Enter(p, request)
      PROVE  AgreeInv'
  BY <1>2, <1>5 DEF Enter
<1>6. ASSUME NEW p \in Processes, Load(p)
      PROVE  AgreeInv'
  BY <1>2, <1>6 DEF Load
<1>7. ASSUME NEW p \in Processes, Decide(p)
      PROVE  AgreeInv'
  <2>1. Backed(Plan(p), anchor)
    BY <1>0, <1>7, PlanIsGood DEF TypeInv, LocalInv, Decide, At, Good
  <2>2. \A r \in Processes : Backed(todo'[r], anchor')
    BY <1>7, <2>1 DEF AgreeInv, TypeInv, LocalInv, Decide
  <2> QED
    BY <1>0, <1>1, <1>7, <2>2 DEF AgreeInv, Decide
<1>8. ASSUME NEW p \in Processes, AppendEvent(p)
      PROVE  AgreeInv'
  <2>1. CASE owner # p
    BY <1>3, <1>8, <2>1 DEF AppendEvent
  <2>2. CASE owner = p
    <3> DEFINE s == Head(todo[p])
    <3>1. /\ s \in Steps /\ s.do = "append" /\ s = todo[p][1]
          /\ Len(todo[p]) \in Nat \ {0}
      BY <1>0, <1>8, StepsLeft DEF AppendEvent
    <3>2. Ending(s) => Ends(s) = anchor
      <4>1. 1 \in 1..Len(todo[p])
        BY <3>1
      <4>2. ~Creates(todo[p], Ends(s), 1)
        BY DEF Creates
      <4> QED
        BY <3>1, <4>1, <4>2 DEF AgreeInv, Backed
    <3>3. job \in Job /\ job' = Replay(job, s.event) /\ UNCHANGED anchor
      BY <1>0, <1>8, <2>2 DEF AppendEvent, TypeInv, TypeOK
    <3>4. job'.status \in Terminal => job'.status \in {job.status, anchor}
      BY <3>1, <3>2, <3>3, ReplayEnds
    <3>5. TerminalAgrees'
      BY <3>3, <3>4 DEF AgreeInv, TerminalAgrees
    <3>6. \A r \in Processes : Backed(todo'[r], anchor')
      BY <1>8, <2>2, <3>3, ProceedBacked DEF AppendEvent
    <3> QED
      BY <1>0, <3>5, <3>6 DEF AgreeInv
  <2> QED
    BY <2>1, <2>2
<1>9. ASSUME NEW p \in Processes, Look(p)
      PROVE  AgreeInv'
  BY <1>3, <1>4, <1>9 DEF Look
<1>10. ASSUME NEW p \in Processes, ReplaceFile(p)
       PROVE  AgreeInv'
  BY <1>4, <1>10 DEF ReplaceFile
<1>11. ASSUME NEW p \in Processes, CreateTerminal(p)
       PROVE  AgreeInv'
  <2>1. CASE anchor # "none"
    BY <1>3, <1>11, <2>1 DEF CreateTerminal
  <2>2. CASE anchor = "none"
    <3>1. \A r \in Processes : Backed(todo'[r], anchor')
      BY <1>11, <2>2, ProceedBacked DEF CreateTerminal
    <3>2. TerminalAgrees'
      BY <1>11, <2>2 DEF CreateTerminal, AgreeInv, TerminalAgrees, Terminal
    <3> QED
      BY <1>0, <3>1, <3>2 DEF AgreeInv
  <2> QED
    BY <2>1, <2>2
<1>12. ASSUME NEW p \in Processes, CopyTerminal(p)
       PROVE  AgreeInv'
  BY <1>4, <1>12 DEF CopyTerminal
<1>13. ASSUME NEW p \in Processes, Answer(p)
       PROVE  AgreeInv'
  BY <1>3, <1>13 DEF Answer
<1>14. ASSUME NEW p \in Processes, Return(p)
       PROVE  AgreeInv'
  BY <1>3, <1>14 DEF Return
<1>15. ASSUME NEW p \in Processes, Crash(p)
       PROVE  AgreeInv'
  BY <1>3, <1>15 DEF Crash
<1>16. CASE TakeOver
  BY <1>2, <1>16 DEF TakeOver
<1>17. CASE Tick
  BY <1>2, <1>17 DEF Tick
<1>18. CASE UNCHANGED vars
  BY <1>2, <1>18 DEF vars
<1> QED
  BY <1>5, <1>6, <1>7, <1>8, <1>9, <1>10, <1>11, <1>12, <1>13, <1>14, <1>15, <1>16, <1>17, <1>18
     DEF Next, Work

\* However calls of several processes interleave, crash or are taken over, the
\* events never end the job in a way its terminal record does not: every path that
\* appends such an event has created the record, or found it, first.
THEOREM Agreement == Spec => []TerminalAgrees
<1>1. Init => AgreeInv
  <2> SUFFICES ASSUME Init PROVE AgreeInv
    OBVIOUS
  <2>1. TerminalAgrees
    BY DEF Init, NewJob, TerminalAgrees, Terminal
  <2>2. \A p \in Processes : Backed(todo[p], anchor)
    BY EmptyBacked DEF Init
  <2> QED
    BY <2>1, <2>2, InitTypeInv DEF AgreeInv
<1>2. AgreeInv => TerminalAgrees
  BY DEF AgreeInv
<1> QED
  BY <1>1, <1>2, NextAgrees, PTL DEF Spec

-----------------------------------------------------------------------------
(* What a call has promised, and what its plan still needs *)

NoAppend(q, i) == \A k \in 1..Len(q) : k < i => q[k].do # "append"

\* The k-th step is the last append before the i-th.
LastAppend(q, k, i) ==
    /\ k < i /\ q[k].do = "append"
    /\ \A l \in 1..Len(q) : k < l /\ l < i => q[l].do # "append"

\* A step changes the job, unless replay ignores its event.
Changes(s) == s.do = "append" /\ s.event.kind \notin {"intent", "submitted"}
FirstChange(q, i) == Changes(q[i]) /\ \A k \in 1..Len(q) : k < i => ~Changes(q[k])

\* What an append establishes for the answer or the record that follows it.
Establishes(s, t) ==
    /\ t.do = "grant" => /\ s.event.kind = "claimed" /\ s.event.caller = t.event.caller
                         /\ s.event.token = t.event.token
    /\ t.do = "began" => s.event.kind = "started" /\ s.event.token = t.event.token
    /\ t.do = "report" => s.event.kind = "status" /\ s.event.value = t.status
    /\ mode = "work" /\ t.do = "create" /\ t.status = "succeeded" =>
         s.event.kind = "intent" /\ s.event.value = "succeeded"

\* The order of the steps, whoever owns the run.
Ordered(q) ==
    /\ \A i \in 1..Len(q) : q[i].do = "replace" => i + 1 \in 1..Len(q) /\ q[i + 1].do = "recheck"
    /\ \A i \in 1..Len(q) : q[i].do = "create" => i + 1 \in 1..Len(q) /\ q[i + 1].do = "copy"
    /\ \A i \in 1..Len(q) : q[i].do = "append" /\ q[i].event.kind = "intent" => i = 1
    /\ \A i, k \in 1..Len(q) : LastAppend(q, k, i) => Establishes(q[k], q[i])

Started(token) == job.claim.started /\ job.token = token
Announced == job.claim.started /\ intent[job.token] = "succeeded"

\* What a step relies on once no append comes before it, whoever owns the run.
Relies(s) ==
    /\ s.do = "began" => Started(s.event.token)
    /\ s.do = "report" => job.status = s.status
    /\ mode = "work" /\ s.do = "create" /\ s.status = "succeeded" => Announced
Kept(q) == \A i \in 1..Len(q) : NoAppend(q, i) => Relies(q[i])

\* What the owner appends is what replay accepts; a second change claims what the
\* first one released, and an intent is the first for its claim.
Fits(q, j) ==
    /\ \A i \in 1..Len(q) : FirstChange(q, i) => Accepts(j, q[i].event)
    /\ \A i, k \in 1..Len(q) : k < i /\ Changes(q[k]) /\ Changes(q[i]) =>
         /\ q[k].event.kind = "released" /\ q[i].event.kind = "claimed"
         /\ q[i].event.token = q[k].event.token + 1
    /\ \A i \in 1..Len(q) : q[i].do = "append" /\ q[i].event.kind = "intent" =>
         /\ j.claim.started /\ q[i].event.token = j.token
         /\ intent[j.token] \in {"none", q[i].event.value}

\* An unstarted claim is pending, a running job was started.
Phased(j) ==
    /\ j.claim.started => j.status # "pending"
    /\ j.status = "running" => j.claim.started

\* The callers that a token names: in an answer given or promised, in a job a call
\* has loaded, in the job.
Names(c, t) ==
    \/ \E g \in granted : g.caller = c /\ g.token = t
    \/ \E p \in Processes : \E i \in 1..Len(todo[p]) :
         /\ NoAppend(todo[p], i) /\ todo[p][i].do = "grant"
         /\ todo[p][i].event.caller = c /\ todo[p][i].event.token = t
    \/ \E p \in Processes : At(p, "decide") /\ Held(p)
                            /\ mine[p].claim.caller = c /\ mine[p].token = t
    \/ job.claim # NoClaim /\ job.claim.caller = c /\ job.token = t

\* A grant that needs no further append names the caller of its token.
NamesIt(s) == s.do = "grant" => Names(s.event.caller, s.event.token)

NamesInv ==
    /\ \A c, t : Names(c, t) => t \in 0..job.token
    /\ \A c, d, t : Names(c, t) /\ Names(d, t) => c = d

\* Who may do what with the job it has loaded.
LoadedInv ==
    \A p \in Processes :
        /\ owner = p => pc[p] # "idle"
        /\ pc[p] # "run" => todo[p] = <<>>
        /\ pc[p] = "decide" /\ owner = p => mine[p] = job
        /\ pc[p] = "decide" => Phased(mine[p])
        /\ pc[p] = "decide" /\ mine[p].claim.started => Started(mine[p].token)

PlansInv ==
    \A p \in Processes :
        /\ Ordered(todo[p]) /\ Kept(todo[p])
        /\ owner = p => Fits(todo[p], job)

ToldInv ==
    /\ \A t \in began : Started(t)
    /\ \A s \in reported : s = job.status

\* A process is about to put the terminal record into the file.
Mends(p) == todo[p] # <<>> /\ Head(todo[p]).do \in {"copy", "recheck"}
FileInv == crashes = 0 /\ anchor # "none" => file = anchor \/ \E p \in Processes : Mends(p)

-----------------------------------------------------------------------------
(* The plans keep these promises *)

\* A sequence that the process which loaded j may plan.
Sound(q, j) ==
    /\ Ordered(q) /\ Fits(q, j)
    /\ \A i \in 1..Len(q) : NoAppend(q, i) => Relies(q[i]) /\ NamesIt(q[i])

IsUpdate(b, c, d) == b.do = "check" /\ c.do = "replace" /\ d.do = "recheck"

LEMMA SoundEmpty == ASSUME NEW j PROVE Sound(<<>>, j)
  BY DEF Sound, Ordered, Fits

\* An event that replay takes, and the update of the status file.
LEMMA SoundUpdate ==
    ASSUME NEW j, NEW a, NEW b, NEW c, NEW d,
           Changes(a), Accepts(j, a.event), IsUpdate(b, c, d)
    PROVE  Sound(<<a, b, c, d>>, j)
<1> DEFINE q == <<a, b, c, d>>
<1>1. Len(q) = 4 /\ q[1] = a /\ q[2] = b /\ q[3] = c /\ q[4] = d
  OBVIOUS
<1> HIDE DEF q
<1>2. \A i \in 1..4 : i = 1 \/ i = 2 \/ i = 3 \/ i = 4
  OBVIOUS
<1>3. Ordered(q)
  BY <1>1, <1>2 DEF Ordered, LastAppend, Establishes, IsUpdate, Changes
<1>4. Fits(q, j)
  BY <1>1, <1>2 DEF Fits, FirstChange, IsUpdate, Changes
<1>5. \A i \in 1..Len(q) : NoAppend(q, i) => Relies(q[i]) /\ NamesIt(q[i])
  BY <1>1, <1>2 DEF Relies, NamesIt, IsUpdate, Changes
<1> QED
  BY <1>3, <1>4, <1>5 DEF Sound, q

\* ... and the answer that the event establishes.
LEMMA SoundAnswer ==
    ASSUME NEW j, NEW a, NEW b, NEW c, NEW d, NEW e,
           Changes(a), Accepts(j, a.event), IsUpdate(b, c, d),
           e.do \in {"grant", "began"}, Establishes(a, e)
    PROVE  Sound(<<a, b, c, d, e>>, j)
<1> DEFINE q == <<a, b, c, d, e>>
<1>1. Len(q) = 5 /\ q[1] = a /\ q[2] = b /\ q[3] = c /\ q[4] = d /\ q[5] = e
  OBVIOUS
<1> HIDE DEF q
<1>2. \A i \in 1..5 : i = 1 \/ i = 2 \/ i = 3 \/ i = 4 \/ i = 5
  OBVIOUS
<1>3. Ordered(q)
  BY <1>1, <1>2 DEF Ordered, LastAppend, Establishes, IsUpdate, Changes
<1>4. Fits(q, j)
  BY <1>1, <1>2 DEF Fits, FirstChange, IsUpdate, Changes
<1>5. \A i \in 1..Len(q) : NoAppend(q, i) => Relies(q[i]) /\ NamesIt(q[i])
  BY <1>1, <1>2 DEF NoAppend, Relies, NamesIt, IsUpdate, Changes
<1> QED
  BY <1>3, <1>4, <1>5 DEF Sound, q

\* An expired claim is released, and the job claimed again.
LEMMA SoundReclaim ==
    ASSUME NEW j, NEW a, NEW b, NEW c, NEW d, NEW e, NEW f, NEW g, NEW h, NEW k,
           Changes(a), Accepts(j, a.event), IsUpdate(b, c, d),
           Changes(e), IsUpdate(f, g, h), a.event.kind = "released",
           e.event.kind = "claimed", e.event.token = a.event.token + 1,
           k.do = "grant", Establishes(e, k)
    PROVE  Sound(<<a, b, c, d, e, f, g, h, k>>, j)
<1> DEFINE q == <<a, b, c, d, e, f, g, h, k>>
<1>1. /\ Len(q) = 9 /\ q[1] = a /\ q[2] = b /\ q[3] = c /\ q[4] = d /\ q[5] = e
      /\ q[6] = f /\ q[7] = g /\ q[8] = h /\ q[9] = k
  OBVIOUS
<1> HIDE DEF q
<1>2. \A i \in 1..9 : i \in {1, 2, 3, 4, 5, 6, 7, 8, 9}
  OBVIOUS
<1>3. Ordered(q)
  BY <1>1, <1>2 DEF Ordered, LastAppend, Establishes, IsUpdate, Changes
<1>4. Fits(q, j)
  BY <1>1, <1>2 DEF Fits, FirstChange, IsUpdate, Changes
<1>5. \A i \in 1..Len(q) : NoAppend(q, i) => Relies(q[i]) /\ NamesIt(q[i])
  BY <1>1, <1>2 DEF NoAppend, Relies, NamesIt, IsUpdate, Changes
<1> QED
  BY <1>3, <1>4, <1>5 DEF Sound, q

\* An answer that needs no event.
LEMMA SoundAlone ==
    ASSUME NEW j, NEW s, s.do \in {"grant", "began"}, Relies(s), NamesIt(s)
    PROVE  Sound(<<s>>, j)
<1> DEFINE q == <<s>>
<1>1. Len(q) = 1 /\ q[1] = s
  OBVIOUS
<1> HIDE DEF q
<1>2. Ordered(q) /\ Fits(q, j)
  BY <1>1 DEF Ordered, LastAppend, Fits, FirstChange, Changes
<1> QED
  BY <1>1, <1>2 DEF Sound, q

LEMMA SoundEvent ==
    ASSUME NEW j, NEW a, Changes(a), Accepts(j, a.event)
    PROVE  Sound(<<a>>, j)
<1> DEFINE q == <<a>>
<1>1. Len(q) = 1 /\ q[1] = a
  OBVIOUS
<1> HIDE DEF q
<1>2. Ordered(q) /\ Fits(q, j)
  BY <1>1 DEF Ordered, LastAppend, Fits, FirstChange, Changes
<1> QED
  BY <1>1, <1>2 DEF Sound, q, Changes, Relies, NamesIt

\* The terminal record, then the event that ends the job.
LEMMA SoundSettle ==
    ASSUME NEW j, NEW a, NEW b, a.do = "create", b.do = "copy", Relies(a)
    PROVE  /\ Sound(<<a, b>>, j)
           /\ \A c : Changes(c) /\ Accepts(j, c.event) => Sound(<<a, b, c>>, j)
<1>1. Sound(<<a, b>>, j)
  <2> DEFINE q == <<a, b>>
  <2>1. Len(q) = 2 /\ q[1] = a /\ q[2] = b
    OBVIOUS
  <2> HIDE DEF q
  <2>2. \A i \in 1..2 : i = 1 \/ i = 2
    OBVIOUS
  <2>3. Ordered(q) /\ Fits(q, j)
    BY <2>1, <2>2 DEF Ordered, LastAppend, Fits, FirstChange, Changes
  <2> QED
    BY <2>1, <2>2, <2>3 DEF Sound, q, Relies, NamesIt
<1>2. ASSUME NEW c, Changes(c), Accepts(j, c.event)
      PROVE  Sound(<<a, b, c>>, j)
  <2> DEFINE q == <<a, b, c>>
  <2>1. Len(q) = 3 /\ q[1] = a /\ q[2] = b /\ q[3] = c
    OBVIOUS
  <2> HIDE DEF q
  <2>2. \A i \in 1..3 : i = 1 \/ i = 2 \/ i = 3
    OBVIOUS
  <2>3. Ordered(q)
    BY <1>2, <2>1, <2>2 DEF Ordered, LastAppend, Establishes, Changes
  <2>4. Fits(q, j)
    BY <1>2, <2>1, <2>2 DEF Fits, FirstChange, Changes
  <2>5. \A i \in 1..Len(q) : Relies(q[i]) /\ NamesIt(q[i])
    BY <1>2, <2>1, <2>2 DEF Relies, NamesIt, Changes
  <2> QED
    BY <2>3, <2>4, <2>5 DEF Sound, q
<1> QED
  BY <1>1, <1>2

\* What a submission may be: the record is announced first or was announced
\* before, and the last event is the one that the report relies on.
Submission(q, j) ==
    /\ \A i \in 1..Len(q) :
         \/ /\ i = 1 /\ q[i].do = "append" /\ q[i].event.kind = "intent"
            /\ j.claim.started /\ q[i].event.token = j.token
            /\ intent[j.token] \in {"none", q[i].event.value}
         \/ /\ q[i].do = "create"
            /\ i + 1 \in 1..Len(q) /\ q[i + 1].do = "copy"
            /\ i = 1 => Relies(q[i])
            /\ i # 1 => i = 2 /\ Establishes(q[1], q[2]) /\ q[1].do = "append"
         \/ q[i].do = "copy"
         \/ q[i].do = "append" /\ q[i].event.kind = "submitted"
         \/ /\ i = Len(q) - 1 /\ q[i].do = "append" /\ q[i].event.kind = "status"
            /\ Accepts(j, q[i].event)
         \/ /\ i = Len(q) /\ q[i].do = "report" /\ i - 1 \in 1..Len(q)
            /\ q[i - 1].do = "append" /\ Establishes(q[i - 1], q[i])

LEMMA SoundSubmission ==
    ASSUME NEW j, NEW q, Len(q) \in Nat, Submission(q, j)
    PROVE  Sound(q, j)
<1>0. Len(q) \in Nat
  OBVIOUS
<1>1. Ordered(q)
  <2>1. ASSUME NEW i \in 1..Len(q), q[i].do = "replace"
        PROVE  FALSE
    BY <2>1 DEF Submission
  <2>2. ASSUME NEW i \in 1..Len(q), q[i].do = "create"
        PROVE  i + 1 \in 1..Len(q) /\ q[i + 1].do = "copy"
    BY <2>2 DEF Submission
  <2>3. ASSUME NEW i \in 1..Len(q), q[i].do = "append", q[i].event.kind = "intent"
        PROVE  i = 1
    BY <2>3 DEF Submission
  <2>4. ASSUME NEW i \in 1..Len(q), NEW k \in 1..Len(q), LastAppend(q, k, i)
        PROVE  Establishes(q[k], q[i])
    <3>1. CASE q[i].do = "report"
      <4>1. i - 1 \in 1..Len(q) /\ q[i - 1].do = "append" /\ Establishes(q[i - 1], q[i])
        BY <3>1 DEF Submission
      <4>2. k = i - 1
        BY <1>0, <2>4, <4>1 DEF LastAppend
      <4> QED
        BY <4>1, <4>2
    <3>2. CASE q[i].do = "create"
      <4>1. i # 1 => i = 2 /\ Establishes(q[1], q[2])
        BY <3>2 DEF Submission
      <4>2. k < i /\ k \in Nat \ {0} /\ i \in Nat
        BY <1>0, <2>4 DEF LastAppend
      <4>3. i = 2 /\ k = 1
        BY <4>1, <4>2
      <4> QED
        BY <4>1, <4>3
    <3>3. CASE q[i].do \in {"copy", "append"}
      BY <3>3 DEF Establishes
    <3> QED
      BY <3>1, <3>2, <3>3 DEF Submission
  <2> QED
    BY <2>1, <2>2, <2>3, <2>4 DEF Ordered
<1>2. \A i \in 1..Len(q) : Changes(q[i]) => i = Len(q) - 1 /\ Accepts(j, q[i].event)
  BY DEF Submission, Changes
<1>3. ASSUME NEW i \in 1..Len(q), q[i].do = "append", q[i].event.kind = "intent"
      PROVE  /\ j.claim.started /\ q[i].event.token = j.token
             /\ intent[j.token] \in {"none", q[i].event.value}
  BY <1>3 DEF Submission
<1>4. Fits(q, j)
  BY <1>0, <1>2, <1>3 DEF Fits, FirstChange
<1>5. ASSUME NEW i \in 1..Len(q), NoAppend(q, i)
      PROVE  Relies(q[i]) /\ NamesIt(q[i])
  <2>1. q[i].do # "grant" /\ q[i].do # "began"
    BY DEF Submission
  <2>2. q[i].do # "report"
    <3>1. SUFFICES ASSUME q[i].do = "report" PROVE FALSE
      OBVIOUS
    <3>2. i - 1 \in 1..Len(q) /\ q[i - 1].do = "append" /\ i - 1 < i
      BY <1>0, <3>1 DEF Submission
    <3> QED
      BY <1>5, <3>2 DEF NoAppend
  <2>3. q[i].do = "create" => Relies(q[i])
    <3>1. SUFFICES ASSUME q[i].do = "create", i # 1 PROVE FALSE
      BY DEF Submission
    <3>2. i = 2 /\ q[1].do = "append" /\ 1 \in 1..Len(q)
      BY <1>0, <3>1 DEF Submission
    <3> QED
      BY <1>5, <3>2 DEF NoAppend
  <2> QED
    BY <2>1, <2>2, <2>3 DEF Relies, NamesIt
<1> QED
  BY <1>1, <1>4, <1>5 DEF Sound

-----------------------------------------------------------------------------
(* Every plan is sound *)

LEMMA Joined ==
    ASSUME NEW T, NEW s \in Seq(T), NEW t \in Seq(T), NEW u \in Seq(T),
           Len(u) = Len(s) + Len(t),
           \A i \in 1..Len(u) : u[i] = IF i <= Len(s) THEN s[i] ELSE t[i - Len(s)]
    PROVE  s \o t = u
<1>1. s \o t \in Seq(T) /\ Len(s \o t) = Len(u) /\ Len(s) \in Nat /\ Len(t) \in Nat
  BY ConcatProperties, LenProperties
<1>2. \A i \in 1..Len(u) : (s \o t)[i] = u[i]
  BY <1>1, ConcatProperties
<1> QED
  BY <1>1, <1>2, SeqEqual

LEMMA JoinTwo ==
    ASSUME NEW a, NEW b
    PROVE  <<a>> \o <<b>> = <<a, b>>
<1> DEFINE T == {a, b}
<1>1. a \in T /\ b \in T
  OBVIOUS
<1> HIDE DEF T
<1>2. <<a>> \in Seq(T) /\ <<b>> \in Seq(T) /\ <<a, b>> \in Seq(T)
  BY <1>1
<1>3. Len(<<a, b>>) = Len(<<a>>) + Len(<<b>>)
  OBVIOUS
<1>4. \A i \in 1..Len(<<a, b>>) :
        <<a, b>>[i] = IF i <= Len(<<a>>) THEN <<a>>[i] ELSE <<b>>[i - Len(<<a>>)]
  OBVIOUS
<1> QED
  BY <1>2, <1>3, <1>4, Joined

LEMMA JoinThree ==
    ASSUME NEW a, NEW b, NEW c
    PROVE  <<a, b>> \o <<c>> = <<a, b, c>>
<1> DEFINE T == {a, b, c}
<1>1. a \in T /\ b \in T /\ c \in T
  OBVIOUS
<1> HIDE DEF T
<1>2. <<a, b>> \in Seq(T) /\ <<c>> \in Seq(T) /\ <<a, b, c>> \in Seq(T)
  BY <1>1
<1>3. Len(<<a, b, c>>) = Len(<<a, b>>) + Len(<<c>>)
  OBVIOUS
<1>4. \A i \in 1..Len(<<a, b, c>>) :
        <<a, b, c>>[i] = IF i <= Len(<<a, b>>) THEN <<a, b>>[i] ELSE <<c>>[i - Len(<<a, b>>)]
  OBVIOUS
<1> QED
  BY <1>2, <1>3, <1>4, Joined

LEMMA JoinOneTwo ==
    ASSUME NEW a, NEW b, NEW c
    PROVE  <<a>> \o <<b, c>> = <<a, b, c>>
<1> DEFINE T == {a, b, c}
<1>1. a \in T /\ b \in T /\ c \in T
  OBVIOUS
<1> HIDE DEF T
<1>2. <<a>> \in Seq(T) /\ <<b, c>> \in Seq(T) /\ <<a, b, c>> \in Seq(T)
  BY <1>1
<1>3. Len(<<a, b, c>>) = Len(<<a>>) + Len(<<b, c>>)
  OBVIOUS
<1>4. \A i \in 1..Len(<<a, b, c>>) :
        <<a, b, c>>[i] = IF i <= Len(<<a>>) THEN <<a>>[i] ELSE <<b, c>>[i - Len(<<a>>)]
  OBVIOUS
<1> QED
  BY <1>2, <1>3, <1>4, Joined

LEMMA JoinFour ==
    ASSUME NEW a, NEW b, NEW c, NEW d
    PROVE  <<a>> \o <<b, c, d>> = <<a, b, c, d>>
<1> DEFINE T == {a, b, c, d}
<1>1. a \in T /\ b \in T /\ c \in T /\ d \in T
  OBVIOUS
<1> HIDE DEF T
<1>2. <<a>> \in Seq(T) /\ <<b, c, d>> \in Seq(T) /\ <<a, b, c, d>> \in Seq(T)
  BY <1>1
<1>3. Len(<<a, b, c, d>>) = Len(<<a>>) + Len(<<b, c, d>>)
  OBVIOUS
<1>4. \A i \in 1..Len(<<a, b, c, d>>) :
        <<a, b, c, d>>[i] = IF i <= Len(<<a>>) THEN <<a>>[i] ELSE <<b, c, d>>[i - Len(<<a>>)]
  OBVIOUS
<1> QED
  BY <1>2, <1>3, <1>4, Joined

LEMMA JoinFourLast ==
    ASSUME NEW a, NEW b, NEW c, NEW d
    PROVE  <<a, b, c>> \o <<d>> = <<a, b, c, d>>
<1> DEFINE T == {a, b, c, d}
<1>1. a \in T /\ b \in T /\ c \in T /\ d \in T
  OBVIOUS
<1> HIDE DEF T
<1>2. <<a, b, c>> \in Seq(T) /\ <<d>> \in Seq(T) /\ <<a, b, c, d>> \in Seq(T)
  BY <1>1
<1>3. Len(<<a, b, c, d>>) = Len(<<a, b, c>>) + Len(<<d>>)
  OBVIOUS
<1>4. \A i \in 1..Len(<<a, b, c, d>>) :
        <<a, b, c, d>>[i]
          = IF i <= Len(<<a, b, c>>) THEN <<a, b, c>>[i]
            ELSE <<d>>[i - Len(<<a, b, c>>)]
  OBVIOUS
<1> QED
  BY <1>2, <1>3, <1>4, Joined

LEMMA JoinFive ==
    ASSUME NEW a, NEW b, NEW c, NEW d, NEW e
    PROVE  <<a, b, c, d>> \o <<e>> = <<a, b, c, d, e>>
<1> DEFINE T == {a, b, c, d, e}
<1>1. a \in T /\ b \in T /\ c \in T /\ d \in T /\ e \in T
  OBVIOUS
<1> HIDE DEF T
<1>2. <<a, b, c, d>> \in Seq(T) /\ <<e>> \in Seq(T) /\ <<a, b, c, d, e>> \in Seq(T)
  BY <1>1
<1>3. Len(<<a, b, c, d, e>>) = Len(<<a, b, c, d>>) + Len(<<e>>)
  OBVIOUS
<1>4. \A i \in 1..Len(<<a, b, c, d, e>>) :
        <<a, b, c, d, e>>[i]
          = IF i <= Len(<<a, b, c, d>>) THEN <<a, b, c, d>>[i]
            ELSE <<e>>[i - Len(<<a, b, c, d>>)]
  OBVIOUS
<1> QED
  BY <1>2, <1>3, <1>4, Joined

LEMMA JoinSix ==
    ASSUME NEW a, NEW b, NEW c, NEW d, NEW e, NEW f
    PROVE  <<a, b, c, d, e>> \o <<f>> = <<a, b, c, d, e, f>>
<1> DEFINE T == {a, b, c, d, e, f}
<1>1. a \in T /\ b \in T /\ c \in T /\ d \in T /\ e \in T /\ f \in T
  OBVIOUS
<1> HIDE DEF T
<1>2. <<a, b, c, d, e>> \in Seq(T) /\ <<f>> \in Seq(T) /\ <<a, b, c, d, e, f>> \in Seq(T)
  BY <1>1
<1>3. Len(<<a, b, c, d, e, f>>) = Len(<<a, b, c, d, e>>) + Len(<<f>>)
  OBVIOUS
<1>4. \A i \in 1..Len(<<a, b, c, d, e, f>>) :
        <<a, b, c, d, e, f>>[i]
          = IF i <= Len(<<a, b, c, d, e>>) THEN <<a, b, c, d, e>>[i]
            ELSE <<f>>[i - Len(<<a, b, c, d, e>>)]
  OBVIOUS
<1> QED
  BY <1>2, <1>3, <1>4, Joined

LEMMA JoinNine ==
    ASSUME NEW a, NEW b, NEW c, NEW d, NEW e, NEW f, NEW g, NEW h, NEW k
    PROVE  <<a, b, c, d>> \o <<e, f, g, h, k>> = <<a, b, c, d, e, f, g, h, k>>
<1> DEFINE T == {a, b, c, d, e, f, g, h, k}
<1>1. /\ a \in T /\ b \in T /\ c \in T /\ d \in T /\ e \in T
      /\ f \in T /\ g \in T /\ h \in T /\ k \in T
  OBVIOUS
<1> HIDE DEF T
<1>2. /\ <<a, b, c, d>> \in Seq(T)
      /\ <<e, f, g, h, k>> \in Seq(T)
      /\ <<a, b, c, d, e, f, g, h, k>> \in Seq(T)
  BY <1>1
<1>3. Len(<<a, b, c, d, e, f, g, h, k>>) = Len(<<a, b, c, d>>) + Len(<<e, f, g, h, k>>)
  OBVIOUS
<1>4. \A i \in 1..Len(<<a, b, c, d, e, f, g, h, k>>) :
        <<a, b, c, d, e, f, g, h, k>>[i]
          = IF i <= Len(<<a, b, c, d>>) THEN <<a, b, c, d>>[i]
            ELSE <<e, f, g, h, k>>[i - Len(<<a, b, c, d>>)]
  OBVIOUS
<1> QED
  BY <1>2, <1>3, <1>4, Joined

LEMMA JoinAnswer ==
    ASSUME NEW a, NEW b, NEW c, NEW d, NEW e
    PROVE  <<a>> \o <<b, c, d>> \o <<e>> = <<a, b, c, d, e>>
<1>1. <<a>> \o <<b, c, d>> = <<a, b, c, d>>
  BY JoinFour
<1>2. <<a, b, c, d>> \o <<e>> = <<a, b, c, d, e>>
  BY JoinFive
<1> QED
  BY <1>1, <1>2

\* An event about the loaded claim, as a step.
Entry(p, kind, value) ==
    [do |-> "append", status |-> "none",
     event |-> [kind |-> kind, caller |-> mine[p].claim.caller, token |-> mine[p].token,
                time |-> Now(p), value |-> value]]

LEMMA NoteIsEntry == \A p, kind, value : Note(p, kind, value) = <<Entry(p, kind, value)>>
  BY DEF Note, Log, Carry, Fact, Entry

LEMMA UpdateIsUpdate ==
    \A status : IsUpdate(Step("check", status), Step("replace", status), Step("recheck", status))
  BY DEF IsUpdate, Step

LEMMA NotedUpdate ==
    ASSUME NEW p \in Processes, NEW kind \in Kinds \ {"intent", "submitted"}, NEW value, NEW status,
           Accepts(mine[p], Entry(p, kind, value).event)
    PROVE  Sound(Note(p, kind, value) \o Update(status), mine[p])
<1> DEFINE a == Entry(p, kind, value)
           b == Step("check", status)
           c == Step("replace", status)
           d == Step("recheck", status)
<1>1. Changes(a)
  BY DEF Entry, Changes
<1>2. Accepts(mine[p], a.event) /\ IsUpdate(b, c, d)
  BY UpdateIsUpdate
<1>3. Note(p, kind, value) = <<a>> /\ Update(status) = <<b, c, d>>
  BY NoteIsEntry DEF Update
<1> HIDE DEF a, b, c, d
<1>4. Note(p, kind, value) \o Update(status) = <<a, b, c, d>>
  BY <1>3, JoinFour
<1> QED
  BY <1>1, <1>2, <1>4, SoundUpdate

LEMMA SoundReleasing ==
    ASSUME NEW p \in Processes, Phased(mine[p]), Held(p), IsActive(p), ~mine[p].claim.started
    PROVE  Accepts(mine[p], Entry(p, "released", "none").event) /\ Sound(Releasing(p), mine[p])
<1>1. mine[p].status = "pending"
  BY DEF Phased, IsActive, Active
<1>2. Accepts(mine[p], Entry(p, "released", "none").event)
  BY <1>1 DEF Entry, Accepts, Of, Held
<1> QED
  BY <1>2, NotedUpdate DEF Releasing, Kinds

LEMMA SoundAmbiguous ==
    ASSUME TypeInv, NEW p \in Processes, Phased(mine[p]), IsActive(p), mine[p].claim.started
    PROVE  Sound(Ambiguous(p), mine[p])
<1>1. Held(p) /\ mine[p].status = "running"
  BY DEF Phased, IsActive, Active, Held, NoClaim
<1>2. Sound(Note(p, "status", anchor), mine[p])
  <2>1. Changes(Entry(p, "status", anchor)) /\ Accepts(mine[p], Entry(p, "status", anchor).event)
    BY DEF Changes, Entry, Accepts, IsActive
  <2> QED
    BY <2>1, NoteIsEntry, SoundEvent
<1>3. Sound(Settle("ambiguous") \o Note(p, "ambiguous", "none"), mine[p])
  <2> DEFINE a == Step("create", "ambiguous")
             b == Step("copy", "ambiguous")
             c == Entry(p, "ambiguous", "none")
  <2>1. a.do = "create" /\ b.do = "copy" /\ Relies(a)
    BY DEF Step, Relies
  <2>2. Changes(c) /\ Accepts(mine[p], c.event)
    BY <1>1 DEF Changes, Entry, Accepts, Of, Held
  <2>3. Settle("ambiguous") = <<a, b>> /\ Note(p, "ambiguous", "none") = <<c>>
    BY NoteIsEntry DEF Settle
  <2> HIDE DEF a, b, c
  <2>4. Settle("ambiguous") \o Note(p, "ambiguous", "none") = <<a, b, c>>
    BY <2>3, JoinThree
  <2> QED
    BY <2>1, <2>2, <2>4, SoundSettle
<1> QED
  BY <1>2, <1>3, SoundEmpty DEF Ambiguous

LEMMA SoundLapse ==
    ASSUME TypeInv, NEW p \in Processes, Phased(mine[p]), IsActive(p), Held(p)
    PROVE  Sound(Lapse(p), mine[p])
  BY SoundEmpty, SoundAmbiguous, SoundReleasing DEF Lapse

\* What a call that decides may rely on.
Ready(p) ==
    /\ TypeInv /\ Phased(mine[p]) /\ At(p, "decide")
    /\ mine[p].claim.started => Started(mine[p].token)

GrantStep(caller, token) ==
    [do |-> "grant", status |-> "none",
     event |-> [kind |-> "none", caller |-> caller, token |-> token, time |-> 0, value |-> "none"]]
BeganStep(token) ==
    [do |-> "began", status |-> "none",
     event |-> [kind |-> "none", caller |-> Nobody, token |-> token, time |-> 0, value |-> "none"]]

LEMMA AnswerSteps ==
    /\ \A caller, token : Told(caller, token) = <<GrantStep(caller, token)>>
    /\ \A token : Begun(token) = <<BeganStep(token)>>
  BY DEF Told, Begun, Carry, Fact, GrantStep, BeganStep

LEMMA SoundClaimPlan ==
    ASSUME NEW p \in Processes, Ready(p)
    PROVE  Sound(ClaimPlan(p), mine[p])
<1> DEFINE token == NextToken(mine[p])
           a == [do |-> "append", status |-> "none",
                 event |-> [kind |-> "claimed", caller |-> call[p].caller, token |-> token,
                            time |-> Now(p), value |-> "none"]]
           b == Step("check", "pending")
           c == Step("replace", "pending")
           d == Step("recheck", "pending")
           e == GrantStep(call[p].caller, token)
           r == Entry(p, "released", "none")
<1>1. Changes(a) /\ a.event.kind = "claimed" /\ a.event.token = mine[p].token + 1
  BY DEF Changes, NextToken
<1>2. IsUpdate(b, c, d)
  BY UpdateIsUpdate
<1>3. e.do = "grant" /\ Establishes(a, e)
  BY DEF GrantStep, Establishes
<1>4. Changes(r) /\ r.event.kind = "released" /\ r.event.token = mine[p].token
  BY DEF Changes, Entry
<1>5. mine[p].status = "pending" /\ ~Held(p) => Accepts(mine[p], a.event)
  BY <1>1 DEF Accepts, Held
<1>6. /\ Log("claimed", call[p].caller, token, Now(p), "none") = <<a>>
      /\ Update("pending") = <<b, c, d>>
      /\ Told(call[p].caller, token) = <<e>>
      /\ Note(p, "released", "none") = <<r>>
  BY AnswerSteps, NoteIsEntry DEF Log, Carry, Fact, Update
<1> HIDE DEF a, b, c, d, e, r
<1>7. Claiming(p) \in {<<>>, <<a, b, c, d, e>>}
  <2>1. <<a>> \o <<b, c, d>> \o <<e>> = <<a, b, c, d, e>>
    BY JoinAnswer
  <2> QED
    BY <1>6, <2>1 DEF Claiming
<1>8. Releasing(p) = <<r, b, c, d>>
  BY <1>6, JoinFour DEF Releasing
<1>9. CASE IsActive(p) /\ ~Held(p)
  <2>1. mine[p].status = "pending" => Sound(Claiming(p), mine[p])
    BY <1>1, <1>2, <1>3, <1>5, <1>7, <1>9, SoundEmpty, SoundAnswer
  <2>2. mine[p].status # "pending" => Sound(Claiming(p), mine[p])
    BY SoundEmpty DEF Claiming
  <2> QED
    BY <1>9, <2>1, <2>2, SoundEmpty DEF ClaimPlan
<1>10. CASE IsActive(p) /\ Held(p) /\ ~Expired(p)
  <2> DEFINE g == GrantStep(call[p].caller, mine[p].token)
  <2>1. g.do = "grant" /\ Relies(g)
    BY DEF GrantStep, Relies
  <2>2. mine[p].claim.caller = call[p].caller => NamesIt(g)
    BY <1>10 DEF GrantStep, NamesIt, Names, Ready
  <2>3. Told(call[p].caller, mine[p].token) = <<g>>
    BY AnswerSteps
  <2> HIDE DEF g
  <2>4. mine[p].claim.caller = call[p].caller => Sound(<<g>>, mine[p])
    BY <2>1, <2>2, SoundAlone
  <2> QED
    BY <1>10, <2>3, <2>4, SoundEmpty DEF ClaimPlan
<1>11. CASE IsActive(p) /\ Held(p) /\ Expired(p)
  <2>1. mine[p].claim.started => Sound(Ambiguous(p), mine[p])
    BY <1>11, SoundAmbiguous DEF Ready
  <2>2. ~mine[p].claim.started => Sound(Releasing(p) \o Claiming(p), mine[p])
    <3>1. SUFFICES ASSUME ~mine[p].claim.started PROVE Sound(Releasing(p) \o Claiming(p), mine[p])
      OBVIOUS
    <3>2. Accepts(mine[p], r.event) /\ Sound(Releasing(p), mine[p])
      BY <1>11, <3>1, SoundReleasing DEF Ready, r
    <3>3. <<r, b, c, d>> \o <<>> = <<r, b, c, d>>
      OBVIOUS
    <3>4. <<r, b, c, d>> \o <<a, b, c, d, e>> = <<r, b, c, d, a, b, c, d, e>>
      BY JoinNine
    <3>5. Sound(<<r, b, c, d, a, b, c, d, e>>, mine[p])
      BY <1>1, <1>2, <1>3, <1>4, <3>2, SoundReclaim
    <3> QED
      BY <1>7, <1>8, <3>2, <3>3, <3>4, <3>5
  <2> QED
    BY <1>11, <2>1, <2>2, SoundEmpty DEF ClaimPlan
<1> QED
  BY <1>9, <1>10, <1>11, SoundEmpty DEF ClaimPlan

LEMMA SoundStartPlan ==
    ASSUME NEW p \in Processes, Ready(p)
    PROVE  Sound(StartPlan(p), mine[p])
<1>1. CASE ~Exact(p) \/ ~IsActive(p)
  BY <1>1, SoundEmpty DEF StartPlan
<1>2. CASE Exact(p) /\ IsActive(p) /\ Lapsed(p)
  <2>1. Sound(Lapse(p), mine[p])
    BY <1>2, SoundLapse DEF Ready, Exact, Of, Held
  <2> QED
    BY <1>2, <2>1 DEF StartPlan
<1>3. CASE Exact(p) /\ IsActive(p) /\ ~Lapsed(p)
  <2> DEFINE a == Entry(p, "started", "none")
             b == Step("check", "running")
             c == Step("replace", "running")
             d == Step("recheck", "running")
             e == BeganStep(mine[p].token)
  <2>1. Changes(a) /\ IsUpdate(b, c, d) /\ Establishes(a, e) /\ e.do = "began" /\ NamesIt(e)
    BY UpdateIsUpdate DEF Changes, Entry, Establishes, BeganStep, NamesIt
  <2>2. mine[p].claim.started => Relies(e)
    BY DEF BeganStep, Relies, Ready
  <2>3. ~mine[p].claim.started => Accepts(mine[p], a.event)
    <3>1. SUFFICES ASSUME ~mine[p].claim.started PROVE Accepts(mine[p], a.event)
      OBVIOUS
    <3>2. mine[p].status = "pending"
      BY <1>3, <3>1 DEF Ready, Phased, IsActive, Active
    <3>3. NotBefore(Now(p), mine[p].claim.hb)
      <4>1. Now(p) \in Nat /\ mine[p].claim.hb \in Nat
        <5>1. mine[p].claim \in Claim
          BY DEF Ready, TypeInv, LocalInv, Job
        <5> QED
          BY <5>1, Loaded, CallerWorkAssumption DEF Ready, Claim
      <4> QED
        BY <1>3, <4>1 DEF Lapsed, Regressed, NotBefore
    <3> QED
      BY <1>3, <3>1, <3>2, <3>3 DEF Accepts, Of, Exact, Entry
  <2>4. /\ Note(p, "started", "none") = <<a>> /\ Update("running") = <<b, c, d>>
        /\ Begun(mine[p].token) = <<e>>
    BY AnswerSteps, NoteIsEntry DEF Update
  <2> HIDE DEF a, b, c, d, e
  <2>5. mine[p].claim.started => Sound(Begun(mine[p].token), mine[p])
    BY <2>1, <2>2, <2>4, SoundAlone
  <2>6. <<a>> \o <<b, c, d>> \o <<e>> = <<a, b, c, d, e>>
    BY JoinAnswer
  <2>7. ~mine[p].claim.started =>
          Sound(Note(p, "started", "none") \o Update("running") \o Begun(mine[p].token), mine[p])
    BY <2>1, <2>3, <2>4, <2>6, SoundAnswer
  <2> QED
    BY <1>3, <2>5, <2>7, SoundEmpty DEF StartPlan
<1> QED
  BY <1>1, <1>2, <1>3

\* A clock that has not gone back.
LEMMA InTime ==
    ASSUME NEW p \in Processes, Ready(p), ~Lapsed(p) \/ ~Regressed(p)
    PROVE  NotBefore(Now(p), mine[p].claim.hb)
<1>1. mine[p].claim \in Claim
  BY DEF Ready, TypeInv, LocalInv, Job
<1>2. Now(p) \in Nat /\ mine[p].claim.hb \in Nat
  BY <1>1, Loaded, CallerWorkAssumption DEF Ready, Claim
<1> QED
  BY <1>2 DEF Lapsed, Regressed, NotBefore

LEMMA SoundRenewalPlans ==
    ASSUME NEW p \in Processes, Ready(p)
    PROVE  /\ Sound(HeartbeatPlan(p), mine[p])
           /\ Sound(ProgressPlan(p), mine[p])
<1>1. Exact(p) /\ IsActive(p) => Sound(Lapse(p), mine[p])
  BY SoundLapse DEF Ready, Exact, Of, Held
<1>2. CASE Exact(p) /\ IsActive(p) /\ ~Lapsed(p)
  <2> DEFINE status == IF mine[p].claim.started THEN "running" ELSE "pending"
  <2>1. Accepts(mine[p], Entry(p, "heartbeat", "none").event)
    BY <1>2, InTime DEF Accepts, Of, Exact, Entry, IsActive
  <2>2. Sound(Note(p, "heartbeat", "none") \o Update(status), mine[p])
    BY <2>1, NotedUpdate DEF Kinds
  <2>3. Sound(HeartbeatPlan(p), mine[p])
    BY <1>2, <2>2, SoundEmpty DEF HeartbeatPlan
  <2>4. mine[p].status = "running" /\ mine[p].claim.started
        /\ call[p].value \notin mine[p].claim.hashes =>
          Accepts(mine[p], Entry(p, "progress", call[p].value).event)
    BY <1>2, InTime DEF Accepts, Of, Exact, Entry
  <2>5. mine[p].status = "running" /\ mine[p].claim.started
        /\ call[p].value \notin mine[p].claim.hashes =>
          Sound(Note(p, "progress", call[p].value) \o Update("running"), mine[p])
    BY <2>4, NotedUpdate DEF Kinds
  <2>6. Sound(ProgressPlan(p), mine[p])
    BY <1>2, <2>5, SoundEmpty DEF ProgressPlan
  <2> QED
    BY <2>3, <2>6
<1>3. CASE Exact(p) /\ IsActive(p) /\ Lapsed(p)
  BY <1>1, <1>3, SoundEmpty DEF HeartbeatPlan, ProgressPlan
<1>4. CASE ~Exact(p) \/ ~IsActive(p)
  BY <1>4, SoundEmpty DEF HeartbeatPlan, ProgressPlan, IsActive, Active
<1> QED
  BY <1>2, <1>3, <1>4

LEMMA SoundReviewPlan ==
    ASSUME NEW p \in Processes, Ready(p)
    PROVE  Sound(ReviewPlan(p), mine[p])
<1>1. CASE ~Exact(p) \/ mine[p].status # "running" \/ ~mine[p].claim.started
  BY <1>1, SoundEmpty DEF ReviewPlan
<1>2. CASE Exact(p) /\ mine[p].status = "running" /\ mine[p].claim.started
  <2>1. Sound(Ambiguous(p), mine[p])
    BY <1>2, SoundAmbiguous DEF Ready, IsActive, Active
  <2>2. ~Regressed(p) => Sound(Settle("ambiguous") \o Note(p, "review", "none"), mine[p])
    <3> DEFINE a == Step("create", "ambiguous")
               b == Step("copy", "ambiguous")
               c == Entry(p, "review", "none")
    <3>1. a.do = "create" /\ b.do = "copy" /\ Relies(a)
      BY DEF Step, Relies
    <3>2. ~Regressed(p) => Changes(c) /\ Accepts(mine[p], c.event)
      BY <1>2, InTime DEF Changes, Entry, Accepts, Of, Exact
    <3>3. Settle("ambiguous") = <<a, b>> /\ Note(p, "review", "none") = <<c>>
      BY NoteIsEntry DEF Settle
    <3> HIDE DEF a, b, c
    <3>4. Settle("ambiguous") \o Note(p, "review", "none") = <<a, b, c>>
      BY <3>3, JoinThree
    <3> QED
      BY <3>1, <3>2, <3>4, SoundSettle
  <2> QED
    BY <1>2, <2>1, <2>2, SoundEmpty DEF ReviewPlan
<1> QED
  BY <1>1, <1>2

LEMMA SoundEndingPlans ==
    ASSUME NEW p \in Processes, Ready(p)
    PROVE  /\ Sound(ReleasePlan(p), mine[p])
           /\ Sound(ExpirePlan(p), mine[p])
<1>1. CASE Held(p) /\ IsActive(p)
  <2>1. /\ Sound(Lapse(p), mine[p])
        /\ mine[p].claim.started => Sound(Ambiguous(p), mine[p])
        /\ ~mine[p].claim.started => Sound(Releasing(p), mine[p])
    BY <1>1, SoundLapse, SoundAmbiguous, SoundReleasing DEF Ready
  <2> QED
    BY <2>1, SoundEmpty DEF ReleasePlan, ExpirePlan
<1>2. CASE ~Held(p) \/ ~IsActive(p)
  BY <1>2, SoundEmpty DEF ReleasePlan, ExpirePlan, Exact, Of, Held
<1> QED
  BY <1>1, <1>2

\* A result that was announced before, or need not be, with its record or without.
LEMMA SoundResult ==
    ASSUME NEW j, NEW r, NEW s, NEW t,
           r.do = "append", r.event.kind = "submitted",
           s.do = "append", s.event.kind = "status", Accepts(j, s.event),
           t.do = "report", Establishes(s, t)
    PROVE  Sound(<<s, t>>, j) /\ Sound(<<r, s, t>>, j)
<1>1. Sound(<<s, t>>, j)
  <2> DEFINE q == <<s, t>>
  <2>1. Len(q) = 2 /\ q[1] = s /\ q[2] = t
    OBVIOUS
  <2> HIDE DEF q
  <2>2. \A n \in 1..2 : n \in {1, 2}
    OBVIOUS
  <2>3. Submission(q, j)
    BY <2>1, <2>2 DEF Submission
  <2> QED
    BY <2>1, <2>3, SoundSubmission DEF q
<1>2. Sound(<<r, s, t>>, j)
  <2> DEFINE q == <<r, s, t>>
  <2>1. Len(q) = 3 /\ q[1] = r /\ q[2] = s /\ q[3] = t
    OBVIOUS
  <2> HIDE DEF q
  <2>2. \A n \in 1..3 : n \in {1, 2, 3}
    OBVIOUS
  <2>3. Submission(q, j)
    BY <2>1, <2>2 DEF Submission
  <2> QED
    BY <2>1, <2>3, SoundSubmission DEF q
<1> QED
  BY <1>1, <1>2

LEMMA SoundSettledResult ==
    ASSUME NEW j, NEW a, NEW b, NEW r, NEW s, NEW t,
           a.do = "create", b.do = "copy", Relies(a),
           r.do = "append", r.event.kind = "submitted",
           s.do = "append", s.event.kind = "status", Accepts(j, s.event),
           t.do = "report", Establishes(s, t)
    PROVE  Sound(<<a, b, s, t>>, j) /\ Sound(<<a, b, r, s, t>>, j)
<1>1. Sound(<<a, b, s, t>>, j)
  <2> DEFINE q == <<a, b, s, t>>
  <2>1. Len(q) = 4 /\ q[1] = a /\ q[2] = b /\ q[3] = s /\ q[4] = t
    OBVIOUS
  <2> HIDE DEF q
  <2>2. \A n \in 1..4 : n \in {1, 2, 3, 4}
    OBVIOUS
  <2>3. Submission(q, j)
    BY <2>1, <2>2 DEF Submission
  <2> QED
    BY <2>1, <2>3, SoundSubmission DEF q
<1>2. Sound(<<a, b, r, s, t>>, j)
  <2> DEFINE q == <<a, b, r, s, t>>
  <2>1. Len(q) = 5 /\ q[1] = a /\ q[2] = b /\ q[3] = r /\ q[4] = s /\ q[5] = t
    OBVIOUS
  <2> HIDE DEF q
  <2>2. \A n \in 1..5 : n \in {1, 2, 3, 4, 5}
    OBVIOUS
  <2>3. Submission(q, j)
    BY <2>1, <2>2 DEF Submission
  <2> QED
    BY <2>1, <2>3, SoundSubmission DEF q
<1> QED
  BY <1>1, <1>2

\* A result that is announced first.
LEMMA SoundAnnounced ==
    ASSUME NEW j, NEW i, NEW a, NEW b, NEW r, NEW s, NEW t,
           i.do = "append", i.event.kind = "intent", j.claim.started,
           i.event.token = j.token, intent[j.token] = "none", Establishes(i, a),
           a.do = "create", b.do = "copy",
           r.do = "append", r.event.kind = "submitted",
           s.do = "append", s.event.kind = "status", Accepts(j, s.event),
           t.do = "report", Establishes(s, t)
    PROVE  /\ Sound(<<i, s, t>>, j) /\ Sound(<<i, r, s, t>>, j)
           /\ Sound(<<i, a, b, s, t>>, j) /\ Sound(<<i, a, b, r, s, t>>, j)
<1>1. Sound(<<i, s, t>>, j)
  <2> DEFINE q == <<i, s, t>>
  <2>1. Len(q) = 3 /\ q[1] = i /\ q[2] = s /\ q[3] = t
    OBVIOUS
  <2> HIDE DEF q
  <2>2. \A n \in 1..3 : n \in {1, 2, 3}
    OBVIOUS
  <2>3. Submission(q, j)
    BY <2>1, <2>2 DEF Submission
  <2> QED
    BY <2>1, <2>3, SoundSubmission DEF q
<1>2. Sound(<<i, r, s, t>>, j)
  <2> DEFINE q == <<i, r, s, t>>
  <2>1. Len(q) = 4 /\ q[1] = i /\ q[2] = r /\ q[3] = s /\ q[4] = t
    OBVIOUS
  <2> HIDE DEF q
  <2>2. \A n \in 1..4 : n \in {1, 2, 3, 4}
    OBVIOUS
  <2>3. Submission(q, j)
    BY <2>1, <2>2 DEF Submission
  <2> QED
    BY <2>1, <2>3, SoundSubmission DEF q
<1>3. Sound(<<i, a, b, s, t>>, j)
  <2> DEFINE q == <<i, a, b, s, t>>
  <2>1. Len(q) = 5 /\ q[1] = i /\ q[2] = a /\ q[3] = b /\ q[4] = s /\ q[5] = t
    OBVIOUS
  <2> HIDE DEF q
  <2>2. \A n \in 1..5 : n \in {1, 2, 3, 4, 5}
    OBVIOUS
  <2>3. Submission(q, j)
    BY <2>1, <2>2 DEF Submission
  <2> QED
    BY <2>1, <2>3, SoundSubmission DEF q
<1>4. Sound(<<i, a, b, r, s, t>>, j)
  <2> DEFINE q == <<i, a, b, r, s, t>>
  <2>1. Len(q) = 6 /\ q[1] = i /\ q[2] = a /\ q[3] = b /\ q[4] = r /\ q[5] = s /\ q[6] = t
    OBVIOUS
  <2> HIDE DEF q
  <2>2. \A n \in 1..6 : n \in {1, 2, 3, 4, 5, 6}
    OBVIOUS
  <2>3. Submission(q, j)
    BY <2>1, <2>2 DEF Submission
  <2> QED
    BY <2>1, <2>3, SoundSubmission DEF q
<1> QED
  BY <1>1, <1>2, <1>3, <1>4

LEMMA JoinSubmission ==
    ASSUME NEW i, NEW a, NEW b, NEW r, NEW s, NEW t
    PROVE  /\ <<>> \o <<>> \o <<>> \o <<s>> \o <<t>> = <<s, t>>
           /\ <<>> \o <<>> \o <<r>> \o <<s>> \o <<t>> = <<r, s, t>>
           /\ <<>> \o <<a, b>> \o <<>> \o <<s>> \o <<t>> = <<a, b, s, t>>
           /\ <<>> \o <<a, b>> \o <<r>> \o <<s>> \o <<t>> = <<a, b, r, s, t>>
           /\ <<i>> \o <<>> \o <<>> \o <<s>> \o <<t>> = <<i, s, t>>
           /\ <<i>> \o <<>> \o <<r>> \o <<s>> \o <<t>> = <<i, r, s, t>>
           /\ <<i>> \o <<a, b>> \o <<>> \o <<s>> \o <<t>> = <<i, a, b, s, t>>
           /\ <<i>> \o <<a, b>> \o <<r>> \o <<s>> \o <<t>> = <<i, a, b, r, s, t>>
<1>1. /\ <<>> \o <<>> = <<>> /\ <<>> \o <<r>> = <<r>> /\ <<>> \o <<s>> = <<s>>
      /\ <<>> \o <<a, b>> = <<a, b>> /\ <<a, b>> \o <<>> = <<a, b>>
      /\ <<i>> \o <<>> = <<i>> /\ <<i, a, b>> \o <<>> = <<i, a, b>>
  OBVIOUS
<1>2. <<s>> \o <<t>> = <<s, t>> /\ <<r>> \o <<s>> = <<r, s>> /\ <<i>> \o <<s>> = <<i, s>>
      /\ <<i>> \o <<r>> = <<i, r>>
  BY JoinTwo
<1>3. /\ <<r, s>> \o <<t>> = <<r, s, t>> /\ <<a, b>> \o <<s>> = <<a, b, s>>
      /\ <<a, b>> \o <<r>> = <<a, b, r>> /\ <<i, s>> \o <<t>> = <<i, s, t>>
      /\ <<i, r>> \o <<s>> = <<i, r, s>> /\ <<i>> \o <<a, b>> = <<i, a, b>>
  BY JoinThree, JoinOneTwo
<1>4. /\ <<a, b, s>> \o <<t>> = <<a, b, s, t>> /\ <<a, b, r>> \o <<s>> = <<a, b, r, s>>
      /\ <<i, r, s>> \o <<t>> = <<i, r, s, t>> /\ <<i, a, b>> \o <<s>> = <<i, a, b, s>>
      /\ <<i, a, b>> \o <<r>> = <<i, a, b, r>>
  BY JoinFourLast
<1>5. /\ <<a, b, r, s>> \o <<t>> = <<a, b, r, s, t>> /\ <<i, a, b, s>> \o <<t>> = <<i, a, b, s, t>>
      /\ <<i, a, b, r>> \o <<s>> = <<i, a, b, r, s>>
  BY JoinFive
<1>6. <<i, a, b, r, s>> \o <<t>> = <<i, a, b, r, s, t>>
  BY JoinSix
<1> QED
  BY <1>1, <1>2, <1>3, <1>4, <1>5, <1>6

LEMMA SoundSubmissionSteps ==
    ASSUME NEW p \in Processes, Ready(p), NEW status \in Terminal,
           anchor \in {"none", status}, IsActive(p),
           mode = "work" => /\ Held(p) /\ mine[p].claim.started
                            /\ intent[mine[p].token] \in {"none", status}
    PROVE  Sound(SubmissionSteps(p, status), mine[p])
<1> DEFINE i == Entry(p, "intent", status)
           a == Step("create", status)
           b == Step("copy", status)
           r == Entry(p, "submitted", status)
           s == Entry(p, "status", status)
           t == Step("report", status)
           j == mine[p]
<1>1. /\ s.do = "append" /\ s.event.kind = "status" /\ Accepts(j, s.event)
      /\ r.do = "append" /\ r.event.kind = "submitted"
      /\ a.do = "create" /\ b.do = "copy" /\ t.do = "report" /\ i.do = "append"
      /\ i.event.kind = "intent" /\ i.event.token = j.token /\ i.event.value = status
      /\ Establishes(s, t) /\ Establishes(i, a)
  BY DEF Entry, Step, Accepts, IsActive, Establishes
<1>2. /\ Note(p, "intent", status) = <<i>> /\ Note(p, "submitted", status) = <<r>>
      /\ Note(p, "status", status) = <<s>> /\ Settle(status) = <<a, b>>
      /\ Reported(status) = <<t>>
  BY NoteIsEntry DEF Settle, Reported
<1>3. mode # "work" \/ intent[mine[p].token] # "none" => Relies(a)
  BY DEF Relies, Step, Announced, Started, Ready
<1>4. mode = "work" => j.claim.started /\ intent[j.token] \in {"none", status}
  OBVIOUS
<1> HIDE DEF i, a, b, r, s, t, j
<1>5. SubmissionSteps(p, status)
        = (IF mode = "work" /\ intent[mine[p].token] = "none" THEN <<i>> ELSE <<>>)
          \o (IF anchor = "none" THEN <<a, b>> ELSE <<>>)
          \o (IF recorded THEN <<>> ELSE <<r>>) \o <<s>> \o <<t>>
  BY <1>2 DEF SubmissionSteps
<1>6. CASE mode = "work" /\ intent[mine[p].token] = "none"
  <2>1. j.claim.started /\ intent[j.token] = "none"
    BY <1>4, <1>6 DEF j
  <2>2. /\ Sound(<<i, s, t>>, j) /\ Sound(<<i, r, s, t>>, j)
        /\ Sound(<<i, a, b, s, t>>, j) /\ Sound(<<i, a, b, r, s, t>>, j)
    BY <1>1, <2>1, SoundAnnounced
  <2>3. /\ <<i>> \o <<>> \o <<>> \o <<s>> \o <<t>> = <<i, s, t>>
        /\ <<i>> \o <<>> \o <<r>> \o <<s>> \o <<t>> = <<i, r, s, t>>
        /\ <<i>> \o <<a, b>> \o <<>> \o <<s>> \o <<t>> = <<i, a, b, s, t>>
        /\ <<i>> \o <<a, b>> \o <<r>> \o <<s>> \o <<t>> = <<i, a, b, r, s, t>>
    BY JoinSubmission
  <2>4. Sound(SubmissionSteps(p, status), j)
    BY <1>5, <1>6, <2>2, <2>3
  <2> QED
    BY <2>4 DEF j
<1>7. CASE ~(mode = "work" /\ intent[mine[p].token] = "none")
  <2>1. /\ Sound(<<s, t>>, j) /\ Sound(<<r, s, t>>, j)
        /\ Sound(<<a, b, s, t>>, j) /\ Sound(<<a, b, r, s, t>>, j)
    BY <1>1, <1>3, <1>7, SoundResult, SoundSettledResult
  <2>2. /\ <<>> \o <<>> \o <<>> \o <<s>> \o <<t>> = <<s, t>>
        /\ <<>> \o <<>> \o <<r>> \o <<s>> \o <<t>> = <<r, s, t>>
        /\ <<>> \o <<a, b>> \o <<>> \o <<s>> \o <<t>> = <<a, b, s, t>>
        /\ <<>> \o <<a, b>> \o <<r>> \o <<s>> \o <<t>> = <<a, b, r, s, t>>
    BY JoinSubmission
  <2>3. Sound(SubmissionSteps(p, status), j)
    BY <1>5, <1>7, <2>1, <2>2
  <2> QED
    BY <2>3 DEF j
<1> QED
  BY <1>6, <1>7

LEMMA SoundSubmitPlan ==
    ASSUME NEW p \in Processes, Ready(p), Asked(call[p]), call[p].op = "submit"
    PROVE  Sound(SubmitPlan(p), mine[p])
<1> DEFINE status == IF anchor # "none" THEN anchor ELSE call[p].value
           announced == IF Exact(p) /\ mode = "work" THEN intent[mine[p].token] ELSE "none"
           durable == anchor # "none" /\ announced = anchor
<1>0. mode \in {"work", "advise"} /\ anchor \in Terminal \cup {"none"}
  BY Loaded DEF Ready
<1>1. status \in Terminal /\ anchor \in {"none", status}
  BY <1>0 DEF Asked
<1>2. CASE ~IsActive(p) \/ (mode = "work" /\ ~Exact(p))
  BY <1>2, SoundEmpty DEF SubmitPlan
<1>3. CASE IsActive(p) /\ mode = "advise"
  <2>1. Sound(SubmissionSteps(p, status), mine[p])
    BY <1>1, <1>3, SoundSubmissionSteps
  <2> QED
    BY <1>3, <2>1 DEF SubmitPlan
<1>4. CASE IsActive(p) /\ mode = "work" /\ Exact(p)
  <2>1. Sound(Lapse(p), mine[p])
    BY <1>4, SoundLapse DEF Ready, Exact, Of, Held
  <2>2. mine[p].claim.started /\ announced \in {"none", status} =>
          Sound(SubmissionSteps(p, status), mine[p])
    <3>1. Held(p) /\ (announced = intent[mine[p].token])
      BY <1>4 DEF Exact, Of, Held
    <3> QED
      BY <1>1, <1>4, <3>1, SoundSubmissionSteps
  <2>3. announced \in {"none", status} =>
          Sound(Validated(p, durable, SubmissionSteps(p, status)), mine[p])
    BY <2>1, <2>2, SoundEmpty DEF Validated
  <2> QED
    BY <1>4, <2>3, SoundEmpty DEF SubmitPlan
<1> QED
  BY <1>0, <1>2, <1>3, <1>4

LEMMA SoundCancelPlan ==
    ASSUME NEW p \in Processes, Ready(p)
    PROVE  Sound(CancelPlan(p), mine[p])
<1>1. ASSUME NEW status, status # "succeeded"
      PROVE  /\ Sound(Settle(status), mine[p])
             /\ IsActive(p) => Sound(Settle(status) \o Note(p, "status", status), mine[p])
  <2> DEFINE a == Step("create", status)
             b == Step("copy", status)
             c == Entry(p, "status", status)
  <2>1. a.do = "create" /\ b.do = "copy" /\ Relies(a)
    BY <1>1 DEF Step, Relies
  <2>2. IsActive(p) => Changes(c) /\ Accepts(mine[p], c.event)
    BY DEF Changes, Entry, Accepts, IsActive
  <2>3. Settle(status) = <<a, b>> /\ Note(p, "status", status) = <<c>>
    BY NoteIsEntry DEF Settle
  <2> HIDE DEF a, b, c
  <2>4. <<a, b>> \o <<c>> = <<a, b, c>>
    BY JoinThree
  <2> QED
    BY <2>1, <2>2, <2>3, <2>4, SoundSettle
<1>2. IsActive(p) => Sound(Note(p, "status", anchor), mine[p])
  <2>1. IsActive(p) => /\ Changes(Entry(p, "status", anchor))
                       /\ Accepts(mine[p], Entry(p, "status", anchor).event)
    BY DEF Changes, Entry, Accepts, IsActive
  <2> QED
    BY <2>1, NoteIsEntry, SoundEvent
<1>3. Cancelled(mine[p].status) # "succeeded"
  BY DEF Cancelled
<1>4. CASE IsActive(p)
  BY <1>1, <1>2, <1>3, <1>4 DEF CancelPlan
<1>5. CASE ~IsActive(p)
  BY <1>1, <1>5, SoundEmpty DEF CancelPlan
<1> QED
  BY <1>4, <1>5

LEMMA PlanIsSound ==
    ASSUME NEW p \in Processes, Ready(p), Asked(call[p])
    PROVE  Sound(Plan(p), mine[p])
<1>1. CASE call[p].op = "submit"
  BY <1>1, SoundSubmitPlan DEF Plan
<1>2. CASE call[p].op \in {"claim", "start", "heartbeat", "progress"}
  BY <1>2, SoundClaimPlan, SoundStartPlan, SoundRenewalPlans DEF Plan
<1>3. CASE call[p].op \in {"review", "release", "expire", "cancel"}
  BY <1>3, SoundReviewPlan, SoundEndingPlans, SoundCancelPlan DEF Plan
<1> QED
  BY <1>1, <1>2, <1>3 DEF Asked, Ops

-----------------------------------------------------------------------------
(* What an append changes *)

\* A started claim keeps its job, a job ends once, and only a new claim gets a
\* new token.
LEMMA ReplayKeeps ==
    ASSUME NEW j \in Job, Phased(j), NEW s \in Steps, s.do = "append"
    PROVE  /\ j.claim.started => /\ Replay(j, s.event).claim.started
                                 /\ Replay(j, s.event).token = j.token
           /\ j.status \in Terminal => Replay(j, s.event).status = j.status
           /\ Phased(Replay(j, s.event))
           /\ \/ /\ Replay(j, s.event).token = j.token
                 /\ Replay(j, s.event).claim # NoClaim =>
                      /\ j.claim # NoClaim
                      /\ Replay(j, s.event).claim.caller = j.claim.caller
              \/ /\ Accepts(j, s.event) /\ s.event.kind = "claimed"
                 /\ Replay(j, s.event).token = j.token + 1
                 /\ Replay(j, s.event).claim.caller = s.event.caller
<1> DEFINE e == s.event
<1>0. /\ e.kind = "status" => e.value \in Terminal
      /\ j.claim \in Claim /\ j.status \in Active \cup Terminal
  BY DEF Steps, AnyStep, Carries, Job
<1> SUFFICES /\ j.claim.started => Replay(j, e).claim.started /\ Replay(j, e).token = j.token
             /\ j.status \in Terminal => Replay(j, e).status = j.status
             /\ Phased(Replay(j, e))
             /\ \/ /\ Replay(j, e).token = j.token
                   /\ Replay(j, e).claim # NoClaim =>
                        j.claim # NoClaim /\ Replay(j, e).claim.caller = j.claim.caller
                \/ /\ Accepts(j, e) /\ e.kind = "claimed"
                   /\ Replay(j, e).token = j.token + 1
                   /\ Replay(j, e).claim.caller = e.caller
  OBVIOUS
<1> HIDE DEF e
<1>1. ~NoClaim.started
  BY DEF NoClaim
<1>2. /\ Renewed(j, e).caller = j.claim.caller /\ Renewed(j, e).started = j.claim.started
      /\ [Renewed(j, e) EXCEPT !.started = TRUE].caller = j.claim.caller
      /\ [Renewed(j, e) EXCEPT !.started = TRUE].started
      /\ [Renewed(j, e) EXCEPT !.hashes = @ \cup {e.value}].caller = j.claim.caller
      /\ [Renewed(j, e) EXCEPT !.hashes = @ \cup {e.value}].started = j.claim.started
  BY <1>0 DEF Renewed, Claim
<1>3. CASE Accepts(j, e) /\ e.kind = "claimed"
  <2> DEFINE c == [NoClaim EXCEPT !.caller = e.caller, !.hb = e.time, !.exp = e.time + TTL]
  <2>1. c.caller = e.caller /\ ~c.started
    BY DEF NoClaim
  <2>2. Replay(j, e) = [j EXCEPT !.token = e.token, !.claim = c]
    BY <1>3 DEF Replay, Effect
  <2>3. e.token = j.token + 1 /\ j.status = "pending" /\ j.claim = NoClaim
    BY <1>3 DEF Accepts
  <2> HIDE DEF c
  <2>4. /\ Replay(j, e).token = e.token /\ Replay(j, e).claim = c
        /\ Replay(j, e).status = "pending"
    BY <2>2, <2>3 DEF Job
  <2> QED
    BY <1>1, <1>3, <2>1, <2>3, <2>4 DEF Phased, Terminal
<1>4. CASE Accepts(j, e) /\ e.kind = "started"
  <2>1. j.status = "pending" /\ j.claim # NoClaim
    BY <1>4 DEF Accepts, Of
  <2>2. /\ Replay(j, e).token = j.token /\ Replay(j, e).status = "running"
        /\ Replay(j, e).claim = [Renewed(j, e) EXCEPT !.started = TRUE]
    BY <1>4 DEF Replay, Effect, Job
  <2> QED
    BY <1>2, <2>1, <2>2 DEF Phased, Terminal
<1>5. CASE Accepts(j, e) /\ e.kind \in {"heartbeat", "progress"}
  <2>1. j.claim # NoClaim
    BY <1>5 DEF Accepts, Of
  <2>2. /\ Replay(j, e).token = j.token /\ Replay(j, e).status = j.status
        /\ Replay(j, e).claim \in {Renewed(j, e), [Renewed(j, e) EXCEPT !.hashes = @ \cup {e.value}]}
    BY <1>5 DEF Replay, Effect, Job
  <2> QED
    BY <1>2, <2>1, <2>2 DEF Phased
<1>6. CASE Accepts(j, e) /\ e.kind = "released"
  <2>1. j.status = "pending" /\ ~j.claim.started
    BY <1>6 DEF Accepts
  <2>2. /\ Replay(j, e).token = j.token /\ Replay(j, e).status = j.status
        /\ Replay(j, e).claim = NoClaim
    BY <1>6 DEF Replay, Effect, Job
  <2> QED
    BY <1>1, <2>1, <2>2 DEF Phased, Terminal
<1>7. CASE Accepts(j, e) /\ e.kind \in {"ambiguous", "review", "status"}
  <2>1. /\ Replay(j, e).token = j.token /\ Replay(j, e).claim = j.claim
        /\ Replay(j, e).status = IF e.kind = "status" THEN e.value ELSE "ambiguous"
    BY <1>7 DEF Replay, Effect, Job
  <2>2. Replay(j, e).status \in Terminal
    BY <1>0, <2>1 DEF Terminal
  <2>3. j.status \in Terminal => Replay(j, e).status = j.status
    BY <1>7, <2>1 DEF Accepts, Active, Terminal
  <2> QED
    BY <2>1, <2>2, <2>3 DEF Phased, Terminal
<1>8. Accepts(j, e) => e.kind \in {"claimed", "started", "heartbeat", "progress", "released",
                                   "ambiguous", "review", "status"}
  BY DEF Accepts
<1>9. CASE ~Accepts(j, e)
  BY <1>9 DEF Replay
<1> QED
  BY <1>3, <1>4, <1>5, <1>6, <1>7, <1>8, <1>9

LEMMA TailSteps ==
    ASSUME NEW q \in Seq(Steps), q # <<>>
    PROVE  /\ Head(q) = q[1] /\ Head(q) \in Steps /\ 1 \in 1..Len(q)
           /\ \A i \in 1..Len(q) : q[i] \in Steps
           /\ \A i \in 1..Len(Tail(q)) : i + 1 \in 1..Len(q) /\ Tail(q)[i] = q[i + 1]
           /\ \A i \in 1..Len(q) : i # 1 => i - 1 \in 1..Len(Tail(q)) /\ Tail(q)[i - 1] = q[i]
<1>1. /\ Len(q) \in Nat \ {0} /\ Len(Tail(q)) = Len(q) - 1 /\ Head(q) = q[1]
      /\ \A i \in 1..Len(Tail(q)) : Tail(q)[i] = q[i + 1]
  BY HeadTailProperties, LenProperties
<1>2. \A i \in 1..Len(q) : q[i] \in Steps
  BY ElementOfSeq
<1>3. 1 \in 1..Len(q)
  BY <1>1
<1> QED
  BY <1>1, <1>2, <1>3

\* What precedes a step of the tail.
LEMMA TailAppends ==
    ASSUME NEW q \in Seq(Steps), q # <<>>
    PROVE  /\ \A i, k \in 1..Len(Tail(q)) : LastAppend(Tail(q), k, i) => LastAppend(q, k + 1, i + 1)
           /\ \A i \in 1..Len(Tail(q)) : NoAppend(Tail(q), i) =>
                IF Head(q).do = "append" THEN LastAppend(q, 1, i + 1) ELSE NoAppend(q, i + 1)
<1>1. /\ Head(q) = q[1] /\ 1 \in 1..Len(q)
      /\ \A i \in 1..Len(Tail(q)) : i + 1 \in 1..Len(q) /\ Tail(q)[i] = q[i + 1]
      /\ \A i \in 1..Len(q) : i # 1 => i - 1 \in 1..Len(Tail(q)) /\ Tail(q)[i - 1] = q[i]
  BY TailSteps
<1>2. ASSUME NEW i \in 1..Len(Tail(q)), NEW k \in 1..Len(Tail(q)), LastAppend(Tail(q), k, i)
      PROVE  LastAppend(q, k + 1, i + 1)
  <2>1. ASSUME NEW l \in 1..Len(q), k + 1 < l, l < i + 1
        PROVE  q[l].do # "append"
    <3>1. l - 1 \in 1..Len(Tail(q)) /\ Tail(q)[l - 1] = q[l] /\ k < l - 1 /\ l - 1 < i
      BY <1>1, <2>1
    <3> QED
      BY <1>2, <3>1 DEF LastAppend
  <2>2. k + 1 < i + 1 /\ q[k + 1].do = "append"
    BY <1>1, <1>2 DEF LastAppend
  <2> QED
    BY <2>1, <2>2 DEF LastAppend
<1>3. ASSUME NEW i \in 1..Len(Tail(q)), NoAppend(Tail(q), i)
      PROVE  IF Head(q).do = "append" THEN LastAppend(q, 1, i + 1) ELSE NoAppend(q, i + 1)
  <2>1. ASSUME NEW l \in 1..Len(q), l # 1, l < i + 1
        PROVE  q[l].do # "append"
    <3>1. l - 1 \in 1..Len(Tail(q)) /\ Tail(q)[l - 1] = q[l] /\ l - 1 < i
      BY <1>1, <2>1
    <3> QED
      BY <1>3, <3>1 DEF NoAppend
  <2>2. 1 < i + 1
    OBVIOUS
  <2> QED
    BY <1>1, <2>1, <2>2 DEF LastAppend, NoAppend
<1> QED
  BY <1>2, <1>3

LEMMA OrderedTail ==
    ASSUME NEW q \in Seq(Steps), q # <<>>, Ordered(q)
    PROVE  Ordered(Tail(q))
<1>1. /\ Head(q) = q[1] /\ 1 \in 1..Len(q)
      /\ \A i \in 1..Len(Tail(q)) : i + 1 \in 1..Len(q) /\ Tail(q)[i] = q[i + 1]
      /\ \A i \in 1..Len(q) : i # 1 => i - 1 \in 1..Len(Tail(q)) /\ Tail(q)[i - 1] = q[i]
  BY TailSteps
<1>2. ASSUME NEW i \in 1..Len(Tail(q)), NEW do, q[i + 2].do = do, i + 2 \in 1..Len(q)
      PROVE  i + 1 \in 1..Len(Tail(q)) /\ Tail(q)[i + 1].do = do
  <2>1. i + 2 # 1 /\ (i + 2) - 1 = i + 1
    OBVIOUS
  <2> QED
    BY <1>1, <1>2, <2>1
<1>3. \A i \in 1..Len(Tail(q)) : Tail(q)[i].do = "replace" =>
        i + 1 \in 1..Len(Tail(q)) /\ Tail(q)[i + 1].do = "recheck"
  <2> SUFFICES ASSUME NEW i \in 1..Len(Tail(q)), Tail(q)[i].do = "replace"
               PROVE  i + 1 \in 1..Len(Tail(q)) /\ Tail(q)[i + 1].do = "recheck"
    OBVIOUS
  <2>1. (i + 1) + 1 \in 1..Len(q) /\ q[(i + 1) + 1].do = "recheck"
    BY <1>1 DEF Ordered
  <2>2. (i + 1) + 1 = i + 2
    OBVIOUS
  <2> QED
    BY <1>2, <2>1, <2>2
<1>4. \A i \in 1..Len(Tail(q)) : Tail(q)[i].do = "create" =>
        i + 1 \in 1..Len(Tail(q)) /\ Tail(q)[i + 1].do = "copy"
  <2> SUFFICES ASSUME NEW i \in 1..Len(Tail(q)), Tail(q)[i].do = "create"
               PROVE  i + 1 \in 1..Len(Tail(q)) /\ Tail(q)[i + 1].do = "copy"
    OBVIOUS
  <2>1. (i + 1) + 1 \in 1..Len(q) /\ q[(i + 1) + 1].do = "copy"
    BY <1>1 DEF Ordered
  <2>2. (i + 1) + 1 = i + 2
    OBVIOUS
  <2> QED
    BY <1>2, <2>1, <2>2
<1>5. \A i \in 1..Len(Tail(q)) :
        ~(Tail(q)[i].do = "append" /\ Tail(q)[i].event.kind = "intent")
  <2> SUFFICES ASSUME NEW i \in 1..Len(Tail(q)), Tail(q)[i].do = "append",
                      Tail(q)[i].event.kind = "intent"
               PROVE  FALSE
    OBVIOUS
  <2>1. i + 1 = 1
    BY <1>1 DEF Ordered
  <2> QED
    BY <2>1
<1>6. \A i, k \in 1..Len(Tail(q)) : LastAppend(Tail(q), k, i) => Establishes(Tail(q)[k], Tail(q)[i])
  BY <1>1, TailAppends DEF Ordered
<1> QED
  BY <1>3, <1>4, <1>5, <1>6 DEF Ordered

\* The owner's plan after its first step, for the job after that step.
LEMMA FitsTail ==
    ASSUME NEW q \in Seq(Steps), q # <<>>, NEW j \in Job, Phased(j), Ordered(q), Fits(q, j)
    PROVE  Fits(Tail(q), IF Head(q).do = "append" THEN Replay(j, Head(q).event) ELSE j)
<1> DEFINE k == IF Head(q).do = "append" THEN Replay(j, Head(q).event) ELSE j
<1>1. /\ Head(q) = q[1] /\ Head(q) \in Steps /\ 1 \in 1..Len(q)
      /\ \A i \in 1..Len(Tail(q)) : i + 1 \in 1..Len(q) /\ Tail(q)[i] = q[i + 1]
      /\ \A i \in 1..Len(q) : i # 1 => i - 1 \in 1..Len(Tail(q)) /\ Tail(q)[i - 1] = q[i]
  BY TailSteps
<1>2. ASSUME NEW i \in 1..Len(Tail(q)), NEW l \in 1..Len(Tail(q)),
             l < i, Changes(Tail(q)[l]), Changes(Tail(q)[i])
      PROVE  /\ Tail(q)[l].event.kind = "released" /\ Tail(q)[i].event.kind = "claimed"
             /\ Tail(q)[i].event.token = Tail(q)[l].event.token + 1
  <2>1. l + 1 < i + 1
    BY <1>2
  <2> QED
    BY <1>1, <1>2, <2>1 DEF Fits
<1>3. \A i \in 1..Len(Tail(q)) :
        ~(Tail(q)[i].do = "append" /\ Tail(q)[i].event.kind = "intent")
  <2> SUFFICES ASSUME NEW i \in 1..Len(Tail(q)), Tail(q)[i].do = "append",
                      Tail(q)[i].event.kind = "intent"
               PROVE  FALSE
    OBVIOUS
  <2>1. i + 1 = 1
    BY <1>1 DEF Ordered
  <2> QED
    BY <2>1
<1>4. ASSUME NEW i \in 1..Len(Tail(q)), FirstChange(Tail(q), i)
      PROVE  Accepts(k, Tail(q)[i].event)
  <2>1. CASE Changes(q[1])
    <3>1. Accepts(j, q[1].event)
      BY <1>1, <2>1 DEF Fits, FirstChange
    <3>2. 1 < i + 1 /\ Changes(q[i + 1])
      BY <1>1, <1>4 DEF FirstChange
    <3>3. /\ q[1].event.kind = "released" /\ q[i + 1].event.kind = "claimed"
          /\ q[i + 1].event.token = q[1].event.token + 1
      BY <1>1, <2>1, <3>2 DEF Fits
    <3>4. j.status = "pending" /\ j.token = q[1].event.token
      BY <3>1, <3>3 DEF Accepts, Of
    <3>5. k = [j EXCEPT !.claim = NoClaim]
      BY <1>1, <2>1, <3>1, <3>3 DEF Changes, Replay, Effect
    <3>6. k.status = "pending" /\ k.claim = NoClaim /\ k.token = j.token
      BY <3>4, <3>5 DEF Job
    <3> QED
      BY <1>1, <3>3, <3>4, <3>6 DEF Accepts
  <2>2. CASE ~Changes(q[1])
    <3>1. k = j
      <4>1. q[1].do = "append" => ~Accepts(j, q[1].event)
        BY <2>2 DEF Changes, Accepts
      <4> QED
        BY <1>1, <4>1 DEF Replay
    <3>2. FirstChange(q, i + 1)
      <4>1. ASSUME NEW l \in 1..Len(q), l < i + 1
            PROVE  ~Changes(q[l])
        <5>1. CASE l # 1
          <6>1. l - 1 \in 1..Len(Tail(q)) /\ Tail(q)[l - 1] = q[l] /\ l - 1 < i
            BY <1>1, <4>1, <5>1
          <6> QED
            BY <1>4, <6>1 DEF FirstChange
        <5> QED
          BY <2>2, <5>1
      <4>2. Changes(q[i + 1])
        BY <1>1, <1>4 DEF FirstChange
      <4> QED
        BY <4>1, <4>2 DEF FirstChange
    <3> HIDE DEF k
    <3> QED
      BY <1>1, <3>1, <3>2 DEF Fits
  <2> QED
    BY <2>1, <2>2
<1> QED
  BY <1>2, <1>3, <1>4 DEF Fits

-----------------------------------------------------------------------------
(* The promises are kept *)

CoreInv == TypeInv /\ Phased(job) /\ LoadedInv /\ PlansInv /\ ToldInv /\ NamesInv

\* What depends only on the job and its intents stays when they do.
LEMMA SameRecord ==
    ASSUME UNCHANGED <<mode, job, intent>>
    PROVE  /\ \A q : Ordered(q)' <=> Ordered(q)
           /\ \A s : Relies(s)' <=> Relies(s)
           /\ \A q : Kept(q)' <=> Kept(q)
           /\ \A q, j : Fits(q, j)' <=> Fits(q, j)
           /\ \A t : Started(t)' <=> Started(t)
  BY DEF Ordered, Establishes, Relies, Kept, Fits, Started, Announced

LEMMA NamesFewer ==
    ASSUME NamesInv, job' = job, \A c, t : Names(c, t)' => Names(c, t)
    PROVE  NamesInv'
  BY DEF NamesInv

LEMMA CoreQuiet ==
    ASSUME CoreInv, TypeInv', UNCHANGED <<mode, job, intent, pc, mine, todo, told>>,
           owner' \in {owner, Nobody}
    PROVE  CoreInv'
<1>0. \A p \in Processes : p # Nobody
  BY CallerWorkAssumption
<1>1. Phased(job)' /\ LoadedInv' /\ ToldInv'
  BY <1>0, SameRecord DEF CoreInv, Phased, LoadedInv, ToldInv, told
<1>2. PlansInv'
  BY <1>0, SameRecord DEF CoreInv, PlansInv
<1>3. \A c, t : Names(c, t)' => Names(c, t)
  BY DEF Names, told, At, Held
<1> QED
  BY <1>1, <1>2, <1>3, NamesFewer DEF CoreInv

LEMMA CoreEnter ==
    ASSUME CoreInv, TypeInv', NEW p \in Processes, NEW request, Enter(p, request)
    PROVE  CoreInv'
<1>0. /\ UNCHANGED <<mode, job, intent, mine, todo, granted, began, reported>>
      /\ pc[p] = "idle" /\ owner' = p /\ pc' = [pc EXCEPT ![p] = "load"]
  BY DEF Enter, At, events, told
<1>1. \A r \in Processes : (r # p => pc'[r] = pc[r]) /\ pc'[p] = "load"
  BY <1>0 DEF CoreInv, TypeInv, LocalInv
<1>2. Phased(job)' /\ LoadedInv' /\ ToldInv'
  BY <1>0, <1>1, SameRecord DEF CoreInv, Phased, LoadedInv, ToldInv
<1>3. PlansInv'
  <2>1. todo[p] = <<>>
    BY <1>0 DEF CoreInv, LoadedInv
  <2>2. \A j : Fits(<<>>, j)
    BY DEF Fits
  <2> QED
    BY <1>0, <2>1, <2>2, SameRecord DEF CoreInv, PlansInv
<1>4. \A c, t : Names(c, t)' => Names(c, t)
  BY <1>0, <1>1 DEF Names, At, Held
<1> QED
  BY <1>0, <1>2, <1>3, <1>4, NamesFewer DEF CoreInv

LEMMA CoreLoad ==
    ASSUME CoreInv, TypeInv', NEW p \in Processes, Load(p)
    PROVE  CoreInv'
<1>0. /\ UNCHANGED <<mode, job, intent, owner, todo, granted, began, reported>>
      /\ pc[p] = "load" /\ pc' = [pc EXCEPT ![p] = "decide"] /\ mine' = [mine EXCEPT ![p] = job]
  BY DEF Load, At, events, told
<1>1. /\ \A r \in Processes : r # p => pc'[r] = pc[r] /\ mine'[r] = mine[r]
      /\ pc'[p] = "decide" /\ mine'[p] = job
  BY <1>0 DEF CoreInv, TypeInv, LocalInv
<1>2. Phased(job)' /\ ToldInv' /\ PlansInv'
  BY <1>0, SameRecord DEF CoreInv, Phased, ToldInv, PlansInv
<1>3. LoadedInv'
  BY <1>0, <1>1, SameRecord DEF CoreInv, LoadedInv, Phased, Started
<1>4. ASSUME NEW c, NEW t, Names(c, t)'
      PROVE  Names(c, t)
  <2>1. CASE \E r \in Processes : pc'[r] = "decide" /\ mine'[r].claim # NoClaim
                                  /\ mine'[r].claim.caller = c /\ mine'[r].token = t
    <3>1. PICK r \in Processes : pc'[r] = "decide" /\ mine'[r].claim # NoClaim
                                 /\ mine'[r].claim.caller = c /\ mine'[r].token = t
      BY <2>1
    <3> QED
      BY <1>1, <3>1 DEF Names, At, Held
  <2> QED
    BY <1>0, <1>4, <2>1 DEF Names, At, Held
<1> QED
  BY <1>0, <1>2, <1>3, <1>4, NamesFewer DEF CoreInv

LEMMA CoreDecide ==
    ASSUME CoreInv, TypeInv', NEW p \in Processes, Decide(p)
    PROVE  CoreInv'
<1>0. /\ UNCHANGED <<mode, job, intent, owner, granted, began, reported>>
      /\ pc[p] = "decide" /\ pc' = [pc EXCEPT ![p] = "run"]
      /\ todo' = [todo EXCEPT ![p] = Plan(p)] /\ mine' = [mine EXCEPT ![p] = NewJob]
  BY DEF Decide, At, events, told
<1>1. /\ \A r \in Processes : r # p => /\ pc'[r] = pc[r] /\ mine'[r] = mine[r]
                                       /\ todo'[r] = todo[r]
      /\ pc'[p] = "run" /\ todo'[p] = Plan(p)
  BY <1>0 DEF CoreInv, TypeInv, LocalInv
<1>2. Sound(Plan(p), mine[p])
  <2>1. Ready(p) /\ Asked(call[p])
    BY <1>0 DEF CoreInv, TypeInv, LocalInv, LoadedInv, Ready, At
  <2> QED
    BY <2>1, PlanIsSound
<1>3. Phased(job)' /\ ToldInv' /\ LoadedInv'
  BY <1>0, <1>1, SameRecord DEF CoreInv, Phased, ToldInv, LoadedInv
<1>4. PlansInv'
  <2>1. ASSUME NEW r \in Processes
        PROVE  (Ordered(todo[r]) /\ Kept(todo[r]))' /\ (owner' = r => Fits(todo[r], job)')
    <3>1. CASE r # p
      BY <1>0, <1>1, <3>1, SameRecord DEF CoreInv, PlansInv
    <3>2. CASE r = p
      <4>1. Ordered(Plan(p)) /\ Kept(Plan(p)) /\ Fits(Plan(p), mine[p])
        BY <1>2 DEF Sound, Kept
      <4>2. owner = p => mine[p] = job
        BY <1>0 DEF CoreInv, LoadedInv
      <4> QED
        BY <1>0, <1>1, <3>2, <4>1, <4>2, SameRecord
    <3> QED
      BY <3>1, <3>2
  <2> QED
    BY <2>1 DEF PlansInv
<1>5. ASSUME NEW c, NEW t, Names(c, t)'
      PROVE  Names(c, t)
  <2>1. CASE \E r \in Processes : \E i \in 1..Len(todo'[r]) :
               /\ NoAppend(todo'[r], i) /\ todo'[r][i].do = "grant"
               /\ todo'[r][i].event.caller = c /\ todo'[r][i].event.token = t
    <3>1. PICK r \in Processes : \E i \in 1..Len(todo'[r]) :
               /\ NoAppend(todo'[r], i) /\ todo'[r][i].do = "grant"
               /\ todo'[r][i].event.caller = c /\ todo'[r][i].event.token = t
      BY <2>1
    <3>2. CASE r = p
      BY <1>1, <1>2, <3>1, <3>2 DEF Sound, NamesIt
    <3>3. CASE r # p
      BY <1>1, <3>1, <3>3 DEF Names
    <3> QED
      BY <3>2, <3>3
  <2>2. CASE \E r \in Processes : pc'[r] = "decide" /\ mine'[r].claim # NoClaim
                                  /\ mine'[r].claim.caller = c /\ mine'[r].token = t
    BY <1>1, <2>2 DEF Names, At, Held
  <2> QED
    BY <1>0, <1>5, <2>1, <2>2 DEF Names, At, Held
<1> QED
  BY <1>0, <1>3, <1>4, <1>5, NamesFewer DEF CoreInv

\* The call ends, with or without an answer.
LEMMA CoreLeave ==
    ASSUME CoreInv, TypeInv', NEW p \in Processes, Leave(p), UNCHANGED <<mode, job, intent>>,
           UNCHANGED told \/ Answer(p)
    PROVE  CoreInv'
<1>0. /\ \A r \in Processes : r # p => /\ pc'[r] = pc[r] /\ mine'[r] = mine[r]
                                       /\ todo'[r] = todo[r]
      /\ pc'[p] = "idle" /\ todo'[p] = <<>> /\ owner' = (IF owner = p THEN Nobody ELSE owner)
  BY DEF Leave, CoreInv, TypeInv, LocalInv
<1>00. \A r \in Processes : r # Nobody
  BY CallerWorkAssumption
<1>1. Phased(job)' /\ LoadedInv'
  BY <1>0, <1>00, SameRecord DEF CoreInv, Phased, LoadedInv
<1>2. PlansInv'
  <2>1. Ordered(<<>>) /\ Kept(<<>>)
    BY DEF Ordered, Kept
  <2> QED
    BY <1>0, <1>00, <2>1, SameRecord DEF CoreInv, PlansInv
<1>3. ToldInv' /\ \A c, t : (\E g \in granted' : g.caller = c /\ g.token = t) => Names(c, t)
  <2>1. CASE UNCHANGED told
    BY <2>1, SameRecord DEF CoreInv, ToldInv, Names, told
  <2>2. CASE Answer(p)
    <3> DEFINE s == Head(todo[p])
    <3>1. /\ todo[p] \in Seq(Steps) /\ todo[p] # <<>>
          /\ Kept(todo[p])
      BY <2>2 DEF Answer, Does, CoreInv, TypeInv, LocalInv, PlansInv
    <3>2. 1 \in 1..Len(todo[p]) /\ s = todo[p][1] /\ NoAppend(todo[p], 1)
      BY <3>1, TailSteps DEF NoAppend
    <3>3. Relies(s)
      BY <3>1, <3>2 DEF Kept
    <3>4. /\ granted' = IF s.do = "grant"
                        THEN granted \cup {[caller |-> s.event.caller, token |-> s.event.token]}
                        ELSE granted
          /\ began' = IF s.do = "began" THEN began \cup {s.event.token} ELSE began
          /\ reported' = IF s.do = "report" THEN reported \cup {s.status} ELSE reported
      BY <2>2 DEF Answer
    <3>5. s.do = "grant" => Names(s.event.caller, s.event.token)
      BY <3>2 DEF Names
    <3> HIDE DEF s
    <3>6. ToldInv'
      BY <3>3, <3>4, SameRecord DEF CoreInv, ToldInv, Relies
    <3>7. \A c, t : (\E g \in granted' : g.caller = c /\ g.token = t) => Names(c, t)
      <4>1. ASSUME NEW g \in granted' PROVE Names(g.caller, g.token)
        <5>1. CASE g \in granted
          BY <5>1 DEF Names
        <5>2. CASE g \notin granted
          BY <3>4, <3>5, <5>2
        <5> QED
          BY <5>1, <5>2
      <4> QED
        BY <4>1
    <3> QED
      BY <3>6, <3>7
  <2> QED
    BY <2>1, <2>2
<1>4. ASSUME NEW c, NEW t, Names(c, t)'
      PROVE  Names(c, t)
  <2>1. CASE \E r \in Processes : \E i \in 1..Len(todo'[r]) :
               /\ NoAppend(todo'[r], i) /\ todo'[r][i].do = "grant"
               /\ todo'[r][i].event.caller = c /\ todo'[r][i].event.token = t
    BY <1>0, <2>1 DEF Names
  <2>2. CASE \E r \in Processes : pc'[r] = "decide" /\ mine'[r].claim # NoClaim
                                  /\ mine'[r].claim.caller = c /\ mine'[r].token = t
    BY <1>0, <2>2 DEF Names, At, Held
  <2> QED
    BY <1>3, <1>4, <2>1, <2>2 DEF Names, At, Held
<1> QED
  BY <1>1, <1>2, <1>3, <1>4, NamesFewer DEF CoreInv

\* A step that is no append.
LEMMA CoreProceed ==
    ASSUME CoreInv, TypeInv', NEW p \in Processes, NEW do, do # "append", Does(p, do), Proceed(p),
           UNCHANGED <<mode, job, intent, told>>
    PROVE  CoreInv'
<1>0. /\ \A r \in Processes : r # p => todo'[r] = todo[r]
      /\ todo'[p] = Tail(todo[p]) /\ UNCHANGED <<pc, mine, owner, granted, began, reported>>
  BY DEF Proceed, CoreInv, TypeInv, LocalInv, told
<1>1. todo[p] \in Seq(Steps) /\ todo[p] # <<>> /\ Head(todo[p]).do = do /\ pc[p] = "run"
  BY DEF Does, CoreInv, TypeInv, LocalInv
<1>2. /\ \A i \in 1..Len(Tail(todo[p])) : /\ NoAppend(Tail(todo[p]), i) => NoAppend(todo[p], i + 1)
                                          /\ Tail(todo[p])[i] = todo[p][i + 1]
                                          /\ i + 1 \in 1..Len(todo[p])
  BY <1>1, TailSteps, TailAppends
<1>3. Phased(job)' /\ ToldInv' /\ LoadedInv'
  BY <1>0, <1>1, SameRecord DEF CoreInv, Phased, ToldInv, LoadedInv
<1>4. PlansInv'
  <2>1. Ordered(Tail(todo[p])) /\ Kept(Tail(todo[p]))
    BY <1>1, <1>2, OrderedTail DEF CoreInv, PlansInv, Kept
  <2>2. owner = p => Fits(Tail(todo[p]), job)
    BY <1>1, FitsTail DEF CoreInv, PlansInv, TypeInv, TypeOK
  <2> QED
    BY <1>0, <2>1, <2>2, SameRecord DEF CoreInv, PlansInv
<1>5. ASSUME NEW c, NEW t, Names(c, t)'
      PROVE  Names(c, t)
  <2>1. CASE \E r \in Processes : \E i \in 1..Len(todo'[r]) :
               /\ NoAppend(todo'[r], i) /\ todo'[r][i].do = "grant"
               /\ todo'[r][i].event.caller = c /\ todo'[r][i].event.token = t
    <3>1. PICK r \in Processes : \E i \in 1..Len(todo'[r]) :
               /\ NoAppend(todo'[r], i) /\ todo'[r][i].do = "grant"
               /\ todo'[r][i].event.caller = c /\ todo'[r][i].event.token = t
      BY <2>1
    <3>2. CASE r = p
      <4>1. PICK i \in 1..Len(Tail(todo[p])) :
              /\ NoAppend(Tail(todo[p]), i) /\ Tail(todo[p])[i].do = "grant"
              /\ Tail(todo[p])[i].event.caller = c /\ Tail(todo[p])[i].event.token = t
        BY <1>0, <3>1, <3>2
      <4>2. /\ i + 1 \in 1..Len(todo[p]) /\ NoAppend(todo[p], i + 1)
            /\ todo[p][i + 1].do = "grant"
            /\ todo[p][i + 1].event.caller = c /\ todo[p][i + 1].event.token = t
        BY <1>2, <4>1
      <4> QED
        BY <4>2 DEF Names
    <3>3. CASE r # p
      BY <1>0, <3>1, <3>3 DEF Names
    <3> QED
      BY <3>2, <3>3
  <2> QED
    BY <1>0, <1>5, <2>1 DEF Names, At, Held
<1> QED
  BY <1>3, <1>4, <1>5, NamesFewer DEF CoreInv

\* What an append establishes once replay has taken it.
LEMMA Established ==
    ASSUME CoreInv, NEW p \in Processes, owner = p, Does(p, "append"),
           job' = Replay(job, Head(todo[p]).event), mode' = mode,
           intent' = LET e == Head(todo[p]).event
                     IN  IF e.kind = "intent" /\ intent[e.token] = "none"
                         THEN [intent EXCEPT ![e.token] = e.value] ELSE intent,
           NEW t, Establishes(Head(todo[p]), t)
    PROVE  /\ Relies(t)'
           /\ t.do = "grant" => /\ Accepts(job, Head(todo[p]).event)
                                /\ Head(todo[p]).event.kind = "claimed"
                                /\ Head(todo[p]).event.caller = t.event.caller
                                /\ Head(todo[p]).event.token = t.event.token
<1> DEFINE s == Head(todo[p])
           e == s.event
<1>1. /\ todo[p] \in Seq(Steps) /\ todo[p] # <<>> /\ Fits(todo[p], job)
      /\ job \in Job /\ intent \in [1..MaxClaims -> Terminal \cup {"none"}]
      /\ Phased(job) /\ Numbered(job)
  BY DEF Does, CoreInv, TypeInv, TypeOK, LocalInv, PlansInv
<1>2. s = todo[p][1] /\ 1 \in 1..Len(todo[p]) /\ s.do = "append" /\ s \in Steps
  BY <1>1, TailSteps DEF Does
<1>3. e.kind \notin {"intent", "submitted"} => Accepts(job, e)
  BY <1>1, <1>2 DEF Fits, FirstChange, Changes
<1>4. e.kind = "intent" => /\ job.claim.started /\ e.token = job.token
                           /\ intent[job.token] \in {"none", e.value}
  BY <1>1, <1>2 DEF Fits
<1>5. job' = Replay(job, e)
      /\ intent' = IF e.kind = "intent" /\ intent[e.token] = "none"
                   THEN [intent EXCEPT ![e.token] = e.value] ELSE intent
  OBVIOUS
<1>6. job.claim \in Claim /\ job.claim.started => job.token \in 1..MaxClaims
  BY <1>1 DEF Numbered, NoClaim, Job
<1> HIDE DEF e
<1>7. t.do = "began" => Started(t.event.token)'
  <2>1. SUFFICES ASSUME t.do = "began" PROVE Started(t.event.token)'
    OBVIOUS
  <2>2. e.kind = "started" /\ e.token = t.event.token
    BY <2>1 DEF Establishes, e
  <2>3. Accepts(job, e) /\ job.token = e.token
    BY <1>3, <2>2 DEF Accepts, Of
  <2>4. job' = [job EXCEPT !.status = "running",
                           !.claim = [Renewed(job, e) EXCEPT !.started = TRUE]]
    BY <1>5, <2>2, <2>3 DEF Replay, Effect
  <2>5. [Renewed(job, e) EXCEPT !.started = TRUE].started
    BY <1>1 DEF Renewed, Job, Claim
  <2> QED
    BY <1>1, <2>2, <2>3, <2>4, <2>5 DEF Started, Job
<1>8. t.do = "report" => job'.status = t.status
  BY <1>1, <1>3, <1>5 DEF Establishes, e, Replay, Effect, Job
<1>9. mode' = "work" /\ t.do = "create" /\ t.status = "succeeded" => Announced'
  <2>1. SUFFICES ASSUME mode = "work", t.do = "create", t.status = "succeeded" PROVE Announced'
    OBVIOUS
  <2>2. e.kind = "intent" /\ e.value = "succeeded"
    BY <2>1 DEF Establishes, e
  <2>3. job' = job
    BY <1>5, <2>2 DEF Replay, Accepts
  <2>4. job.token \in 1..MaxClaims
    BY <1>1, <1>4, <2>2 DEF Numbered, NoClaim
  <2>5. intent'[job.token] = "succeeded"
    BY <1>1, <1>4, <1>5, <2>2, <2>4
  <2> QED
    BY <1>4, <2>2, <2>3, <2>5 DEF Announced
<1>10. t.do = "grant" => /\ e.kind = "claimed" /\ e.caller = t.event.caller
                         /\ e.token = t.event.token
  BY DEF Establishes, e
<1> QED
  BY <1>3, <1>7, <1>8, <1>9, <1>10 DEF Relies, e

\* What was relied on before an append is relied on after it.
LEMMA StillRelied ==
    ASSUME CoreInv, NEW p \in Processes, owner = p, Does(p, "append"),
           job' = Replay(job, Head(todo[p]).event), mode' = mode,
           intent' = LET e == Head(todo[p]).event
                     IN  IF e.kind = "intent" /\ intent[e.token] = "none"
                         THEN [intent EXCEPT ![e.token] = e.value] ELSE intent
    PROVE  /\ \A t : Started(t) => Started(t)'
           /\ Announced => Announced'
           /\ \A s \in Steps : Relies(s) => Relies(s)'
           /\ job.status \in Terminal => job'.status = job.status
           /\ Phased(job)'
<1>1. /\ job \in Job /\ intent \in [1..MaxClaims -> Terminal \cup {"none"}] /\ Phased(job)
  BY DEF CoreInv, TypeInv, TypeOK
<1>2. Head(todo[p]) \in Steps /\ Head(todo[p]).do = "append"
  BY StepsLeft DEF CoreInv
<1>3. /\ job.claim.started => job'.claim.started /\ job'.token = job.token
      /\ job.status \in Terminal => job'.status = job.status
      /\ Phased(job')
  BY <1>1, <1>2, ReplayKeeps
<1>4. \A t : Started(t) => Started(t)'
  BY <1>3 DEF Started
<1>5. \A t : intent[t] = "succeeded" => intent'[t] = "succeeded"
  BY <1>1
<1>6. Announced => Announced'
  BY <1>3, <1>5 DEF Announced
<1>7. ASSUME NEW s \in Steps, Relies(s)
      PROVE  Relies(s)'
  <2>1. s.do = "report" => s.status \in Terminal
    BY DEF Steps, Carries
  <2> QED
    BY <1>3, <1>4, <1>6, <1>7, <2>1 DEF Relies
<1> QED
  BY <1>3, <1>4, <1>6, <1>7 DEF Phased

LEMMA CoreAppend ==
    ASSUME CoreInv, TypeInv', NEW p \in Processes, AppendEvent(p), owner = p
    PROVE  CoreInv'
<1> DEFINE s == Head(todo[p])
           e == s.event
<1>0. /\ Does(p, "append") /\ Proceed(p) /\ job' = Replay(job, e) /\ mode' = mode
      /\ intent' = (LET f == Head(todo[p]).event
                    IN  IF f.kind = "intent" /\ intent[f.token] = "none"
                        THEN [intent EXCEPT ![f.token] = f.value] ELSE intent)
      /\ UNCHANGED <<granted, began, reported>>
  BY DEF AppendEvent, told
<1>1. /\ \A r \in Processes : r # p => todo'[r] = todo[r]
      /\ todo'[p] = Tail(todo[p]) /\ UNCHANGED <<pc, mine, owner>>
  BY <1>0 DEF Proceed, CoreInv, TypeInv, LocalInv
<1>2. /\ todo[p] \in Seq(Steps) /\ todo[p] # <<>> /\ s.do = "append" /\ pc[p] = "run"
      /\ s \in Steps /\ s = todo[p][1] /\ 1 \in 1..Len(todo[p])
      /\ job \in Job /\ Phased(job)
  BY <1>0, TailSteps DEF Does, CoreInv, TypeInv, TypeOK, LocalInv
<1>3. \A i \in 1..Len(Tail(todo[p])) : NoAppend(Tail(todo[p]), i) =>
         Establishes(s, Tail(todo[p])[i])
  <2>1. \A i \in 1..Len(Tail(todo[p])) : NoAppend(Tail(todo[p]), i) =>
          /\ LastAppend(todo[p], 1, i + 1) /\ Tail(todo[p])[i] = todo[p][i + 1]
          /\ i + 1 \in 1..Len(todo[p])
    BY <1>2, TailSteps, TailAppends
  <2> QED
    BY <1>2, <2>1 DEF CoreInv, PlansInv, Ordered
<1>4. /\ \A t : Started(t) => Started(t)'
      /\ \A t \in Steps : Relies(t) => Relies(t)'
      /\ job.status \in Terminal => job'.status = job.status
      /\ Phased(job)'
  BY <1>0, StillRelied
<1>5. ASSUME NEW t, Establishes(s, t)
      PROVE  /\ Relies(t)'
             /\ t.do = "grant" => /\ Accepts(job, e) /\ e.kind = "claimed"
                                  /\ e.caller = t.event.caller /\ e.token = t.event.token
  BY <1>0, <1>5, Established
<1>6. LoadedInv'
  <2>1. \A r \in Processes : pc[r] = "decide" => owner # r
    <3> SUFFICES ASSUME NEW r \in Processes, pc[r] = "decide", owner = r PROVE FALSE
      OBVIOUS
    <3>1. r = p
      OBVIOUS
    <3> QED
      BY <1>2, <3>1
  <2>2. \A r \in Processes : pc'[r] # "run" => todo'[r] = <<>>
    BY <1>1, <1>2 DEF CoreInv, LoadedInv
  <2> QED
    BY <1>1, <1>4, <2>1, <2>2 DEF CoreInv, LoadedInv, Phased
<1>7. ToldInv'
  <2>1. \A v \in reported : v \in Terminal
    BY DEF CoreInv, TypeInv, TypeOK
  <2> QED
    BY <1>0, <1>4, <2>1 DEF CoreInv, ToldInv
<1>8. PlansInv'
  <2>1. \A q : Ordered(q)' <=> Ordered(q)
    BY <1>0 DEF Ordered, Establishes
  <2>2. ASSUME NEW r \in Processes, r # p
        PROVE  (Ordered(todo[r]) /\ Kept(todo[r]))' /\ owner' # r
    <3>1. todo[r] \in Seq(Steps) /\ Kept(todo[r]) /\ Ordered(todo[r])
      BY DEF CoreInv, TypeInv, LocalInv, PlansInv
    <3>2. \A i \in 1..Len(todo[r]) : todo[r][i] \in Steps
      BY <3>1, ElementOfSeq
    <3>3. \A i \in 1..Len(todo[r]) : NoAppend(todo[r], i) => Relies(todo[r][i])'
      BY <1>1, <1>4, <2>2, <3>1, <3>2 DEF Kept
    <3> QED
      BY <1>1, <2>1, <2>2, <3>1, <3>3 DEF Kept
  <2>3. Ordered(todo[p])'
    BY <1>1, <1>2, <2>1, OrderedTail DEF CoreInv, PlansInv
  <2>4. Kept(todo[p])'
    BY <1>1, <1>3, <1>5 DEF Kept
  <2>5. Fits(todo[p], job)'
    <3>1. Fits(Tail(todo[p]), job')
      BY <1>0, <1>2, FitsTail DEF CoreInv, PlansInv
    <3>2. \A i \in 1..Len(Tail(todo[p])) :
            ~(Tail(todo[p])[i].do = "append" /\ Tail(todo[p])[i].event.kind = "intent")
      <4> SUFFICES ASSUME NEW i \in 1..Len(Tail(todo[p])),
                          Tail(todo[p])[i].do = "append",
                          Tail(todo[p])[i].event.kind = "intent"
                   PROVE  FALSE
        OBVIOUS
      <4>1. i + 1 \in 1..Len(todo[p]) /\ Tail(todo[p])[i] = todo[p][i + 1]
        BY <1>2, TailSteps
      <4>2. i + 1 = 1
        BY <4>1 DEF CoreInv, PlansInv, Ordered
      <4> QED
        BY <4>2
    <3>3. \A q, j :
            Fits(q, j)
            /\ (\A i \in 1..Len(q) : ~(q[i].do = "append" /\ q[i].event.kind = "intent"))
              => Fits(q, j)'
      BY DEF Fits
    <3> QED
      BY <1>1, <3>1, <3>2, <3>3
  <2> QED
    BY <1>1, <2>2, <2>3, <2>4, <2>5 DEF PlansInv
<1>9. \/ /\ job'.token = job.token
         /\ job'.claim # NoClaim => job.claim # NoClaim /\ job'.claim.caller = job.claim.caller
      \/ /\ Accepts(job, e) /\ e.kind = "claimed" /\ job'.token = job.token + 1
         /\ job'.claim.caller = e.caller
  BY <1>0, <1>2, ReplayKeeps
<1>10. e.kind = "claimed" /\ Accepts(job, e) => e.token = job.token + 1 /\ job'.token = e.token
  <2>1. SUFFICES ASSUME e.kind = "claimed", Accepts(job, e)
                 PROVE  e.token = job.token + 1 /\ job'.token = e.token
    OBVIOUS
  <2>2. e.token = job.token + 1
    BY <2>1 DEF Accepts
  <2>3. job' = [job EXCEPT !.token = e.token,
                           !.claim = [NoClaim EXCEPT !.caller = e.caller,
                                        !.hb = e.time, !.exp = e.time + TTL]]
    BY <1>0, <2>1 DEF Replay, Effect
  <2> QED
    BY <1>2, <2>2, <2>3 DEF Job
<1>11. ASSUME NEW c, NEW t, Names(c, t)'
       PROVE  \/ Names(c, t)
              \/ /\ Accepts(job, e) /\ e.kind = "claimed"
                 /\ c = e.caller /\ t = job.token + 1
  <2>1. CASE \E r \in Processes : \E i \in 1..Len(todo'[r]) :
               /\ NoAppend(todo'[r], i) /\ todo'[r][i].do = "grant"
               /\ todo'[r][i].event.caller = c /\ todo'[r][i].event.token = t
    <3>1. PICK r \in Processes : \E i \in 1..Len(todo'[r]) :
               /\ NoAppend(todo'[r], i) /\ todo'[r][i].do = "grant"
               /\ todo'[r][i].event.caller = c /\ todo'[r][i].event.token = t
      BY <2>1
    <3>2. CASE r = p
      <4>1. PICK i \in 1..Len(Tail(todo[p])) :
              /\ NoAppend(Tail(todo[p]), i) /\ Tail(todo[p])[i].do = "grant"
              /\ Tail(todo[p])[i].event.caller = c /\ Tail(todo[p])[i].event.token = t
        BY <1>1, <3>1, <3>2
      <4>2. Establishes(s, Tail(todo[p])[i])
        BY <1>3, <4>1
      <4> QED
        BY <1>5, <1>10, <4>1, <4>2
    <3>3. CASE r # p
      BY <1>1, <3>1, <3>3 DEF Names
    <3> QED
      BY <3>2, <3>3
  <2>2. CASE job'.claim # NoClaim /\ job'.claim.caller = c /\ job'.token = t
    BY <1>9, <2>2 DEF Names
  <2>3. CASE \E r \in Processes : At(r, "decide") /\ Held(r)
                                  /\ mine[r].claim.caller = c /\ mine[r].token = t
    BY <2>3 DEF Names
  <2>4. CASE \E g \in granted : g.caller = c /\ g.token = t
    BY <2>4 DEF Names
  <2> QED
    BY <1>0, <1>1, <1>11, <2>1, <2>2, <2>3, <2>4 DEF Names, At, Held
<1>12. NamesInv'
  <2>0. job.token \in Nat
    BY <1>2, CallerWorkAssumption DEF Job
  <2>1. \A c, t : Names(c, t) => t \in 0..job.token
    BY DEF CoreInv, NamesInv
  <2>2. job'.token = job.token \/ job'.token = job.token + 1
    BY <1>9
  <2>3. \A c, t : Names(c, t)' => t \in 0..job'.token
    BY <1>10, <1>11, <2>0, <2>1, <2>2
  <2>4. ASSUME NEW c, NEW d, NEW t, Names(c, t)', Names(d, t)'
        PROVE  c = d
    <3>1. CASE Names(c, t) /\ Names(d, t)
      BY <3>1 DEF CoreInv, NamesInv
    <3>2. CASE t = job.token + 1
      <4>1. ~Names(c, t) /\ ~Names(d, t)
        BY <2>0, <2>1, <3>2
      <4> QED
        BY <1>11, <2>4, <4>1
    <3> QED
      BY <1>11, <2>4, <3>1, <3>2
  <2> QED
    BY <2>3, <2>4 DEF NamesInv
<1> QED
  BY <1>4, <1>6, <1>7, <1>8, <1>12 DEF CoreInv

LEMMA InitCore == Init => CoreInv
<1> SUFFICES ASSUME Init PROVE CoreInv
  OBVIOUS
<1>1. /\ mode \in {"work", "advise"} /\ job = NewJob /\ owner = Nobody
      /\ granted = {} /\ began = {} /\ reported = {}
      /\ \A p \in Processes : /\ pc[p] = "idle" /\ todo[p] = <<>> /\ p # Nobody
  BY CallerWorkAssumption DEF Init
<1>2. Phased(job) /\ job.claim = NoClaim
  BY <1>1 DEF NewJob, NoClaim, Phased
<1>3. LoadedInv
  BY <1>1 DEF LoadedInv
<1>4. PlansInv
  BY <1>1 DEF PlansInv, Ordered, Kept
<1>5. ToldInv
  BY <1>1 DEF ToldInv
<1>6. \A c, t : ~Names(c, t)
  BY <1>1, <1>2 DEF Names, At
<1>7. NamesInv
  BY <1>6 DEF NamesInv
<1> QED
  BY <1>2, <1>3, <1>4, <1>5, <1>7, InitTypeInv DEF CoreInv

LEMMA NextCore == CoreInv /\ [Next]_vars => CoreInv'
<1> SUFFICES ASSUME CoreInv, [Next]_vars PROVE CoreInv'
  OBVIOUS
<1> USE DEF events, store, local, faults
<1>0. TypeInv'
  BY NextTypeInv DEF CoreInv
<1>1. ASSUME NEW p \in Processes, NEW request \in Calls, Enter(p, request)
      PROVE  CoreInv'
  BY <1>0, <1>1, CoreEnter
<1>2. ASSUME NEW p \in Processes, Load(p)
      PROVE  CoreInv'
  BY <1>0, <1>2, CoreLoad
<1>3. ASSUME NEW p \in Processes, Decide(p)
      PROVE  CoreInv'
  BY <1>0, <1>3, CoreDecide
<1>4. ASSUME NEW p \in Processes, AppendEvent(p)
      PROVE  CoreInv'
  <2>1. CASE owner # p
    <3>1. Leave(p) /\ UNCHANGED <<mode, job, intent, told>>
      BY <1>4, <2>1 DEF AppendEvent
    <3> QED
      BY <1>0, <3>1, CoreLeave
  <2> QED
    BY <1>0, <1>4, <2>1, CoreAppend
<1>5. ASSUME NEW p \in Processes, Look(p)
      PROVE  CoreInv'
  <2>1. CASE anchor # "none"
    <3>1. Leave(p) /\ UNCHANGED <<mode, job, intent, told>>
      BY <1>5, <2>1 DEF Look
    <3> QED
      BY <1>0, <3>1, CoreLeave
  <2>2. CASE anchor = "none"
    <3>1. /\ Does(p, "check") \/ Does(p, "recheck")
          /\ Proceed(p) /\ UNCHANGED <<mode, job, intent, told>>
      BY <1>5, <2>2 DEF Look
    <3> QED
      BY <1>0, <3>1, CoreProceed
  <2> QED
    BY <2>1, <2>2
<1>6. ASSUME NEW p \in Processes, ReplaceFile(p)
      PROVE  CoreInv'
  <2>1. Does(p, "replace") /\ Proceed(p) /\ UNCHANGED <<mode, job, intent, told>>
    BY <1>6 DEF ReplaceFile
  <2> QED
    BY <1>0, <2>1, CoreProceed
<1>7. ASSUME NEW p \in Processes, CreateTerminal(p)
      PROVE  CoreInv'
  <2>1. UNCHANGED <<mode, job, intent, told>> /\ Does(p, "create") /\ (Proceed(p) \/ Leave(p))
    BY <1>7 DEF CreateTerminal
  <2> QED
    BY <1>0, <2>1, CoreProceed, CoreLeave
<1>8. ASSUME NEW p \in Processes, CopyTerminal(p)
      PROVE  CoreInv'
  <2>1. Does(p, "copy") /\ Proceed(p) /\ UNCHANGED <<mode, job, intent, told>>
    BY <1>8 DEF CopyTerminal
  <2> QED
    BY <1>0, <2>1, CoreProceed
<1>9. ASSUME NEW p \in Processes, Answer(p)
      PROVE  CoreInv'
  <2>1. Leave(p) /\ UNCHANGED <<mode, job, intent>>
    BY <1>9 DEF Answer
  <2> QED
    BY <1>0, <1>9, <2>1, CoreLeave
<1>10. ASSUME NEW p \in Processes, Return(p) \/ Crash(p)
       PROVE  CoreInv'
  <2>1. Leave(p) /\ UNCHANGED <<mode, job, intent, told>>
    BY <1>10 DEF Return, Crash
  <2> QED
    BY <1>0, <2>1, CoreLeave
<1>11. CASE TakeOver \/ Tick \/ UNCHANGED vars
  <2>1. UNCHANGED <<mode, job, intent, pc, mine, todo, told>> /\ owner' \in {owner, Nobody}
    BY <1>11 DEF TakeOver, Tick, vars
  <2> QED
    BY <1>0, <2>1, CoreQuiet
<1> QED
  BY <1>1, <1>2, <1>3, <1>4, <1>5, <1>6, <1>7, <1>8, <1>9, <1>10, <1>11 DEF Next, Work

LEMMA CoreHolds == Spec => []CoreInv
  BY InitCore, NextCore, PTL DEF Spec

-----------------------------------------------------------------------------
(* What the promises give *)

\* A fencing token stands for one caller, however claims expire, are released and
\* are taken again, and whichever answers of claims are still under way.
THEOREM OneCallerPerToken == Spec => []TokenNamesOneCaller
<1>1. CoreInv => TokenNamesOneCaller
  <2> SUFFICES ASSUME CoreInv, NEW g \in granted, NEW h \in granted, g.token = h.token
               PROVE  g.caller = h.caller
    BY DEF TokenNamesOneCaller
  <2>1. Names(g.caller, g.token) /\ Names(h.caller, g.token)
    BY DEF Names
  <2> QED
    BY <2>1 DEF CoreInv, NamesInv
<1> QED
  BY <1>1, CoreHolds, PTL

\* Replay never ignores what the owner appends, although the owner decided on it
\* from a job it loaded earlier.
THEOREM OwnersAppendsCount == Spec => []NothingIgnored
<1>1. CoreInv => NothingIgnored
  <2> SUFFICES ASSUME CoreInv, NEW p \in Processes, Does(p, "append"), owner = p,
                      Head(todo[p]).event.kind \notin {"intent", "submitted"}
               PROVE  Accepts(job, Head(todo[p]).event)
    BY DEF NothingIgnored
  <2>1. todo[p] \in Seq(Steps) /\ todo[p] # <<>> /\ Fits(todo[p], job)
    BY DEF Does, CoreInv, TypeInv, LocalInv, PlansInv
  <2>2. Head(todo[p]) = todo[p][1] /\ 1 \in 1..Len(todo[p]) /\ Changes(todo[p][1])
    BY <2>1, TailSteps DEF Does, Changes
  <2> QED
    BY <2>1, <2>2 DEF Fits, FirstChange
<1> QED
  BY <1>1, CoreHolds, PTL

\* At most one claim was ever told to begin the work.
THEOREM OneBegins == Spec => []OneExecutor
<1>1. CoreInv => OneExecutor
  <2> SUFFICES ASSUME CoreInv PROVE Cardinality(began) <= 1
    BY DEF OneExecutor
  <2>1. \A t \in began : t = job.token
    BY DEF CoreInv, ToldInv, Started
  <2>2. began = {} \/ began = {job.token}
    BY <2>1
  <2>3. Cardinality({}) = 0 /\ Cardinality({job.token}) = 1
    BY FS_EmptySet, FS_Singleton
  <2> QED
    BY <2>2, <2>3
<1> QED
  BY <1>1, CoreHolds, PTL

\* What a submission reported stays what the events say.
THEOREM ReportsStand == Spec => []ReportedStands
<1>1. CoreInv => ReportedStands
  BY DEF CoreInv, ToldInv, ReportedStands
<1> QED
  BY <1>1, CoreHolds, PTL

\* A terminal success of a work job was announced, for the started claim that still
\* holds the job, before its record was created.
THEOREM SuccessAnnounced == Spec => []SuccessIsProven
<1>1. Init => SuccessIsProven
  BY DEF Init, SuccessIsProven
<1>2. CoreInv /\ SuccessIsProven /\ [Next]_vars => SuccessIsProven'
  <2> SUFFICES ASSUME CoreInv, SuccessIsProven, [Next]_vars PROVE SuccessIsProven'
    OBVIOUS
  <2>1. SuccessIsProven = (mode = "work" /\ anchor = "succeeded" => Announced)
    BY DEF SuccessIsProven, Announced
  <2>2. SuccessIsProven' = (mode' = "work" /\ anchor' = "succeeded" => Announced')
    BY DEF SuccessIsProven, Announced
  <2>3. mode' = mode /\ (Announced => Announced')
    <3>1. CASE UNCHANGED <<mode, job, intent>>
      BY <3>1 DEF Announced
    <3>2. ASSUME NEW p \in Processes, AppendEvent(p), owner = p
          PROVE  mode' = mode /\ (Announced => Announced')
      <4>1. /\ Does(p, "append") /\ job' = Replay(job, Head(todo[p]).event) /\ mode' = mode
            /\ intent' = (LET f == Head(todo[p]).event
                          IN  IF f.kind = "intent" /\ intent[f.token] = "none"
                              THEN [intent EXCEPT ![f.token] = f.value] ELSE intent)
        BY <3>2 DEF AppendEvent
      <4> QED
        BY <3>2, <4>1, StillRelied
    <3>3. \/ UNCHANGED <<mode, job, intent>>
          \/ \E p \in Processes : AppendEvent(p) /\ owner = p
      BY DEF Next, Work, Enter, Load, Decide, AppendEvent, Look, ReplaceFile, CreateTerminal,
             CopyTerminal, Answer, Return, Crash, TakeOver, Tick, vars, events
    <3> QED
      BY <3>1, <3>2, <3>3
  <2>4. CASE anchor' = anchor
    BY <2>1, <2>2, <2>3, <2>4
  <2>5. CASE anchor' # anchor
    <3>1. PICK p \in Processes : CreateTerminal(p)
      BY <2>5 DEF Next, Work, Enter, Load, Decide, AppendEvent, Look, ReplaceFile,
                  CopyTerminal, Answer, Return, Crash, TakeOver, Tick, vars, store
    <3>2. /\ Does(p, "create") /\ anchor' = Head(todo[p]).status
      BY <2>5, <3>1 DEF CreateTerminal
    <3>3. todo[p] \in Seq(Steps) /\ todo[p] # <<>> /\ Kept(todo[p])
      BY <3>2 DEF Does, CoreInv, TypeInv, LocalInv, PlansInv
    <3>4. Head(todo[p]) = todo[p][1] /\ 1 \in 1..Len(todo[p]) /\ NoAppend(todo[p], 1)
      BY <3>3, TailSteps DEF NoAppend
    <3>5. Relies(Head(todo[p]))
      BY <3>3, <3>4 DEF Kept
    <3> QED
      BY <2>2, <2>3, <3>2, <3>5 DEF Relies, Does
  <2> QED
    BY <2>4, <2>5
<1> QED
  BY <1>1, <1>2, CoreHolds, PTL DEF Spec

\* A process that has replaced the file looks again, one that has created the
\* terminal record copies it.
LEMMA NextMends ==
    ASSUME CoreInv, NEW p \in Processes, Does(p, "replace") \/ Does(p, "create"), Proceed(p)
    PROVE  Mends(p)'
<1>1. todo[p] \in Seq(Steps) /\ todo[p] # <<>> /\ Ordered(todo[p]) /\ todo'[p] = Tail(todo[p])
  BY DEF Does, Proceed, CoreInv, TypeInv, LocalInv, PlansInv
<1>2. todo[p][1].do \in {"replace", "create"} /\ 1 \in 1..Len(todo[p])
  BY <1>1, TailSteps DEF Does
<1>3. 2 \in 1..Len(todo[p]) /\ todo[p][2].do \in {"copy", "recheck"}
  <2>1. 1 + 1 \in 1..Len(todo[p]) /\ todo[p][1 + 1].do \in {"copy", "recheck"}
    BY <1>1, <1>2 DEF Ordered
  <2> QED
    BY <2>1
<1>4. 1 \in 1..Len(Tail(todo[p])) /\ Tail(todo[p])[1] = todo[p][2]
  <2>1. /\ Len(todo[p]) \in Nat /\ Len(Tail(todo[p])) = Len(todo[p]) - 1
        /\ \A i \in 1..Len(Tail(todo[p])) : Tail(todo[p])[i] = todo[p][i + 1]
    BY <1>1, HeadTailProperties, LenProperties
  <2>2. 1 \in 1..Len(Tail(todo[p]))
    BY <1>3, <2>1
  <2> QED
    BY <2>1, <2>2
<1>5. Tail(todo[p]) \in Seq(Steps) /\ Tail(todo[p]) # <<>>
  <2>1. Tail(todo[p]) \in Seq(Steps)
    BY <1>1, HeadTailProperties
  <2>2. Len(Tail(todo[p])) # 0
    BY <1>4
  <2> QED
    BY <2>1, <2>2, EmptySeq
<1>6. Head(Tail(todo[p])) = Tail(todo[p])[1]
  BY <1>5, HeadTailProperties
<1> QED
  BY <1>1, <1>3, <1>4, <1>5, <1>6 DEF Mends

LEMMA NextFileInv == CoreInv /\ FileInv /\ [Next]_vars => FileInv'
<1> SUFFICES ASSUME CoreInv, FileInv, [Next]_vars, crashes' = 0, anchor' # "none"
             PROVE  file' = anchor' \/ \E p \in Processes : Mends(p)'
  BY DEF FileInv
<1> USE DEF events, store, local, told, faults
<1>0. /\ todo \in [Processes -> Seq(Steps)] /\ crashes \in Nat
      /\ \A r \in Processes : pc[r] # "run" => todo[r] = <<>>
  BY CallerWorkAssumption DEF CoreInv, TypeInv, TypeOK, LocalInv, LoadedInv
\* Another process, or one whose first step is something else, keeps its place.
<1>1. ASSUME NEW p \in Processes, crashes = 0, UNCHANGED <<anchor, file>>,
             \A r \in Processes : r # p => todo'[r] = todo[r], ~Mends(p)
      PROVE  file' = anchor' \/ \E r \in Processes : Mends(r)'
  BY <1>1 DEF FileInv, Mends
<1>2. ASSUME UNCHANGED <<anchor, file, todo, crashes>>
      PROVE  file' = anchor' \/ \E r \in Processes : Mends(r)'
  BY <1>2 DEF FileInv, Mends
<1>3. ASSUME NEW p \in Processes, Leave(p) \/ Proceed(p)
      PROVE  \A r \in Processes : r # p => todo'[r] = todo[r]
  BY <1>0, <1>3 DEF Leave, Proceed
<1>4. ASSUME NEW p \in Processes, NEW do \in Dos \ {"copy", "recheck"}, Does(p, do)
      PROVE  ~Mends(p)
  BY <1>4 DEF Does, Mends
<1>5. ASSUME NEW p \in Processes, NEW request \in Calls, Enter(p, request)
      PROVE  file' = anchor' \/ \E r \in Processes : Mends(r)'
  BY <1>2, <1>5 DEF Enter
<1>6. ASSUME NEW p \in Processes, Load(p)
      PROVE  file' = anchor' \/ \E r \in Processes : Mends(r)'
  BY <1>2, <1>6 DEF Load
<1>7. ASSUME NEW p \in Processes, Decide(p)
      PROVE  file' = anchor' \/ \E r \in Processes : Mends(r)'
  <2>1. /\ UNCHANGED <<anchor, file, crashes>> /\ pc[p] = "decide"
        /\ todo' = [todo EXCEPT ![p] = Plan(p)]
    BY <1>7 DEF Decide, At
  <2>2. ~Mends(p)
    BY <1>0, <2>1 DEF Mends
  <2> QED
    BY <1>0, <1>1, <2>1, <2>2
<1>8. ASSUME NEW p \in Processes, AppendEvent(p)
      PROVE  file' = anchor' \/ \E r \in Processes : Mends(r)'
  <2>1. UNCHANGED <<anchor, file, crashes>> /\ Does(p, "append") /\ (Leave(p) \/ Proceed(p))
    BY <1>8 DEF AppendEvent
  <2> QED
    BY <1>1, <1>3, <1>4, <2>1 DEF Dos
<1>9. ASSUME NEW p \in Processes, Look(p)
      PROVE  file' = anchor' \/ \E r \in Processes : Mends(r)'
  BY <1>9 DEF Look
<1>10. ASSUME NEW p \in Processes, ReplaceFile(p)
       PROVE  file' = anchor' \/ \E r \in Processes : Mends(r)'
  BY <1>10, NextMends DEF ReplaceFile
<1>11. ASSUME NEW p \in Processes, CreateTerminal(p)
       PROVE  file' = anchor' \/ \E r \in Processes : Mends(r)'
  <2>1. CASE anchor = "none"
    BY <1>11, <2>1, NextMends DEF CreateTerminal
  <2>2. CASE anchor # "none"
    <3>1. UNCHANGED <<anchor, file, crashes>> /\ Does(p, "create") /\ Leave(p)
      BY <1>11, <2>2 DEF CreateTerminal
    <3> QED
      BY <1>1, <1>3, <1>4, <3>1 DEF Dos
  <2> QED
    BY <2>1, <2>2
<1>12. ASSUME NEW p \in Processes, CopyTerminal(p)
       PROVE  file' = anchor' \/ \E r \in Processes : Mends(r)'
  BY <1>12 DEF CopyTerminal
<1>13. ASSUME NEW p \in Processes, Answer(p)
       PROVE  file' = anchor' \/ \E r \in Processes : Mends(r)'
  <2>1. /\ UNCHANGED <<anchor, file, crashes>> /\ Leave(p)
        /\ \E do \in {"grant", "began", "report"} : Does(p, do)
    BY <1>13 DEF Answer
  <2> QED
    BY <1>1, <1>3, <1>4, <2>1 DEF Dos
<1>14. ASSUME NEW p \in Processes, Return(p)
       PROVE  file' = anchor' \/ \E r \in Processes : Mends(r)'
  <2>1. UNCHANGED <<anchor, file, crashes>> /\ Leave(p) /\ ~Mends(p)
    BY <1>14 DEF Return, Mends
  <2> QED
    BY <1>1, <1>3, <2>1
<1>15. ASSUME NEW p \in Processes, Crash(p)
       PROVE  FALSE
  BY <1>0, <1>15 DEF Crash
<1>16. CASE TakeOver \/ Tick \/ UNCHANGED vars
  BY <1>2, <1>16 DEF TakeOver, Tick, vars
<1> QED
  BY <1>5, <1>6, <1>7, <1>8, <1>9, <1>10, <1>11, <1>12, <1>13, <1>14, <1>15, <1>16 DEF Next, Work

\* Without a crash, no late write of an active status stays over the terminal
\* record: as long as the file differs, somebody is about to look or to copy.
THEOREM NoStaleFile == Spec => []FileAgrees
<1>1. Init => FileInv
  BY DEF Init, FileInv
<1>2. CoreInv /\ FileInv => FileAgrees
  <2> SUFFICES ASSUME CoreInv, FileInv, NEW p \in Processes, Mends(p) PROVE WritesFile(p)
    BY DEF FileInv, FileAgrees
  <2>1. todo[p] \in Seq(Steps) /\ todo[p] # <<>> /\ todo[p][1].do \in {"copy", "recheck"}
    BY TailSteps DEF Mends, CoreInv, TypeInv, LocalInv
  <2>2. 1 \in DOMAIN todo[p]
    BY <2>1, TailSteps, LenProperties
  <2> QED
    BY <2>1, <2>2 DEF WritesFile, FileSteps
<1> QED
  BY <1>1, <1>2, NextFileInv, CoreHolds, PTL DEF Spec
=============================================================================
