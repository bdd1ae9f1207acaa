------------------------- MODULE RuntimeLeaseProofs -------------------------
(***************************************************************************)
(* Type correctness of RuntimeLease, for every set of runtimes and every   *)
(* bound, whoever crashes, is late or is suspended; what any one step of a *)
(* runtime does; and what the lease keeps when runtimes are suspended.     *)
(***************************************************************************)
EXTENDS RuntimeLease, TLAPS

\* What a takeover replaces has an owner.
TypeInv ==
    /\ TypeOK
    /\ \A r \in Runtimes : pc[r] \in {"cut", "replace"} => cur[r].owner \in Runtimes

\* The records that the operations build are leases and fences.
LEMMA Records ==
    ASSUME TypeOK
    PROVE  /\ Missing \in Lease
           /\ NoFence \in Fence
           /\ \A f \in Fence : LeaseAt(f) \in Lease
           /\ \A f \in Fence : EpochOf(f) \in Fence
           /\ \A f \in Fence : f.src \in {"legacy", "epoch"} /\ f.gen \in 0..MaxGen
           /\ \A g \in 0..MaxGen, s \in {"legacy", "epoch"} : [gen |-> g, src |-> s] \in Fence
           /\ \A f \in Fence, g \in 0..MaxGen : [f EXCEPT !.gen = g] \in Fence
           /\ \A r \in Runtimes : [owner |-> r, hb |-> 0, retired |-> {}] \in Lease
<1> USE LeaseAssumption
<1>1. Missing \in Lease
  BY DEF Missing, Lease
<1>2. \A f \in Fence : LeaseAt(f) \in Lease
  BY <1>1 DEF LeaseAt, Fence, TypeOK
<1>3. NoFence \in Fence /\ \A f \in Fence : EpochOf(f) \in Fence
  BY DEF NoFence, EpochOf, Fence
<1>4. /\ \A f \in Fence : f.src \in {"legacy", "epoch"} /\ f.gen \in 0..MaxGen
      /\ \A g \in 0..MaxGen, s \in {"legacy", "epoch"} : [gen |-> g, src |-> s] \in Fence
      /\ \A f \in Fence, g \in 0..MaxGen : [f EXCEPT !.gen = g] \in Fence
  BY DEF Fence
<1>5. \A r \in Runtimes : [owner |-> r, hb |-> 0, retired |-> {}] \in Lease
  BY DEF Lease
<1> QED
  BY <1>1, <1>2, <1>3, <1>4, <1>5

LEMMA NextTypeInv ==
    ASSUME TypeInv,
           [Next]_vars
    PROVE  TypeInv'
<1>0. TypeOK
  BY DEF TypeInv
<1> USE LeaseAssumption, <1>0, Records DEF TypeInv, TypeOK, At, Goto, Unlock, Raise, disk, local, history, Ops, Labels
<1>1. CASE UNCHANGED vars
  BY <1>1 DEF vars
<1>2. ASSUME NEW r \in Runtimes, NEW o \in Ops, Begin(r, o)  PROVE TypeInv'
  BY <1>2 DEF Begin
<1>3. ASSUME NEW r \in Runtimes, Acquire(r)  PROVE TypeInv'
  BY <1>3 DEF Acquire
<1>4. ASSUME NEW r \in Runtimes, Reclaim(r)  PROVE TypeInv'
  BY <1>4 DEF Reclaim
<1>5. ASSUME NEW r \in Runtimes, Timeout(r)  PROVE TypeInv'
  BY <1>5 DEF Timeout
<1>6. ASSUME NEW r \in Runtimes, UseFence(r)  PROVE TypeInv'
  BY <1>6 DEF UseFence
<1>7. ASSUME NEW r \in Runtimes, CopyEpoch(r)  PROVE TypeInv'
  <2>0. nextGen \in 0..MaxGen /\ fence.src \in {"legacy", "epoch"}
    BY <1>7 DEF CopyEpoch
  <2>1. [gen |-> nextGen, src |-> fence.src] \in Fence /\ LeaseAt(fence) \in Lease
    BY <2>0
  <2>2. ctx' \in [Runtimes -> Fence] /\ files' \in [1..MaxGen -> Lease]
    BY <1>7, <2>1 DEF CopyEpoch
  <2> QED
    BY <1>7, <2>2 DEF CopyEpoch
<1>8. ASSUME NEW r \in Runtimes, Rotate(r)  PROVE TypeInv'
  <2>1. CASE first[r] /\ fence # NoFence
    BY <1>8, <2>1 DEF Rotate
  <2>2. CASE ~(first[r] /\ fence # NoFence)
    <3>1. /\ fence' = ctx[r] /\ first' = [first EXCEPT ![r] = FALSE] /\ owed' = FALSE
          /\ pc' = [pc EXCEPT ![r] = op[r]] /\ holder' = holder
          /\ strayed' \in {strayed, strayed \cup {r}}
      BY <1>8, <2>2 DEF Rotate
    <3>2. \A q \in Runtimes : pc'[q] \in {"cut", "replace"} => pc'[q] = pc[q]
      BY <3>1
    <3>3. pc' \in [Runtimes -> Labels]
      BY <3>1
    <3> QED
      BY <1>8, <3>1, <3>2, <3>3 DEF Rotate
  <2> QED
    BY <2>1, <2>2
<1>9. ASSUME NEW r \in Runtimes, Return(r)  PROVE TypeInv'
  <2>1. CASE fence = ctx[r]
    <3>1. acked' \in {acked, acked \cup {pos[r]}}
      BY <1>9, <2>1 DEF Return
    <3>2. mem' \in {[mem EXCEPT ![r] = cur[r]], [mem EXCEPT ![r] = mem[r]]}
      BY <1>9, <2>1 DEF Return
    <3>3. pc' \in {[pc EXCEPT ![r] = "gone"], [pc EXCEPT ![r] = "idle"]}
      BY <1>9, <2>1 DEF Return
    <3>4. /\ acked' \subseteq 0..MaxEvents
          /\ mem' \in [Runtimes -> Lease]
          /\ pc' \in [Runtimes -> Labels]
      <4>1. acked' \subseteq 0..MaxEvents
        BY <3>1
      <4>2. mem' \in [Runtimes -> Lease]
        BY <3>2
      <4>3. pc' \in [Runtimes -> Labels]
        BY <3>3
      <4> QED
        BY <4>1, <4>2, <4>3
    <3>5. \A q \in Runtimes : pc'[q] \in {"cut", "replace"} => q # r /\ pc[q] = pc'[q]
      BY <3>3
    <3> QED
      BY <1>9, <3>4, <3>5 DEF Return
  <2>2. CASE fence # ctx[r]
    <3>1. pc' \in {[pc EXCEPT ![r] = "gone"], [pc EXCEPT ![r] = "idle"]}
      BY <1>9, <2>2 DEF Return
    <3>2. pc' \in [Runtimes -> Labels]
      BY <3>1
    <3>3. \A q \in Runtimes : pc'[q] \in {"cut", "replace"} => q # r /\ pc[q] = pc'[q]
      BY <3>1
    <3> QED
      BY <1>9, <2>2, <3>2, <3>3 DEF Return
  <2> QED
    BY <2>1, <2>2
<1>10. ASSUME NEW r \in Runtimes, ClaimRead(r)  PROVE TypeInv'
  BY <1>10 DEF ClaimRead
<1>11. ASSUME NEW r \in Runtimes, ClaimCreate(r)  PROVE TypeInv'
  <2> DEFINE fresh == [owner |-> r, hb |-> 0, retired |-> {}]
  <2>1. fresh \in Lease
    OBVIOUS
  <2>2. files' \in {files, [files EXCEPT ![ctx[r].gen] = fresh]}
        /\ cur' \in {cur, [cur EXCEPT ![r] = fresh]}
        /\ pc' \in {[pc EXCEPT ![r] = "return"], [pc EXCEPT ![r] = "idle"]}
        /\ holder' \in {holder, Nobody}
    BY <1>11 DEF ClaimCreate
  <2> HIDE DEF fresh
  <2>3. files' \in [1..MaxGen -> Lease] /\ cur' \in [Runtimes -> Lease]
        /\ pc' \in [Runtimes -> Labels] /\ holder' \in Runtimes \cup {Nobody}
    <3>1. files' \in [1..MaxGen -> Lease]
      BY <2>1, <2>2
    <3>2. cur' \in [Runtimes -> Lease]
      <4>1. cur \in [Runtimes -> Lease]
        OBVIOUS
      <4> HIDE DEF TypeInv, TypeOK
      <4>2. CASE cur' = cur
        BY <4>1, <4>2
      <4>3. CASE cur' = [cur EXCEPT ![r] = fresh]
        BY <4>1, <4>3, <2>1
      <4> QED
        BY <4>2, <4>3, <2>2
    <3>3. pc' \in [Runtimes -> Labels]
      BY <2>2
    <3>4. holder' \in Runtimes \cup {Nobody}
      BY <2>2
    <3> QED
      BY <3>1, <3>2, <3>3, <3>4
  <2>4. \A q \in Runtimes : pc'[q] \in {"cut", "replace"} =>
          q # r /\ pc[q] = pc'[q] /\ cur'[q] = cur[q]
    BY <2>2
  <2> QED
    BY <1>11, <2>3, <2>4 DEF ClaimCreate
<1>12. ASSUME NEW r \in Runtimes, ClaimMigrate(r)  PROVE TypeInv'
  <2> DEFINE fresh == [owner |-> r, hb |-> 0, retired |-> {}]
             gen == IF first[r] THEN nextGen ELSE ctx[r].gen
  <2>1. fresh \in Lease /\ gen \in 0..MaxGen /\ ctx[r] \in Fence
    BY <1>12 DEF ClaimMigrate
  <2>2. /\ files' = [files EXCEPT ![gen] = fresh]
        /\ cur' = [cur EXCEPT ![r] = fresh]
        /\ ctx' = [ctx EXCEPT ![r] = [ctx[r] EXCEPT !.gen = gen]]
    BY <1>12 DEF ClaimMigrate
  <2>3. [ctx[r] EXCEPT !.gen = gen] \in Fence
    BY <2>1
  <2> HIDE DEF fresh, gen
  <2>4. files' \in [1..MaxGen -> Lease] /\ cur' \in [Runtimes -> Lease]
        /\ ctx' \in [Runtimes -> Fence]
    BY <2>1, <2>2, <2>3
  <2>5. \A q \in Runtimes : pc'[q] \in {"cut", "replace"} =>
          q # r /\ pc[q] = pc'[q] /\ cur'[q] = cur[q]
    BY <1>12, <2>2 DEF ClaimMigrate
  <2>6. nextGen' \in 1..(MaxGen + 1)
    BY <1>12 DEF ClaimMigrate
  <2> QED
    BY <1>12, <2>4, <2>5, <2>6 DEF ClaimMigrate
<1>13. ASSUME NEW r \in Runtimes, PublishFence(r)  PROVE TypeInv'
  <2>1. EpochOf(ctx[r]) \in Fence
    OBVIOUS
  <2>2. /\ fence' \in {fence, EpochOf(ctx[r])}
        /\ ctx' \in {ctx, [ctx EXCEPT ![r] = EpochOf(ctx[r])]}
        /\ pc' \in {[pc EXCEPT ![r] = "return"], [pc EXCEPT ![r] = "commit"],
                   [pc EXCEPT ![r] = "gone"]}
        /\ holder' \in {holder, Nobody}
    BY <1>13 DEF PublishFence
  <2>3. fence' \in Fence /\ ctx' \in [Runtimes -> Fence] /\ pc' \in [Runtimes -> Labels]
        /\ holder' \in Runtimes \cup {Nobody}
    <3>1. fence' \in Fence /\ holder' \in Runtimes \cup {Nobody}
      BY <2>1, <2>2
    <3>2. ctx' \in [Runtimes -> Fence]
      BY <2>1, <2>2
    <3>3. pc' \in [Runtimes -> Labels]
      BY <2>2
    <3> QED
      BY <3>1, <3>2, <3>3
  <2>4. \A q \in Runtimes : pc'[q] \in {"cut", "replace"} => q # r /\ pc[q] = pc'[q]
    BY <2>2
  <2> QED
    BY <1>13, <2>3, <2>4 DEF PublishFence
<1>14. ASSUME NEW r \in Runtimes, CommitFence(r)  PROVE TypeInv'
  BY <1>14 DEF CommitFence
<1>15. ASSUME NEW r \in Runtimes, TakeoverRead(r)  PROVE TypeInv'
  <2>1. LeaseAt(ctx[r]) \in Lease
    OBVIOUS
  <2>2. CASE pc'[r] = "cut"
    <3>1. /\ cur' = [cur EXCEPT ![r] = LeaseAt(ctx[r])]
          /\ pc' = [pc EXCEPT ![r] = "cut"]
          /\ holder' = holder
          /\ StaleOwner(LeaseAt(ctx[r]).owner)
      BY <1>15, <2>2 DEF TakeoverRead
    <3>2. LeaseAt(ctx[r]).owner \in Runtimes
      BY <3>1 DEF StaleOwner
    <3> QED
      BY <1>15, <2>1, <3>1, <3>2 DEF TakeoverRead
  <2>3. CASE pc'[r] # "cut"
    <3>1. cur' = cur /\ pc' = [pc EXCEPT ![r] = "idle"] /\ holder' \in {holder, Nobody}
      BY <1>15, <2>3 DEF TakeoverRead
    <3> QED
      BY <1>15, <3>1 DEF TakeoverRead
  <2> QED
    BY <2>2, <2>3
<1>16. ASSUME NEW r \in Runtimes, TakeoverCut(r)  PROVE TypeInv'
  BY <1>16 DEF TakeoverCut
<1>17. ASSUME NEW r \in Runtimes, TakeoverReplace(r)  PROVE TypeInv'
  <2>0. cur[r] \in Lease /\ cur[r].owner \in Runtimes /\ pos[r] \in 0..MaxEvents
    BY <1>17 DEF TakeoverReplace
  <2>1. Successor(r) \in Lease
    <3>1. [owner |-> cur[r].owner, upto |-> pos[r]] \in Retirement
      BY <2>0 DEF Retirement
    <3>2. cur[r].retired \subseteq Retirement
      BY <2>0 DEF Lease
    <3> HIDE DEF TypeInv, TypeOK
    <3> QED
      BY <3>1, <3>2 DEF Successor, Lease
  <2>2. files' \in [1..MaxGen -> Lease] /\ cur' \in [Runtimes -> Lease]
    BY <1>17, <2>1 DEF TakeoverReplace
  <2> QED
    BY <1>17, <2>2 DEF TakeoverReplace
<1>18. ASSUME NEW r \in Runtimes, AppendCheck(r)  PROVE TypeInv'
  BY <1>18 DEF AppendCheck
<1>19. ASSUME NEW r \in Runtimes, AppendRead(r)  PROVE TypeInv'
  BY <1>19 DEF AppendRead
<1>20. ASSUME NEW r \in Runtimes, AppendWrite(r)  PROVE TypeInv'
  <2>1. CASE pos[r] = Len(log) + 1
    <3>1. log' = Append(log, r) /\ pc' = [pc EXCEPT ![r] = "post"]
      BY <1>20, <2>1 DEF AppendWrite
    <3>2. log' \in Seq(Runtimes) /\ Len(log') = Len(log) + 1
      BY <3>1
    <3>3. Len(log') <= MaxEvents
      BY <2>1, <3>2
    <3> QED
      BY <1>20, <3>1, <3>2, <3>3 DEF AppendWrite
  <2>2. CASE pos[r] # Len(log) + 1
    BY <1>20, <2>2 DEF AppendWrite
  <2> QED
    BY <2>1, <2>2
<1>21. ASSUME NEW r \in Runtimes, AppendPost(r)  PROVE TypeInv'
  BY <1>21 DEF AppendPost
<1>22. ASSUME NEW r \in Runtimes, BeatRead(r)  PROVE TypeInv'
  BY <1>22 DEF BeatRead
<1>23. ASSUME NEW r \in Runtimes, BeatWrite(r)  PROVE TypeInv'
  <2>0. mem[r] \in Lease /\ mem[r].hb < MaxBeats
    BY <1>23 DEF BeatWrite
  <2>1. [mem[r] EXCEPT !.hb = mem[r].hb + 1] \in Lease
    <3> HIDE DEF TypeInv, TypeOK
    <3> QED
      BY <2>0 DEF Lease
  <2>2. mem' = [mem EXCEPT ![r] = [mem[r] EXCEPT !.hb = mem[r].hb + 1]]
    BY <1>23 DEF BeatWrite
  <2>3. mem' \in [Runtimes -> Lease]
    BY <2>1, <2>2
  <2>4. files' \in [1..MaxGen -> Lease]
    BY <1>23, <2>3 DEF BeatWrite
  <2> QED
    BY <1>23, <2>3, <2>4 DEF BeatWrite
<1>24. ASSUME NEW r \in Runtimes, ReleaseRead(r)  PROVE TypeInv'
  BY <1>24 DEF ReleaseRead
<1>25. ASSUME NEW r \in Runtimes, RetireRead(r)  PROVE TypeInv'
  BY <1>25 DEF RetireRead
<1>26. ASSUME NEW r \in Runtimes, Mark(r)  PROVE TypeInv'
  <2>1. cur[r].retired \subseteq Retirement
    BY DEF Lease
  <2>2. markers' \subseteq Retirement
    BY <1>26, <2>1 DEF Mark
  <2>3. pc' \in {pc, [pc EXCEPT ![r] = "unlink"]}
    BY <1>26 DEF Mark
  <2>4. pc' \in [Runtimes -> Labels]
        /\ \A q \in Runtimes : pc'[q] \in {"cut", "replace"} => pc[q] = pc'[q]
    BY <2>3
  <2> QED
    BY <1>26, <2>2, <2>4 DEF Mark
<1>27. ASSUME NEW r \in Runtimes, Unlink(r)  PROVE TypeInv'
  BY <1>27 DEF Unlink
<1>28. ASSUME NEW r \in Runtimes, Crash(r)  PROVE TypeInv'
  BY <1>28 DEF Crash
<1> QED
  BY <1>1, <1>2, <1>3, <1>4, <1>5, <1>6, <1>7, <1>8, <1>9, <1>10,
     <1>11, <1>12, <1>13, <1>14, <1>15, <1>16, <1>17, <1>18, <1>19, <1>20,
     <1>21, <1>22, <1>23, <1>24, <1>25, <1>26, <1>27, <1>28
  DEF Next, LockStep, ClaimStep, TakeoverStep, AppendStep, UpkeepStep

LEMMA InitTypeInv ==
    ASSUME Init
    PROVE  TypeInv
<1>1. NoFence \in Fence /\ Missing \in Lease
  BY LeaseAssumption DEF NoFence, Fence, Missing, Lease
<1>2. /\ log \in Seq(Runtimes) /\ Len(log) <= MaxEvents
      /\ nextGen \in 1..(MaxGen + 1)
  BY LeaseAssumption DEF Init
<1>3. pc \in [Runtimes -> Labels] /\ op \in [Runtimes -> Ops]
      /\ \A r \in Runtimes : pc[r] = "idle"
  BY DEF Init, Labels, Ops
<1>4. /\ files \in [1..MaxGen -> Lease] /\ ctx \in [Runtimes -> Fence]
      /\ cur \in [Runtimes -> Lease] /\ mem \in [Runtimes -> Lease]
      /\ pos \in [Runtimes -> 0..MaxEvents]
  BY <1>1, LeaseAssumption DEF Init
<1> QED
  BY <1>1, <1>2, <1>3, <1>4 DEF Init, TypeInv, TypeOK

\* Every reachable state of the lease protocol is of its type, whoever crashes
\* or is suspended.
THEOREM TypeCorrect == Spec => []TypeOK
<1>1. Init => TypeInv
  BY InitTypeInv
<1>2. TypeInv /\ [Next]_vars => TypeInv'
  BY NextTypeInv
<1>3. TypeInv => TypeOK
  BY DEF TypeInv
<1> QED
  BY <1>1, <1>2, <1>3, PTL DEF Spec

-----------------------------------------------------------------------------
(* One step of one runtime *)

Live == Runtimes \ crashed
Inside == Labels \ {"idle", "want", "gone"}
Selected == LeaseAt(fence)
Holding == {"append", "beat", "release"}   \* the operations of a lease holder

\* The label of a call and the lease of its runtime fit its operation.
FitsOp(r) ==
    /\ pc[r] \in {"claim", "create", "publish", "commit"} => op[r] = "claim"
    /\ pc[r] \in {"takeover", "cut", "replace"} => op[r] = "takeover"
    /\ pc[r] \in {"append", "read", "write", "post"} => op[r] = "append"
    /\ pc[r] \in {"beat", "rewrite"} => op[r] = "beat"
    /\ pc[r] = "release" => op[r] = "release"
    /\ pc[r] = "retire" => op[r] = "retire"
    /\ pc[r] \in {"mark", "unlink"} => op[r] \in {"release", "retire"}
    /\ pc[r] \notin {"idle", "gone"} => (HasLease(r) <=> op[r] \in Holding)

\* The files, whoever died: a selected epoch has a generation, and a lease
\* without an owner is no lease.
WellFormed ==
    /\ fence.src = "epoch" => fence.gen > 0
    /\ fence.gen = 0 => fence = NoFence
    /\ fence.gen < nextGen
    /\ \A g \in 1..MaxGen : files[g].owner = Nobody => files[g] = Missing

LEMMA Shape ==
    ASSUME TypeOK
    PROVE  /\ DOMAIN pc = Runtimes /\ DOMAIN op = Runtimes /\ DOMAIN ctx = Runtimes
           /\ DOMAIN cur = Runtimes /\ DOMAIN mem = Runtimes /\ DOMAIN pos = Runtimes
           /\ DOMAIN first = Runtimes /\ DOMAIN reclaimed = Runtimes
           /\ DOMAIN files = 1..MaxGen
           /\ nextGen \in Nat \ {0} /\ log \in Seq(Runtimes) /\ Len(log) \in Nat
BY LeaseAssumption DEF TypeOK

StepOf(r) ==
    \/ \E o \in Ops : Begin(r, o)
    \/ LockStep(r) \/ ClaimStep(r) \/ TakeoverStep(r) \/ AppendStep(r) \/ UpkeepStep(r)
    \/ Crash(r)

Keeps(q) ==
    /\ pc'[q] = pc[q] /\ op'[q] = op[q] /\ ctx'[q] = ctx[q] /\ first'[q] = first[q]
    /\ cur'[q] = cur[q] /\ pos'[q] = pos[q] /\ mem'[q] = mem[q]

Steady ==
    \A q \in Runtimes :
        mem'[q].owner = mem[q].owner /\ mem'[q].retired = mem[q].retired

LEMMA StepFacts ==
    ASSUME TypeOK, NEW r \in Runtimes, StepOf(r)
    PROVE  /\ \A q \in Runtimes : q # r => Keeps(q)
           /\ crashed \subseteq crashed' /\ crashed' \subseteq crashed \cup {r}
           /\ r \in Live' => r \in Live /\ pc[r] # "gone"
           /\ r \in Live' /\ pc[r] = "return" => Return(r)
           /\ r \notin Live \/ pc[r] \notin Inside => UNCHANGED <<disk, nextGen>>
           /\ Return(r) \/ Steady
           /\ log' = log \/ (AppendWrite(r) /\ log' = Append(log, r))
<1> USE Shape DEF Keeps, Goto, Raise, local, disk, At, Live, Inside, Labels, Steady
<1>1. CASE \E o \in Ops : Begin(r, o)
  BY <1>1 DEF Begin
<1>2. CASE Acquire(r) \/ Reclaim(r) \/ Timeout(r) \/ UseFence(r) \/ CopyEpoch(r)
           \/ Rotate(r) \/ Return(r)
  BY <1>2 DEF Acquire, Reclaim, Timeout, UseFence, CopyEpoch, Rotate, Return
<1>3. CASE Crash(r) \/ ClaimRead(r) \/ ClaimCreate(r) \/ ClaimMigrate(r)
           \/ PublishFence(r) \/ CommitFence(r) \/ TakeoverRead(r)
  BY <1>3 DEF Crash, ClaimRead, ClaimCreate, ClaimMigrate, PublishFence,
    CommitFence, TakeoverRead
<1>4. CASE TakeoverCut(r) \/ TakeoverReplace(r) \/ AppendCheck(r)
           \/ AppendRead(r) \/ AppendWrite(r) \/ AppendPost(r) \/ BeatRead(r)
  BY <1>4 DEF TakeoverCut, TakeoverReplace, AppendCheck, AppendRead,
    AppendWrite, AppendPost, BeatRead
<1>5. CASE BeatWrite(r)
  BY <1>5 DEF BeatWrite
<1>6. CASE ReleaseRead(r) \/ RetireRead(r)
  BY <1>6 DEF ReleaseRead, RetireRead
<1>7. CASE Mark(r)
  BY <1>7 DEF Mark
<1>8. CASE Unlink(r)
  BY <1>8 DEF Unlink
<1> QED
  BY <1>1, <1>2, <1>3, <1>4, <1>5, <1>6, <1>7, <1>8
  DEF StepOf, LockStep, ClaimStep, TakeoverStep, AppendStep, UpkeepStep

LEMMA OwnFitsOp ==
    ASSUME TypeOK, NEW r \in Live, r \in Live', StepOf(r), FitsOp(r)
    PROVE  FitsOp(r)'
<1>0. TypeOK /\ r \in Runtimes /\ FitsOp(r)
  BY DEF Live
<1>1. CASE \E o \in Ops : Begin(r, o)
  BY <1>0, Shape, <1>1 DEF Begin, FitsOp, Goto, Raise, At, local, Holding, Ops,
    HasLease
<1>2. CASE Acquire(r) \/ Reclaim(r) \/ Timeout(r)
  BY <1>0, Shape, <1>2 DEF Acquire, Reclaim, Timeout, FitsOp, Goto, Raise, At,
    local, Holding, Ops, HasLease
<1>3. CASE UseFence(r)
  <2>1. pc'[r] = op[r] /\ op'[r] = op[r] /\ mem'[r] = mem[r] /\ pc[r] = "prepare"
    BY <1>3, <1>0, Shape DEF UseFence, Goto, At
  <2>2. op[r] \in Ops
    BY <1>0 DEF TypeOK
  <2> QED
    BY <1>0, <2>1, <2>2 DEF FitsOp, HasLease, Ops
<1>4. CASE CopyEpoch(r)
  BY <1>0, Shape, <1>4 DEF CopyEpoch, FitsOp, Goto, Raise, At, local, Holding,
    Ops, HasLease
<1>5. CASE Rotate(r)
  <2>1. pc'[r] \in {op[r], "idle"} /\ op'[r] = op[r] /\ mem'[r] = mem[r] /\ pc[r] = "rotate"
    BY <1>5, <1>0, Shape DEF Rotate, Raise, Goto, At
  <2>2. op[r] \in Ops
    BY <1>0 DEF TypeOK
  <2> QED
    BY <1>0, <2>1, <2>2 DEF FitsOp, HasLease, Ops
<1>6. CASE Return(r)
  BY <1>0, Shape, <1>6 DEF Return, FitsOp, Goto, Raise, At, local, Holding, Ops,
    HasLease
<1>7. CASE Crash(r)
  BY <1>7 DEF Crash, Live
<1>8. CASE ClaimRead(r) \/ ClaimCreate(r) \/ ClaimMigrate(r) \/ PublishFence(r)
           \/ CommitFence(r) \/ TakeoverRead(r) \/ TakeoverCut(r)
  BY <1>0, Shape, <1>8 DEF ClaimRead, ClaimCreate, ClaimMigrate, PublishFence,
    CommitFence, TakeoverRead, TakeoverCut, FitsOp, Goto, Raise, At, local,
    Holding, Ops, HasLease
<1>9. CASE TakeoverReplace(r) \/ AppendCheck(r) \/ AppendRead(r)
           \/ AppendWrite(r) \/ AppendPost(r) \/ BeatRead(r)
  BY <1>0, Shape, <1>9 DEF TakeoverReplace, AppendCheck, AppendRead,
    AppendWrite, AppendPost, BeatRead, FitsOp, Goto, Raise, At, local, Holding,
    Ops, HasLease
<1>10. CASE BeatWrite(r)
  BY <1>10, <1>0, Shape DEF BeatWrite, FitsOp, Goto, At, Holding, HasLease
<1>11. CASE ReleaseRead(r) \/ RetireRead(r) \/ Mark(r) \/ Unlink(r)
  BY <1>0, Shape, <1>11 DEF ReleaseRead, RetireRead, Mark, Unlink, FitsOp, Goto,
    Raise, At, local, Holding, Ops, HasLease
<1> QED
  BY <1>1, <1>2, <1>3, <1>4, <1>5, <1>6, <1>7, <1>8, <1>9, <1>10, <1>11
  DEF StepOf, LockStep, ClaimStep, TakeoverStep, AppendStep, UpkeepStep

-----------------------------------------------------------------------------
(***************************************************************************)
(* The runtime lease when runtimes may be suspended inside a call for any  *)
(* time (Pausable), crash, or be late.  A suspended call may go on after   *)
(* its token was removed, so a live call that is inside need not hold the  *)
(* lock, as LeaseImplements may assume.  What protects the run is that a   *)
(* call which can still succeed has the fence's generation (Works), that   *)
(* there is at most one (OneWorks), and that a rotation puts an end to it. *)
(* The invariant speaks of two leases: the selected one, and the copy that *)
(* a rotation under way is about to select (Copied).                       *)
(***************************************************************************)
Placed == Inside \ {"prepare"}          \* the call has its ctx
Working == Placed \ {"rotate"}

\* About to link the first fence; about to select a file nobody selects yet.
Linking(r) == pc[r] = "publish" /\ first[r]
Fresh(r) == pc[r] = "rotate" \/ Linking(r)

\* A call that can still succeed.
Works(r) ==
    /\ r \in Live /\ pc[r] \in Working
    /\ IF Linking(r) THEN fence = NoFence ELSE ctx[r] = fence

\* A rotation that can still succeed, and the lease it copied.
Copying ==
    /\ holder \in Live /\ pc[holder] = "rotate"
    /\ ~(first[holder] /\ fence # NoFence)
Copied == IF Copying THEN LeaseAt(ctx[holder]) ELSE Selected

\* The cutoffs in force while L is selected.
Known(L) == markers \cup L.retired

\* No two calls have the same generation, and the fence only moves up.
Generation(r) == pc[r] \in Placed =>
    /\ ctx[r].gen < nextGen
    /\ ctx[r].gen = 0 => ctx[r] = NoFence
    /\ Fresh(r) => ctx[r].gen >= 1 /\ ctx[r].gen # fence.gen
    /\ ~Fresh(r) => ctx[r] = fence \/ ctx[r].gen < fence.gen
    /\ pc[r] = "rotate" /\ ~first[r] => fence # NoFence
    /\ pc[r] \notin {"rotate", "publish", "commit", "return"} =>
         (first[r] <=> ctx[r] = NoFence)
    /\ pc[r] \in {"publish", "commit"} =>
         /\ ctx[r].gen >= 1 /\ ctx[r].src = "legacy"
         /\ files[ctx[r].gen] = cur[r]
         /\ cur[r] = [owner |-> r, hb |-> 0, retired |-> {}]
    /\ pc[r] = "commit" => ~first[r]
    /\ \A q \in Live \ {r} : pc[q] \in Placed => ctx[q].gen # ctx[r].gen

\* Until a lock is reclaimed, the call that can succeed holds it; a call that
\* holds the lock can succeed.
Rights(r) ==
    /\ Works(r) /\ ~owed => holder = r
    /\ holder = r /\ pc[r] \in Working => Works(r)

OneWorks == \A r, q \in Runtimes : Works(r) /\ Works(q) => r = q
CopyIsNew == Copying => fence.gen < ctx[holder].gen

FenceInv ==
    /\ WellFormed /\ OneWorks /\ CopyIsNew
    /\ \A r \in Live : FitsOp(r) /\ Generation(r) /\ Rights(r)

\* What a call read stays true of the lease it acts on, ...
Asked(r) ==
    /\ pc[r] \in {"mark", "unlink"} =>
         /\ op[r] = "release" => cur[r].owner = r
         /\ op[r] = "retire" => cur[r].owner \in crashed
    /\ pc[r] = "unlink" => cur[r].retired \subseteq markers
    /\ pc[r] = "return" /\ op[r] \in {"claim", "takeover"} => cur[r].owner = r
    /\ pc[r] \in {"post", "return"} /\ op[r] = "append" =>
         pos[r] \in 1..Len(log) /\ log[pos[r]] = r
    /\ ~HasLease(r) => \A n \in 1..Len(log) : log[n] # r

\* ... and of the selected lease, while the call can succeed.
Answers(r) == Works(r) =>
    /\ pc[r] \in {"create", "publish", "commit"} => Selected = Missing
    /\ pc[r] \in {"cut", "replace", "mark", "unlink"} => Selected = cur[r]
    /\ pc[r] = "replace" => acked \subseteq 1..pos[r] /\ pos[r] <= Len(log)
    /\ pc[r] = "rewrite" => Selected.owner = r
    /\ pc[r] = "return" /\ op[r] = "append" => ~RetiredIn(r, Known(Selected))
    /\ pc[r] # "return" \/ op[r] = "append" => Copied = Selected

\* How a lease suits a runtime, were it selected: who may write an event is
\* its owner or retired in it, and a runtime without a lease is not in it.
Suits(L, r) ==
    /\ pc[r] \in {"read", "write"} => L.owner = r \/ RetiredIn(r, Known(L))
    /\ pc[r] \in {"release", "retire"} => LeaseAt(ctx[r]).retired \subseteq Known(L)
    /\ pc[r] \in {"mark", "unlink"} => cur[r].retired \subseteq Known(L)
    /\ HasLease(r) /\ L.owner = r => mem[r].retired = L.retired
    /\ pc[r] = "return" /\ op[r] \in {"claim", "takeover"} /\ L.owner = r =>
         cur[r].retired = L.retired
    /\ /\ ~HasLease(r) /\ pc[r] # "gone"
       /\ ~(pc[r] = "return" /\ op[r] \in {"claim", "takeover"})
       => L.owner # r /\ ~RetiredIn(r, Known(L))

\* What the log means, were L selected.
Kept(L) == \A n \in acked : AuthoritativeIn(n, Known(L))
Succession(L) ==
    \A i, j, k \in 1..Len(log) :
        /\ i < j /\ j < k /\ log[i] = log[k]
        /\ AuthoritativeIn(i, Known(L)) /\ AuthoritativeIn(j, Known(L))
        /\ AuthoritativeIn(k, Known(L))
        => log[j] = log[i]
Latest(L) ==
    \A i, j \in 1..Len(log) :
        /\ i < j /\ log[i] = L.owner
        /\ AuthoritativeIn(i, Known(L)) /\ AuthoritativeIn(j, Known(L))
        => log[j] = L.owner
Sound(L) ==
    /\ Kept(L) /\ Succession(L) /\ Latest(L)
    /\ \A t \in Known(L) : t.upto <= Len(log)

\* An owner about to check its right finds it in the copy as well, or has lost
\* it there.
Aligned(r) ==
    pc[r] = "append" /\ Selected.owner = r =>
        Copied.owner = r \/ RetiredIn(r, Known(Copied))

RunInv ==
    /\ acked \subseteq 1..Len(log)
    /\ \A r \in Live : Asked(r) /\ Answers(r) /\ Aligned(r)
    /\ \A L \in {Selected, Copied} : Sound(L) /\ \A r \in Live : Suits(L, r)

PauseInv == TypeInv /\ (strayed = {} => FenceInv /\ RunInv)

-----------------------------------------------------------------------------
(* What one step does to the fence and to the right to succeed *)

\* What a step of r sets aside from its own call.
LEMMA HistoryGrows ==
    ASSUME TypeOK, NEW r \in Runtimes, StepOf(r), strayed' = {}
    PROVE  /\ strayed = {}
           /\ UseFence(r) => holder = r /\ ~owed
           /\ Rotate(r) /\ pc'[r] # "idle" => holder = r
           /\ CommitFence(r) => holder = r
<1> USE DEF history
<1>1. CASE \E o \in Ops : Begin(r, o)
  BY <1>1, Shape DEF Begin, At, UseFence, Rotate, CommitFence
<1>2. CASE Acquire(r) \/ Reclaim(r) \/ Timeout(r) \/ CopyEpoch(r) \/ Return(r) \/ Crash(r)
  BY <1>2, Shape DEF Acquire, Reclaim, Timeout, CopyEpoch, Return, Crash, At,
       UseFence, Rotate, CommitFence
<1>3. CASE UseFence(r)
  BY <1>3 DEF UseFence, Rotate, CommitFence, At
<1>4. CASE Rotate(r)
  BY <1>4, Shape DEF Rotate, UseFence, CommitFence, At, Raise, Goto
<1>5. CASE CommitFence(r)
  BY <1>5 DEF CommitFence, UseFence, Rotate, At
<1>6. CASE ClaimRead(r) \/ ClaimCreate(r) \/ ClaimMigrate(r) \/ PublishFence(r)
           \/ TakeoverRead(r) \/ TakeoverCut(r) \/ TakeoverReplace(r)
  BY <1>6 DEF ClaimRead, ClaimCreate, ClaimMigrate, PublishFence, TakeoverRead,
       TakeoverCut, TakeoverReplace, At, UseFence, Rotate, CommitFence
<1>7. CASE AppendCheck(r) \/ AppendRead(r) \/ AppendWrite(r) \/ AppendPost(r)
           \/ BeatRead(r) \/ BeatWrite(r) \/ ReleaseRead(r) \/ RetireRead(r)
           \/ Mark(r) \/ Unlink(r)
  BY <1>7 DEF AppendCheck, AppendRead, AppendWrite, AppendPost, BeatRead,
       BeatWrite, ReleaseRead, RetireRead, Mark, Unlink, At, UseFence, Rotate, CommitFence
<1> QED
  BY <1>1, <1>2, <1>3, <1>4, <1>5, <1>6, <1>7
  DEF StepOf, LockStep, ClaimStep, TakeoverStep, AppendStep, UpkeepStep

\* The fence moves only to the generation of the call that moves it, which
\* works under it from then on while no other does.
SetsFence(r) ==
    /\ r \in Live /\ r \in Live' /\ pc[r] \in {"rotate", "publish", "commit"}
    /\ fence' = ctx'[r] /\ ctx'[r].gen = ctx[r].gen /\ ctx[r].gen >= 1
    /\ fence.gen <= ctx[r].gen
    /\ pc'[r] \in Working /\ ~Linking(r)'
    /\ pc'[r] = "return" \/ (pc[r] = "rotate" /\ pc'[r] \in Ops /\ ~first'[r])
    /\ holder' = holder
    /\ \/ holder = r
       \/ Linking(r) /\ Works(r)

\* A step leaves the fence, or sets it to the generation of its own call.
LEMMA FenceStep ==
    ASSUME TypeInv, FenceInv, NEW r \in Runtimes, StepOf(r), strayed' = {}
    PROVE  fence' = fence \/ SetsFence(r)
<1>0. TypeOK
  BY DEF TypeInv
<1> USE Shape, <1>0
<1>1. CASE Rotate(r) /\ fence' # fence
  <2>1. r \in Live /\ r \in Live' /\ pc[r] = "rotate"
    BY <1>1 DEF Rotate, At, Live
  <2>2. /\ fence' = ctx[r] /\ ctx' = ctx /\ pc'[r] = op[r] /\ holder' = holder /\ ~first'[r]
        /\ ~(first[r] /\ fence # NoFence)
    BY <1>1 DEF Rotate, Goto, Raise, history
  <2>3. op[r] \in Ops
    BY DEF TypeOK
  <2>4. holder = r
    BY <1>1, <2>2, <2>3, HistoryGrows DEF Ops
  <2>5. Copying
    BY <2>1, <2>2, <2>4 DEF Copying
  <2>6. fence.gen < ctx[r].gen /\ ctx[r].gen >= 1
    BY <2>1, <2>4, <2>5 DEF FenceInv, CopyIsNew, Generation, Placed, Inside, Labels, Fresh
  <2>7. ctx[r] \in Fence /\ fence \in Fence
    BY DEF TypeOK
  <2> QED
    BY <2>1, <2>2, <2>3, <2>4, <2>6, <2>7
    DEF SetsFence, Ops, Working, Placed, Inside, Labels, Linking, Fence
<1>2. CASE PublishFence(r) /\ fence' # fence
  <2>1. r \in Live /\ r \in Live' /\ pc[r] = "publish"
    BY <1>2 DEF PublishFence, At, Live
  <2>2. /\ fence' = EpochOf(ctx[r]) /\ ctx' = [ctx EXCEPT ![r] = EpochOf(ctx[r])]
        /\ pc'[r] = "return" /\ holder' = holder /\ first[r] /\ fence = NoFence
    BY <1>2 DEF PublishFence, Goto, Raise
  <2>3. Works(r)
    BY <2>1, <2>2 DEF Works, Working, Placed, Inside, Labels, Linking
  <2>4. ctx[r].gen >= 1 /\ ctx[r] \in Fence
    BY <2>1, <2>2 DEF FenceInv, Generation, Placed, Inside, Labels, TypeOK
  <2>5. EpochOf(ctx[r]).gen = ctx[r].gen
    BY <2>4 DEF EpochOf, Fence
  <2> QED
    BY <2>1, <2>2, <2>3, <2>4, <2>5
    DEF SetsFence, Working, Placed, Inside, Labels, Linking, NoFence, Fence
<1>3. CASE CommitFence(r) /\ fence' # fence
  <2>1. r \in Live /\ r \in Live' /\ pc[r] = "commit"
    BY <1>3 DEF CommitFence, At, Live
  <2>2. /\ fence' = EpochOf(ctx[r]) /\ ctx' = [ctx EXCEPT ![r] = EpochOf(ctx[r])]
        /\ pc'[r] = "return" /\ holder' = holder
    BY <1>3 DEF CommitFence, Goto
  <2>3. holder = r
    BY <1>3, HistoryGrows
  <2>4. Works(r)
    BY <2>1, <2>3 DEF FenceInv, Rights, Working, Placed, Inside, Labels
  <2>5. ctx[r].gen >= 1 /\ ctx[r] \in Fence /\ ctx[r] = fence
    BY <2>1, <2>4 DEF FenceInv, Generation, Placed, Inside, Labels, TypeOK, Works, Linking
  <2>6. EpochOf(ctx[r]).gen = ctx[r].gen
    BY <2>5 DEF EpochOf, Fence
  <2> QED
    BY <2>1, <2>2, <2>3, <2>5, <2>6
    DEF SetsFence, Working, Placed, Inside, Labels, Linking, Fence
<1>4. CASE \E o \in Ops : Begin(r, o)
  BY <1>4 DEF Begin, disk
<1>5. CASE Acquire(r) \/ Reclaim(r) \/ Timeout(r) \/ CopyEpoch(r) \/ Return(r) \/ Crash(r)
           \/ UseFence(r)
  BY <1>5 DEF Acquire, Reclaim, Timeout, CopyEpoch, Return, Crash, UseFence, disk
<1>6. CASE ClaimRead(r) \/ ClaimCreate(r) \/ ClaimMigrate(r)
           \/ TakeoverRead(r) \/ TakeoverCut(r) \/ TakeoverReplace(r)
  BY <1>6 DEF ClaimRead, ClaimCreate, ClaimMigrate, TakeoverRead,
       TakeoverCut, TakeoverReplace, disk
<1>7. CASE AppendCheck(r) \/ AppendRead(r) \/ AppendWrite(r) \/ AppendPost(r)
           \/ BeatRead(r) \/ BeatWrite(r) \/ ReleaseRead(r) \/ RetireRead(r)
           \/ Mark(r) \/ Unlink(r)
  BY <1>7 DEF AppendCheck, AppendRead, AppendWrite, AppendPost, BeatRead,
       BeatWrite, ReleaseRead, RetireRead, Mark, Unlink, disk
<1> QED
  BY <1>1, <1>2, <1>3, <1>4, <1>5, <1>6, <1>7
  DEF StepOf, LockStep, ClaimStep, TakeoverStep, AppendStep, UpkeepStep

\* How a live call comes to work, or goes on, while the fence stays.
LEMMA OwnRoute ==
    ASSUME TypeInv, FenceInv, NEW r \in Live, StepOf(r), r \in Live', fence' = fence,
           pc'[r] \in Working
    PROVE  \/ UseFence(r)
           \/ ClaimMigrate(r)
           \/ /\ pc[r] \in Working /\ ctx'[r] = ctx[r] /\ first'[r] = first[r]
              /\ Linking(r)' <=> Linking(r)
              /\ holder' = holder /\ owed' = owed /\ pc'[r] # "publish"
              /\ pc'[r] = "commit" =>
                   pc[r] = "publish" /\ ~first[r] /\ files' = files /\ cur' = cur
              /\ pc'[r] \notin {"commit", "return"} =>
                   pc[r] \notin {"publish", "commit", "return"}
<1>0. TypeOK /\ r \in Runtimes
  BY DEF TypeInv, Live
<1> USE <1>0, Shape DEF At, Goto, Raise, local, history, Linking, Working, Placed, Inside, Labels
<1>1. CASE \E o \in Ops : Begin(r, o)
  BY <1>1 DEF Begin
<1>2. CASE Acquire(r) \/ Reclaim(r) \/ Timeout(r) \/ CopyEpoch(r) \/ Return(r)
  BY <1>2 DEF Acquire, Reclaim, Timeout, CopyEpoch, Return
<1>3. CASE Rotate(r)
  <2>1. fence' = ctx[r] /\ pc[r] = "rotate"
    BY <1>3 DEF Rotate
  <2> QED
    BY <2>1 DEF FenceInv, Generation, Fresh
<1>4. CASE Crash(r)
  BY <1>4 DEF Crash, Live
<1>5. CASE ClaimRead(r) \/ ClaimCreate(r) \/ PublishFence(r)
           \/ TakeoverRead(r) \/ TakeoverCut(r) \/ TakeoverReplace(r)
  <2>1. CASE PublishFence(r)
    <3>1. ~first[r] /\ pc[r] = "publish" /\ pc'[r] = "commit" /\ first' = first /\ ctx' = ctx
          /\ holder' = holder /\ owed' = owed /\ files' = files /\ cur' = cur
      <4>1. fence' # EpochOf(ctx[r]) \/ fence # NoFence
        <5>1. EpochOf(ctx[r]).src = "epoch"
          BY DEF TypeOK, Fence, EpochOf
        <5> QED
          BY <5>1 DEF NoFence
      <4> QED
        BY <2>1, <4>1 DEF PublishFence
    <3> QED
      BY <3>1
  <2> QED
    BY <1>5, <2>1 DEF ClaimRead, ClaimCreate, TakeoverRead, TakeoverCut, TakeoverReplace
<1>6. CASE CommitFence(r)
  <2>1. fence' = EpochOf(ctx[r]) /\ ctx[r].gen >= 1 /\ ctx[r].src = "legacy" /\ pc[r] = "commit"
    BY <1>6 DEF CommitFence, FenceInv, Generation
  <2>2. /\ EpochOf(ctx[r]).gen = ctx[r].gen /\ EpochOf(ctx[r]).src = "epoch"
        /\ ctx[r].gen \in Nat
    BY DEF TypeOK, Fence, EpochOf
  <2>3. Generation(r) /\ ~Fresh(r)
    BY <2>1 DEF FenceInv, Fresh
  <2>4. ctx[r] = fence \/ ctx[r].gen < fence.gen
    BY <2>1, <2>3 DEF Generation
  <2> QED
    BY <2>1, <2>2, <2>4
<1>7. CASE AppendCheck(r) \/ AppendRead(r) \/ AppendWrite(r) \/ AppendPost(r)
           \/ BeatRead(r) \/ BeatWrite(r) \/ ReleaseRead(r) \/ RetireRead(r)
           \/ Mark(r) \/ Unlink(r)
  BY <1>7 DEF AppendCheck, AppendRead, AppendWrite, AppendPost, BeatRead,
       BeatWrite, ReleaseRead, RetireRead, Mark, Unlink
<1> QED
  BY <1>1, <1>2, <1>3, <1>4, <1>5, <1>6, <1>7
  DEF StepOf, LockStep, ClaimStep, TakeoverStep, AppendStep, UpkeepStep

\* A migration draws a generation, or keeps the one a rotation has drawn.
LEMMA Migrates ==
    ASSUME TypeInv, FenceInv, NEW r \in Live, ClaimMigrate(r)
    PROVE  LET gen == IF first[r] THEN nextGen ELSE ctx[r].gen
           IN  /\ gen \in 1..MaxGen
               /\ ctx'[r] = [gen |-> gen, src |-> "legacy"] /\ ctx'[r].gen = gen
               /\ files' = [files EXCEPT ![gen] = [owner |-> r, hb |-> 0, retired |-> {}]]
               /\ first[r] => ctx[r] = NoFence
               /\ ~first[r] => ctx'[r] = ctx[r]
               /\ nextGen' = IF first[r] THEN nextGen + 1 ELSE nextGen
               /\ pc[r] = "create" /\ pc'[r] = "publish" /\ first' = first /\ fence' = fence
               /\ holder' = holder /\ owed' = owed /\ gen < nextGen'
               /\ cur'[r] = [owner |-> r, hb |-> 0, retired |-> {}]
<1> DEFINE gen == IF first[r] THEN nextGen ELSE ctx[r].gen
<1>0. TypeOK /\ r \in Runtimes /\ ctx[r] \in Fence /\ pc[r] = "create" /\ ctx[r].src = "legacy"
  BY DEF TypeInv, Live, TypeOK, ClaimMigrate, At
<1>1. /\ ctx[r].gen = 0 => ctx[r] = NoFence
      /\ first[r] <=> ctx[r] = NoFence
      /\ ctx[r].gen < nextGen
  BY <1>0 DEF FenceInv, Generation, Placed, Inside, Labels
<1>2. gen \in 1..MaxGen /\ gen < nextGen'
  BY <1>0, <1>1, Shape, LeaseAssumption DEF ClaimMigrate, Fence
<1>3. ctx'[r] = [ctx[r] EXCEPT !.gen = gen]
  BY <1>0, Shape DEF ClaimMigrate
<1>4. ctx'[r] = [gen |-> gen, src |-> "legacy"]
  BY <1>0, <1>3 DEF Fence
<1>5. ~first[r] => ctx'[r] = ctx[r]
  BY <1>0, <1>4 DEF Fence
<1> QED
  BY <1>0, <1>1, <1>2, <1>4, <1>5, Shape DEF ClaimMigrate, Goto, history

\* Another runtime's step gives a call no right to succeed.
LEMMA OtherWorks ==
    ASSUME TypeInv, FenceInv, NEW r \in Runtimes, StepOf(r), strayed' = {},
           NEW q \in Runtimes, q # r, Works(q)'
    PROVE  Works(q) /\ fence' = fence
<1>1. Keeps(q) /\ q \in Live
  BY StepFacts DEF TypeInv, Works, Live
<1>2. CASE fence' = fence
  BY <1>1, <1>2 DEF Works, Keeps, Linking
<1>3. CASE SetsFence(r)
  <2>1. fence'.gen >= 1 /\ fence'.gen = ctx[r].gen /\ pc[r] \in Placed /\ r \in Live
    BY <1>3 DEF SetsFence, Placed, Inside, Labels
  <2>2. pc[q] \in Placed
    BY <1>1 DEF Works, Keeps, Working
  <2>3. ctx[q].gen # ctx[r].gen
    BY <1>1, <2>1, <2>2 DEF FenceInv, Generation
  <2>4. ctx[q] # fence'
    BY <2>1, <2>3
  <2> QED
    BY <1>1, <2>1, <2>4 DEF Works, Keeps, Linking, NoFence
<1> QED
  BY <1>2, <1>3, FenceStep

\* A call comes to work by reading the fence or by setting it.
LEMMA OwnWorks ==
    ASSUME TypeInv, FenceInv, NEW r \in Runtimes, StepOf(r), strayed' = {}, Works(r)'
    PROVE  \/ Works(r) /\ owed' = owed /\ holder' = holder
           \/ UseFence(r)
           \/ SetsFence(r)
<1>1. r \in Live /\ r \in Live' /\ pc'[r] \in Working
  BY StepFacts DEF TypeInv, Works, Live
<1>2. CASE fence' = fence
  <2>1. CASE ClaimMigrate(r)
    BY <1>1, <1>2, <2>1, Migrates DEF Works, Linking, Working, Placed, Inside, Labels
  <2> QED
    BY <1>1, <1>2, <2>1, OwnRoute DEF Works
<1> QED
  BY <1>2, FenceStep

\* A call that starts to work, or sets the fence, is the only one that works.
LEMMA NoOtherWorks ==
    ASSUME TypeInv, FenceInv, NEW r \in Runtimes, StepOf(r), strayed' = {},
           UseFence(r) \/ SetsFence(r)
    PROVE  \A q \in Runtimes \ {r} : ~Works(q)'
<1> SUFFICES ASSUME NEW q \in Runtimes, q # r, Works(q)'
             PROVE  FALSE
  OBVIOUS
<1>1. Works(q) /\ fence' = fence /\ q \in Live
  BY OtherWorks DEF Works
<1>2. CASE UseFence(r)
  BY <1>1, <1>2, HistoryGrows DEF FenceInv, Rights, TypeInv
<1>3. CASE SetsFence(r)
  <2>1. r \in Live /\ pc[r] \in Placed /\ fence.gen = ctx[r].gen
    BY <1>1, <1>3 DEF SetsFence, Placed, Inside, Labels
  <2>2. pc[r] # "rotate"
    BY <2>1 DEF FenceInv, Generation, Fresh
  <2>3. Works(r)
    BY <1>3, <2>1, <2>2 DEF SetsFence, FenceInv, Rights, Working
  <2> QED
    BY <1>1, <2>3 DEF FenceInv, OneWorks
<1> QED
  BY <1>2, <1>3

\* At most one call can succeed.
LEMMA NextOneWorks ==
    ASSUME TypeInv, FenceInv, NEW r \in Runtimes, StepOf(r), strayed' = {}
    PROVE  OneWorks'
<1> SUFFICES ASSUME NEW p \in Runtimes, NEW q \in Runtimes, p # q, Works(p)', Works(q)'
             PROVE  FALSE
  BY DEF OneWorks
<1>1. CASE p # r /\ q # r
  BY <1>1, OtherWorks DEF FenceInv, OneWorks
<1>2. ASSUME NEW s \in Runtimes, s # r, Works(s)', Works(r)'  PROVE FALSE
  <2>1. Works(s)
    BY <1>2, OtherWorks
  <2>2. Works(r)
    BY <1>2, OwnWorks, NoOtherWorks
  <2> QED
    BY <1>2, <2>1, <2>2 DEF FenceInv, OneWorks
<1> QED
  BY <1>1, <1>2

\* A call that uses the fence it reads neither links nor replaces it.
LEMMA UseRoute ==
    ASSUME TypeInv, NEW r \in Runtimes, UseFence(r)
    PROVE  /\ ctx'[r] = fence /\ fence' = fence /\ pc[r] = "prepare" /\ pc'[r] \in Ops
           /\ first'[r] <=> fence = NoFence
           /\ pc'[r] = op[r] /\ op' = op /\ files' = files /\ markers' = markers
           /\ log' = log /\ acked' = acked /\ mem' = mem /\ holder' = holder
           /\ ~Linking(r)' /\ ~Fresh(r)'
<1>1. TypeOK /\ op[r] \in Ops
  BY DEF TypeInv, TypeOK
<1>2. /\ ctx'[r] = fence /\ fence' = fence /\ pc[r] = "prepare" /\ pc'[r] = op[r]
      /\ first'[r] <=> fence = NoFence
      /\ op' = op /\ files' = files /\ markers' = markers
      /\ log' = log /\ acked' = acked /\ mem' = mem /\ holder' = holder
  BY <1>1, Shape DEF UseFence, Goto, At, disk
<1> QED
  BY <1>1, <1>2 DEF Ops, Linking, Fresh

\* Publishing a fence leaves what is owed.
LEMMA PublishOwes ==
    ASSUME TypeInv, NEW r \in Runtimes, StepOf(r), pc[r] = "publish"
    PROVE  owed' = owed
<1> USE Shape DEF At, Goto, Raise, history, TypeInv
<1>1. CASE \E o \in Ops : Begin(r, o)
  BY <1>1 DEF Begin
<1>2. CASE Acquire(r) \/ Reclaim(r) \/ Timeout(r) \/ UseFence(r) \/ CopyEpoch(r) \/ Return(r)
           \/ Crash(r) \/ Rotate(r)
  BY <1>2 DEF Acquire, Reclaim, Timeout, UseFence, CopyEpoch, Return, Crash, Rotate
<1>3. CASE ClaimRead(r) \/ ClaimCreate(r) \/ ClaimMigrate(r) \/ PublishFence(r)
           \/ CommitFence(r) \/ TakeoverRead(r) \/ TakeoverCut(r) \/ TakeoverReplace(r)
  BY <1>3 DEF ClaimRead, ClaimCreate, ClaimMigrate, PublishFence, CommitFence,
       TakeoverRead, TakeoverCut, TakeoverReplace
<1>4. CASE AppendCheck(r) \/ AppendRead(r) \/ AppendWrite(r) \/ AppendPost(r)
           \/ BeatRead(r) \/ BeatWrite(r) \/ ReleaseRead(r) \/ RetireRead(r)
           \/ Mark(r) \/ Unlink(r)
  BY <1>4 DEF AppendCheck, AppendRead, AppendWrite, AppendPost, BeatRead,
       BeatWrite, ReleaseRead, RetireRead, Mark, Unlink
<1> QED
  BY <1>1, <1>2, <1>3, <1>4
  DEF StepOf, LockStep, ClaimStep, TakeoverStep, AppendStep, UpkeepStep

\* How the lock changes hands, and when a rotation stays owed.
LEMMA LockMoves ==
    ASSUME TypeInv, FenceInv, NEW r \in Runtimes, StepOf(r), strayed' = {}
    PROVE  /\ \/ holder' = holder
              \/ holder = Nobody /\ holder' = r /\ pc'[r] = "prepare"
              \/ holder = r /\ holder' = Nobody /\ pc'[r] \in {"idle", "gone"}
              \/ holder' = Nobody /\ owed'
           /\ ~owed' => ~owed \/ SetsFence(r)
           /\ nextGen' \in {nextGen, nextGen + 1}
<1>0. TypeOK
  BY DEF TypeInv
<1> USE <1>0, Shape DEF At, Goto, Raise, Unlock, history
<1>1. CASE \E o \in Ops : Begin(r, o)
  BY <1>1 DEF Begin
<1>2. CASE Acquire(r) \/ Reclaim(r) \/ Timeout(r) \/ UseFence(r) \/ CopyEpoch(r) \/ Return(r)
           \/ Crash(r)
  BY <1>2 DEF Acquire, Reclaim, Timeout, UseFence, CopyEpoch, Return, Crash
<1>3. CASE Rotate(r)
  <2>1. CASE fence' = fence
    <3>1. ctx[r].gen # fence.gen
      BY <1>3 DEF Rotate, FenceInv, Generation, Fresh, Placed, Inside, Labels, Live
    <3>2. first[r] /\ fence # NoFence
      BY <1>3, <2>1, <3>1 DEF Rotate
    <3> QED
      BY <1>3, <3>2 DEF Rotate
  <2>2. CASE SetsFence(r)
    BY <1>3, <2>2 DEF SetsFence, Rotate
  <2> QED
    BY <2>1, <2>2, FenceStep
<1>4. CASE ClaimRead(r) \/ ClaimCreate(r) \/ ClaimMigrate(r) \/ PublishFence(r)
           \/ CommitFence(r) \/ TakeoverRead(r) \/ TakeoverCut(r) \/ TakeoverReplace(r)
  BY <1>4 DEF ClaimRead, ClaimCreate, ClaimMigrate, PublishFence, CommitFence,
       TakeoverRead, TakeoverCut, TakeoverReplace
<1>5. CASE AppendCheck(r) \/ AppendRead(r) \/ AppendWrite(r) \/ AppendPost(r)
           \/ BeatRead(r) \/ BeatWrite(r) \/ ReleaseRead(r) \/ RetireRead(r)
           \/ Mark(r) \/ Unlink(r)
  BY <1>5 DEF AppendCheck, AppendRead, AppendWrite, AppendPost, BeatRead,
       BeatWrite, ReleaseRead, RetireRead, Mark, Unlink
<1> QED
  BY <1>1, <1>2, <1>3, <1>4, <1>5
  DEF StepOf, LockStep, ClaimStep, TakeoverStep, AppendStep, UpkeepStep

\* Until a lock is reclaimed, the holder alone can succeed.
LEMMA NextRights ==
    ASSUME TypeInv, FenceInv, NEW r \in Runtimes, StepOf(r), strayed' = {}, NEW q \in Live'
    PROVE  Rights(q)'
<1>0. q \in Runtimes /\ q \in Live /\ Nobody \notin Runtimes
  BY StepFacts, LeaseAssumption DEF TypeInv, Live
<1>1. ASSUME Works(q)', ~owed'  PROVE holder' = q
  <2>1. CASE q # r
    <3>1. Works(q) /\ fence' = fence
      BY <1>0, <1>1, <2>1, OtherWorks
    <3>2. ~owed
      <4>1. ~SetsFence(r)
        BY <1>0, <1>1, <2>1, NoOtherWorks
      <4> QED
        BY <1>1, <4>1, LockMoves
    <3>3. holder = q
      BY <1>0, <3>1, <3>2 DEF FenceInv, Rights
    <3> QED
      BY <1>0, <1>1, <2>1, <3>3, LockMoves
  <2>2. CASE q = r
    <3>1. CASE Works(r) /\ owed' = owed /\ holder' = holder
      BY <1>0, <1>1, <2>2, <3>1 DEF FenceInv, Rights
    <3>2. CASE UseFence(r)
      BY <2>2, <3>2, HistoryGrows DEF UseFence, TypeInv
    <3>3. CASE SetsFence(r)
      <4>1. CASE holder = r
        BY <2>2, <3>3, <4>1 DEF SetsFence
      <4>2. CASE Linking(r) /\ Works(r)
        <5>1. ~owed
          BY <1>1, <4>2, PublishOwes DEF Linking
        <5> QED
          BY <1>0, <2>2, <3>3, <4>2, <5>1 DEF FenceInv, Rights, SetsFence
      <4> QED
        BY <3>3, <4>1, <4>2 DEF SetsFence
    <3> QED
      BY <1>1, <2>2, <3>1, <3>2, <3>3, OwnWorks
  <2> QED
    BY <2>1, <2>2
<1>2. ASSUME holder' = q, pc'[q] \in Working  PROVE Works(q)'
  <2>1. CASE q # r
    <3>1. holder = q /\ pc[q] \in Working /\ Keeps(q)
      BY <1>0, <1>2, <2>1, LockMoves, StepFacts DEF Keeps, TypeInv
    <3>2. Works(q)
      BY <1>0, <3>1 DEF FenceInv, Rights
    <3>3. ~SetsFence(r)
      BY <1>0, <2>1, <3>1, <3>2 DEF SetsFence, FenceInv, OneWorks
    <3>4. fence' = fence
      BY <3>3, FenceStep
    <3> QED
      BY <3>1, <3>2, <3>4 DEF Works, Keeps, Linking
  <2>2. CASE q = r
    <3>1. CASE SetsFence(r)
      BY <1>2, <2>2, <3>1 DEF SetsFence, Works
    <3>2. CASE fence' = fence
      <4>1. CASE UseFence(r)
        BY <1>0, <1>2, <2>2, <4>1, UseRoute DEF Works
      <4>2. CASE ClaimMigrate(r)
        <5>1. holder = r /\ Works(r)
          BY <1>0, <1>2, <2>2, <4>2, Migrates DEF FenceInv, Rights, Working, Placed, Inside, Labels
        <5> QED
          BY <1>0, <1>2, <2>2, <3>2, <4>2, <5>1, Migrates DEF Works, Linking
      <4>3. CASE /\ pc[r] \in Working /\ ctx'[r] = ctx[r] /\ first'[r] = first[r]
                 /\ Linking(r)' <=> Linking(r)
                 /\ holder' = holder /\ owed' = owed
        <5>1. Works(r)
          BY <1>0, <1>2, <2>2, <4>3 DEF FenceInv, Rights
        <5> QED
          BY <1>2, <2>2, <3>2, <4>3, <5>1 DEF Works
      <4> QED
        BY <1>0, <1>2, <2>2, <3>2, <4>1, <4>2, <4>3, OwnRoute
    <3> QED
      BY <3>1, <3>2, FenceStep
  <2> QED
    BY <2>1, <2>2
<1> QED
  BY <1>1, <1>2 DEF Rights

-----------------------------------------------------------------------------
(* The generations and the files *)

\* A call that is inside has the generation it had, or the next one.
LEMMA PlacedRoute ==
    ASSUME TypeInv, FenceInv, NEW r \in Runtimes, StepOf(r), strayed' = {},
           r \in Live', pc'[r] \in Placed
    PROVE  /\ \/ UseFence(r)
              \/ /\ CopyEpoch(r) \/ (ClaimMigrate(r) /\ first[r])
                 /\ ctx'[r].gen = nextGen /\ nextGen' = nextGen + 1
              \/ pc[r] \in Placed /\ ctx'[r].gen = ctx[r].gen
           /\ pc'[r] = "rotate" => CopyEpoch(r)
<1>0. TypeOK /\ r \in Live
  BY StepFacts DEF TypeInv
<1> USE <1>0, Shape DEF At, Goto, Raise, local, history, Working, Placed, Inside, Labels
<1>1. CASE CopyEpoch(r)
  BY <1>1 DEF CopyEpoch
<1>2. CASE SetsFence(r)
  <2>1. pc'[r] # "rotate"
    BY <1>2 DEF SetsFence
  <2> QED
    BY <1>2, <2>1 DEF SetsFence
<1>3. CASE fence' = fence /\ pc'[r] # "rotate"
  <2>1. CASE ClaimMigrate(r)
    <3>1. ctx'[r].gen = IF first[r] THEN nextGen ELSE ctx[r].gen
      BY <2>1, Migrates
    <3>2. pc[r] = "create" /\ nextGen' = IF first[r] THEN nextGen + 1 ELSE nextGen
      BY <2>1, Migrates
    <3> QED
      BY <1>3, <2>1, <3>1, <3>2
  <2> QED
    BY <1>3, <2>1, OwnRoute
<1>4. CASE pc'[r] = "rotate" /\ ~CopyEpoch(r)
  <2> USE <1>4
  <2>1. CASE \E o \in Ops : Begin(r, o)
    BY <2>1 DEF Begin
  <2>2. CASE Acquire(r) \/ Reclaim(r) \/ Timeout(r) \/ Return(r) \/ Crash(r)
    BY <2>2 DEF Acquire, Reclaim, Timeout, Return, Crash, Live
  <2>3. CASE UseFence(r) \/ Rotate(r)
    BY <2>3 DEF UseFence, Rotate, TypeOK, Ops
  <2>4. CASE ClaimRead(r) \/ ClaimCreate(r) \/ ClaimMigrate(r) \/ PublishFence(r)
             \/ CommitFence(r) \/ TakeoverRead(r) \/ TakeoverCut(r) \/ TakeoverReplace(r)
    BY <2>4 DEF ClaimRead, ClaimCreate, ClaimMigrate, PublishFence, CommitFence,
         TakeoverRead, TakeoverCut, TakeoverReplace
  <2>5. CASE AppendCheck(r) \/ AppendRead(r) \/ AppendWrite(r) \/ AppendPost(r)
             \/ BeatRead(r) \/ BeatWrite(r) \/ ReleaseRead(r) \/ RetireRead(r)
             \/ Mark(r) \/ Unlink(r)
    BY <2>5 DEF AppendCheck, AppendRead, AppendWrite, AppendPost, BeatRead,
         BeatWrite, ReleaseRead, RetireRead, Mark, Unlink
  <2> QED
    BY <2>1, <2>2, <2>3, <2>4, <2>5
    DEF StepOf, LockStep, ClaimStep, TakeoverStep, AppendStep, UpkeepStep
<1> QED
  BY <1>1, <1>2, <1>3, <1>4, FenceStep

\* The generation a step leaves a call is no other live call's.
LEMMA OwnGeneration ==
    ASSUME TypeInv, FenceInv, NEW r \in Runtimes, StepOf(r), strayed' = {},
           r \in Live', pc'[r] \in Placed
    PROVE  /\ ctx'[r].gen < nextGen' /\ ctx'[r].gen \in Nat
           /\ \A q \in Live \ {r} : pc[q] \in Placed => ctx[q].gen # ctx'[r].gen
<1>0. TypeOK /\ r \in Live /\ \A q \in Live : Generation(q)
  BY StepFacts DEF TypeInv, FenceInv
<1>1. nextGen' >= nextGen /\ nextGen \in Nat /\ nextGen' \in Nat
  BY <1>0, Shape, LockMoves
<1>2. fence.gen \in Nat /\ fence.gen < nextGen /\ \A q \in Runtimes : ctx[q].gen \in Nat
  BY <1>0, LeaseAssumption DEF TypeOK, Fence, FenceInv, WellFormed
<1>3. \A q \in Live : pc[q] \in Placed => ctx[q].gen < nextGen
  BY <1>0 DEF Generation
<1>4. CASE UseFence(r)
  <2>1. ctx'[r] = fence
    BY <1>4, UseRoute
  <2>2. ASSUME NEW q \in Live \ {r}, pc[q] \in Placed, ctx[q].gen = fence.gen
        PROVE  FALSE
    <3>1. ~Fresh(q) /\ ctx[q] = fence
      <4>1. Generation(q) /\ q \in Runtimes
        BY <1>0, <2>2 DEF Live
      <4>2. ~Fresh(q)
        BY <2>2, <4>1 DEF Generation
      <4>3. ctx[q] = fence \/ ctx[q].gen < fence.gen
        BY <2>2, <4>1, <4>2 DEF Generation
      <4> QED
        BY <1>2, <2>2, <4>1, <4>2, <4>3
    <3>2. Works(q)
      BY <2>2, <3>1 DEF Works, Fresh, Working
    <3> QED
      BY <1>4, <2>2, <3>2, HistoryGrows, <1>0 DEF FenceInv, Rights
  <2> QED
    BY <1>1, <1>2, <2>1, <2>2
<1>5. CASE ctx'[r].gen = nextGen /\ nextGen' = nextGen + 1
  BY <1>1, <1>2, <1>3, <1>5
<1>6. CASE pc[r] \in Placed /\ ctx'[r].gen = ctx[r].gen
  <2>1. \A q \in Live \ {r} : pc[q] \in Placed => ctx[q].gen # ctx[r].gen
    BY <1>0, <1>6 DEF Generation
  <2> QED
    BY <1>0, <1>1, <1>2, <1>3, <1>6, <2>1 DEF Live
<1> QED
  BY <1>4, <1>5, <1>6, PlacedRoute

\* A step writes the file of its own generation only.
WritesFile(r, L) ==
    /\ r \in Live /\ r \in Live' /\ pc'[r] \in Placed
    /\ fence' = fence /\ holder' = holder
    /\ markers' = markers /\ log' = log /\ acked' = acked
    /\ L.owner = Nobody => L = Missing
    /\ files' \in [1..MaxGen -> Lease]
    /\ \A g \in 1..MaxGen : files'[g] = IF g = ctx'[r].gen THEN L ELSE files[g]

\* A step writes at most one epoch file, the one of its own generation.
LEMMA FilesStep ==
    ASSUME TypeInv, FenceInv, NEW r \in Runtimes, StepOf(r)
    PROVE  \/ files' = files
           \/ CopyEpoch(r) /\ WritesFile(r, Selected)
           \/ ClaimCreate(r) /\ WritesFile(r, [owner |-> r, hb |-> 0, retired |-> {}])
           \/ ClaimMigrate(r) /\ WritesFile(r, [owner |-> r, hb |-> 0, retired |-> {}])
           \/ TakeoverReplace(r) /\ WritesFile(r, Successor(r))
           \/ BeatWrite(r) /\ WritesFile(r, mem'[r])
           \/ Unlink(r) /\ WritesFile(r, Missing)
<1>0. TypeOK /\ TypeOK'
  <2>1. [Next]_vars
    BY DEF Next, StepOf
  <2> QED
    BY <2>1, NextTypeInv DEF TypeInv
<1>1. files' \in [1..MaxGen -> Lease] /\ Nobody \notin Runtimes
  BY <1>0, LeaseAssumption DEF TypeOK
<1> USE <1>0, Shape DEF At, Goto, Raise, Unlock, disk, local, Working, Placed, Inside, Labels
<1>2. CASE CopyEpoch(r)
  <2>1. Selected.owner = Nobody => Selected = Missing
    BY LeaseAssumption DEF FenceInv, WellFormed, Selected, LeaseAt, TypeOK, Fence
  <2>2. ctx'[r].gen = nextGen /\ files' = [files EXCEPT ![nextGen] = Selected]
    BY <1>2 DEF CopyEpoch, Selected
  <2> QED
    BY <1>1, <1>2, <2>1, <2>2 DEF CopyEpoch, WritesFile, Live
<1>3. CASE ClaimCreate(r) /\ files' # files
  BY <1>1, <1>3 DEF ClaimCreate, WritesFile, Live
<1>4. CASE ClaimMigrate(r)
  <2>1. r \in Live
    BY <1>4 DEF ClaimMigrate, Live
  <2>2. /\ files' = [files EXCEPT ![ctx'[r].gen] = [owner |-> r, hb |-> 0, retired |-> {}]]
        /\ pc'[r] = "publish"
    <3>1. ctx'[r].gen = IF first[r] THEN nextGen ELSE ctx[r].gen
      BY <1>4, <2>1, Migrates
    <3> QED
      BY <1>4, <2>1, <3>1, Migrates
  <2> QED
    BY <1>1, <1>4, <2>1, <2>2 DEF ClaimMigrate, WritesFile, Live
<1>5. CASE TakeoverReplace(r)
  BY <1>1, <1>5 DEF TakeoverReplace, WritesFile, Live, Successor
<1>6. CASE BeatWrite(r)
  <2>1. mem[r].owner = r
    BY <1>6 DEF BeatWrite, FenceInv, FitsOp, Live, HasLease, Holding
  <2>2. mem'[r].owner = r
    BY <1>6, <2>1 DEF BeatWrite
  <2> QED
    BY <1>1, <1>6, <2>2 DEF BeatWrite, WritesFile, Live
<1>7. CASE Unlink(r)
  BY <1>1, <1>7 DEF Unlink, WritesFile, Live
<1>8. CASE \E o \in Ops : Begin(r, o)
  BY <1>8 DEF Begin
<1>9. CASE Acquire(r) \/ Reclaim(r) \/ Timeout(r) \/ UseFence(r) \/ Return(r) \/ Crash(r) \/ Rotate(r)
  BY <1>9 DEF Acquire, Reclaim, Timeout, UseFence, Return, Crash, Rotate
<1>10. CASE ClaimRead(r) \/ PublishFence(r) \/ CommitFence(r) \/ TakeoverRead(r) \/ TakeoverCut(r)
  BY <1>10 DEF ClaimRead, PublishFence, CommitFence, TakeoverRead, TakeoverCut
<1>11. CASE AppendCheck(r) \/ AppendRead(r) \/ AppendWrite(r) \/ AppendPost(r)
           \/ BeatRead(r) \/ ReleaseRead(r) \/ RetireRead(r) \/ Mark(r)
  BY <1>11 DEF AppendCheck, AppendRead, AppendWrite, AppendPost, BeatRead,
       ReleaseRead, RetireRead, Mark
<1> QED
  BY <1>2, <1>3, <1>4, <1>5, <1>6, <1>7, <1>8, <1>9, <1>10, <1>11
  DEF StepOf, LockStep, ClaimStep, TakeoverStep, AppendStep, UpkeepStep

\* A rotation that can still succeed moves the fence up.
LEMMA NextCopyIsNew ==
    ASSUME TypeInv, FenceInv, NEW r \in Runtimes, StepOf(r), strayed' = {}
    PROVE  CopyIsNew'
<1> SUFFICES ASSUME Copying'
             PROVE  (fence.gen < ctx[holder].gen)'
  BY DEF CopyIsNew
<1>0. TypeOK /\ Nobody \notin Runtimes
  BY LeaseAssumption DEF TypeInv
<1> DEFINE h == holder'
<1>1. h \in Live' /\ h \in Runtimes /\ pc'[h] = "rotate" /\ ~(first'[h] /\ fence' # NoFence)
  BY DEF Copying, Live
<1> HIDE DEF h
<1>2. CASE h = r
  <2>1. CopyEpoch(r)
    <3>1. r \in Live' /\ pc'[r] \in Placed
      BY <1>1, <1>2 DEF Placed, Inside, Labels
    <3> QED
      BY <1>1, <1>2, <3>1, PlacedRoute
  <2>2. ctx'[r].gen = nextGen /\ fence' = fence
    BY <1>0, <2>1, Shape DEF CopyEpoch
  <2> QED
    BY <1>2, <2>2 DEF FenceInv, WellFormed, h
<1>3. CASE h # r
  <2>1. holder = h /\ Keeps(h) /\ h \in Live /\ pc[h] = "rotate"
    <3>1. holder = h
      BY <1>0, <1>1, <1>3, LockMoves DEF h
    <3> QED
      BY <1>0, <1>1, <1>3, <3>1, StepFacts DEF Keeps, Live
  <2>2. CASE fence' = fence
    <3>1. Copying
      BY <1>1, <2>1, <2>2 DEF Copying, Keeps
    <3> QED
      BY <2>1, <2>2, <3>1 DEF FenceInv, CopyIsNew, Keeps, h
  <2>3. CASE SetsFence(r)
    <3>1. fence = NoFence /\ fence' # NoFence
      BY <1>3, <2>1, <2>3 DEF SetsFence, Works, NoFence
    <3>2. ~first[h]
      BY <1>1, <2>1, <3>1 DEF Keeps
    <3> QED
      BY <2>1, <3>1, <3>2 DEF FenceInv, Generation, Placed, Inside, Labels
  <2> QED
    BY <2>2, <2>3, FenceStep
<1> QED
  BY <1>2, <1>3

\* The files stay well formed.
LEMMA NextWellFormed ==
    ASSUME TypeInv, FenceInv, NEW r \in Runtimes, StepOf(r), strayed' = {}
    PROVE  WellFormed'
<1>0. TypeOK /\ WellFormed
  BY DEF TypeInv, FenceInv
<1>1. nextGen' >= nextGen /\ nextGen \in Nat /\ nextGen' \in Nat /\ fence.gen \in Nat
  <2>1. nextGen' >= nextGen /\ nextGen \in Nat /\ nextGen' \in Nat
    BY <1>0, Shape, LockMoves
  <2>2. fence.gen \in Nat
    BY <1>0, LeaseAssumption DEF TypeOK, Fence
  <2> QED
    BY <2>1, <2>2
<1>2. /\ fence'.src = "epoch" => fence'.gen > 0
      /\ fence'.gen = 0 => fence' = NoFence
      /\ fence'.gen < nextGen'
  <2>1. CASE fence' = fence
    BY <1>0, <1>1, <2>1 DEF WellFormed
  <2>2. CASE SetsFence(r)
    <3>1. ctx[r].gen < nextGen /\ ctx[r].gen >= 1 /\ ctx[r].gen \in Nat /\ fence'.gen = ctx[r].gen
      <4>1. r \in Live /\ pc[r] \in Placed /\ Generation(r)
        BY <2>2 DEF SetsFence, FenceInv, Placed, Inside, Labels
      <4>2. ctx[r].gen \in Nat
        BY <1>0, <4>1, LeaseAssumption DEF TypeOK, Fence, Live
      <4> QED
        BY <2>2, <4>1, <4>2 DEF SetsFence, Generation
    <3> QED
      BY <1>1, <3>1
  <2> QED
    BY <2>1, <2>2, FenceStep
<1>3. \A g \in 1..MaxGen : files'[g].owner = Nobody => files'[g] = Missing
  <2>1. CASE files' = files
    BY <1>0, <2>1 DEF WellFormed
  <2>2. ASSUME NEW L, WritesFile(r, L)
        PROVE  \A g \in 1..MaxGen : files'[g].owner = Nobody => files'[g] = Missing
    BY <1>0, <2>2 DEF WellFormed, WritesFile
  <2> QED
    BY <2>1, <2>2, FilesStep
<1> QED
  BY <1>2, <1>3 DEF WellFormed

\* Another runtime's step keeps a call's generation in order, ...
LEMMA OthersGeneration ==
    ASSUME TypeInv, FenceInv, NEW r \in Runtimes, StepOf(r), strayed' = {},
           NEW q \in Live', q # r
    PROVE  Generation(q)'
<1>0. TypeOK /\ q \in Live /\ q \in Runtimes /\ Keeps(q) /\ Generation(q)
  BY StepFacts DEF TypeInv, FenceInv, Live
<1> SUFFICES ASSUME pc[q] \in Placed
             PROVE  Generation(q)'
  BY <1>0 DEF Generation, Keeps
<1>1. /\ nextGen' >= nextGen /\ nextGen \in Nat /\ nextGen' \in Nat
      /\ fence.gen \in Nat /\ \A p \in Runtimes : ctx[p].gen \in Nat
  <2>1. nextGen' >= nextGen /\ nextGen \in Nat /\ nextGen' \in Nat
    BY <1>0, Shape, LockMoves
  <2>2. fence.gen \in Nat /\ \A p \in Runtimes : ctx[p].gen \in Nat
    BY <1>0, LeaseAssumption DEF TypeOK, Fence
  <2> QED
    BY <2>1, <2>2
<1>2. Fresh(q)' <=> Fresh(q)
  BY <1>0 DEF Fresh, Linking, Keeps
<1>3. /\ Fresh(q) => ctx[q].gen # fence'.gen
      /\ ~Fresh(q) => ctx[q] = fence' \/ ctx[q].gen < fence'.gen
      /\ pc[q] = "rotate" /\ ~first[q] => fence' # NoFence
  <2>1. CASE fence' = fence
    BY <1>0, <2>1 DEF Generation
  <2>2. CASE SetsFence(r)
    <3>1. /\ r \in Live /\ pc[r] \in Placed /\ fence'.gen = ctx[r].gen /\ ctx[r].gen >= 1
          /\ fence.gen <= ctx[r].gen /\ ctx[r].gen \in Nat
      BY <1>1, <2>2 DEF SetsFence, Placed, Inside, Labels
    <3>2. ctx[q].gen # ctx[r].gen
      BY <1>0, <3>1 DEF FenceInv, Generation
    <3>3. ~Fresh(q) => ctx[q].gen <= fence.gen
      BY <1>0, <1>1 DEF Generation
    <3>4. fence' # NoFence
      BY <3>1 DEF NoFence
    <3> QED
      BY <1>0, <1>1, <3>1, <3>2, <3>3, <3>4
  <2> QED
    BY <2>1, <2>2, FenceStep
<1>4. \A p \in Live' \ {q} : pc'[p] \in Placed => ctx'[p].gen # ctx[q].gen
  <2>1. ASSUME NEW p \in Live' \ {q}, p # r, pc'[p] \in Placed
        PROVE  ctx'[p].gen # ctx[q].gen
    <3>1. Keeps(p) /\ p \in Live
      BY <1>0, <2>1, StepFacts DEF Live
    <3> QED
      BY <1>0, <2>1, <3>1 DEF Keeps, Generation
  <2>2. ASSUME r \in Live', pc'[r] \in Placed
        PROVE  ctx'[r].gen # ctx[q].gen
    BY <1>0, <2>2, OwnGeneration
  <2> QED
    BY <2>1, <2>2
<1>5. pc[q] \in {"publish", "commit"} => files'[ctx[q].gen] = files[ctx[q].gen]
  <2>1. CASE files' = files
    BY <2>1
  <2>2. ASSUME NEW L, WritesFile(r, L), pc[q] \in {"publish", "commit"}
        PROVE  files'[ctx[q].gen] = files[ctx[q].gen]
    <3>1. ctx'[r].gen # ctx[q].gen
      BY <1>0, <2>2, OwnGeneration DEF WritesFile
    <3>2. ctx[q].gen \in 1..MaxGen
      <4>1. ctx[q].gen >= 1 /\ ctx[q] \in Fence
        BY <1>0, <2>2 DEF Generation, TypeOK
      <4> QED
        BY <4>1, LeaseAssumption DEF Fence
    <3> QED
      BY <2>2, <3>1, <3>2 DEF WritesFile
  <2> QED
    BY <2>1, <2>2, FilesStep
<1>6. ctx[q].gen < nextGen'
  BY <1>0, <1>1 DEF Generation
<1> QED
  BY <1>0, <1>2, <1>3, <1>4, <1>5, <1>6 DEF Generation, Keeps

\* ... and so does its own.
LEMMA OwnNextGeneration ==
    ASSUME TypeInv, FenceInv, NEW r \in Runtimes, StepOf(r), strayed' = {}, r \in Live'
    PROVE  Generation(r)'
<1> SUFFICES ASSUME pc'[r] \in Placed
             PROVE  Generation(r)'
  BY DEF Generation
<1>0. TypeOK /\ r \in Live
  BY StepFacts DEF TypeInv
<1>1. /\ ctx'[r].gen < nextGen' /\ ctx'[r].gen \in Nat
      /\ \A q \in Live' \ {r} : pc'[q] \in Placed => ctx'[q].gen # ctx'[r].gen
  <2>1. ASSUME NEW q \in Live' \ {r}, pc'[q] \in Placed
        PROVE  ctx'[q].gen # ctx'[r].gen
    <3>1. Keeps(q) /\ q \in Live
      BY <1>0, <2>1, StepFacts DEF Live
    <3> QED
      BY <2>1, <3>1, OwnGeneration DEF Keeps
  <2> QED
    BY <2>1, OwnGeneration
<1>2. WellFormed' /\ WellFormed
  BY NextWellFormed DEF FenceInv
<1>3. CASE UseFence(r)
  <2>1. /\ ctx'[r] = fence' /\ pc'[r] \in Ops /\ (first'[r] <=> ctx'[r] = NoFence)
        /\ ~Fresh(r)'
    BY <1>3, UseRoute
  <2> QED
    BY <1>1, <1>2, <2>1 DEF Generation, WellFormed, Ops
<1>4. CASE CopyEpoch(r)
  <2>1. /\ ctx'[r].gen = nextGen /\ fence' = fence /\ pc'[r] = "rotate"
        /\ first'[r] <=> fence = NoFence
    BY <1>0, <1>4, Shape DEF CopyEpoch, Goto
  <2>2. nextGen >= 1 /\ nextGen # fence.gen
    BY <1>0, <1>2, Shape, LeaseAssumption DEF WellFormed, TypeOK, Fence
  <2> QED
    BY <1>1, <2>1, <2>2 DEF Generation, Fresh, Linking
<1>5. CASE SetsFence(r)
  <2>1. /\ ctx'[r] = fence' /\ ctx'[r].gen >= 1 /\ pc'[r] \in Ops \cup {"return"}
        /\ pc'[r] # "return" => ~first'[r]
    BY <1>5 DEF SetsFence
  <2>2. ctx'[r] # NoFence
    BY <2>1 DEF NoFence
  <2> QED
    BY <1>1, <2>1, <2>2 DEF Generation, Fresh, Linking, Ops
<1>6. CASE ClaimMigrate(r)
  <2> DEFINE gen == IF first[r] THEN nextGen ELSE ctx[r].gen
  <2>1. /\ pc[r] = "create" /\ pc'[r] = "publish" /\ first' = first /\ fence' = fence
        /\ gen \in 1..MaxGen /\ ctx'[r].gen = gen /\ ctx'[r] = [gen |-> gen, src |-> "legacy"]
        /\ first[r] => ctx[r] = NoFence
        /\ ~first[r] => ctx'[r] = ctx[r]
    BY <1>0, <1>6, Migrates
  <2>2. ctx'[r].src = "legacy" /\ gen \in Nat \ {0}
    BY <2>1, LeaseAssumption
  <2>3. files'[gen] = cur'[r] /\ cur'[r] = [owner |-> r, hb |-> 0, retired |-> {}]
    <3>1. files' = [files EXCEPT ![gen] = [owner |-> r, hb |-> 0, retired |-> {}]]
          /\ cur'[r] = [owner |-> r, hb |-> 0, retired |-> {}]
      BY <1>0, <1>6, Migrates
    <3> QED
      BY <1>0, <2>1, <3>1, Shape
  <2>4. Generation(r)
    BY <1>0 DEF FenceInv
  <2>5. Fresh(r)' => ctx'[r].gen # fence'.gen
    <3>1. Fresh(r)' => first[r]
      BY <2>1 DEF Fresh, Linking
    <3>2. first[r] => nextGen # fence.gen
      BY <1>0, <1>2, Shape, LeaseAssumption DEF WellFormed, TypeOK, Fence
    <3> QED
      BY <2>1, <3>1, <3>2
  <2>6. ~Fresh(r)' => ctx'[r] = fence' \/ ctx'[r].gen < fence'.gen
    <3>1. ~Fresh(r)' => ~first[r]
      BY <2>1 DEF Fresh, Linking
    <3>2. ctx[r] = fence \/ ctx[r].gen < fence.gen
      BY <2>1, <2>4 DEF Generation, Fresh, Linking, Placed, Inside, Labels
    <3> QED
      BY <2>1, <3>1, <3>2
  <2> HIDE DEF gen
  <2> QED
    BY <1>1, <2>1, <2>2, <2>3, <2>5, <2>6 DEF Generation
<1>7. CASE /\ fence' = fence /\ pc[r] \in Working /\ ctx'[r] = ctx[r] /\ first'[r] = first[r]
           /\ Linking(r)' <=> Linking(r)
           /\ pc'[r] \in Working
           /\ pc'[r] # "publish"
           /\ pc'[r] = "commit" =>
                pc[r] = "publish" /\ ~first[r] /\ files' = files /\ cur' = cur
           /\ pc'[r] \notin {"commit", "return"} =>
                pc[r] \notin {"publish", "commit", "return"}
  <2>1. Generation(r) /\ pc[r] \in Placed /\ pc[r] # "rotate" /\ pc'[r] # "rotate"
    BY <1>0, <1>7 DEF FenceInv, Working
  <2>2. Fresh(r)' <=> Fresh(r)
    BY <1>7, <2>1 DEF Fresh
  <2> QED
    BY <1>1, <1>7, <2>1, <2>2 DEF Generation
<1>8. CASE fence' = fence /\ pc'[r] \in Working
  BY <1>0, <1>3, <1>6, <1>7, <1>8, OwnRoute
<1>9. CASE pc'[r] = "rotate"
  BY <1>4, <1>9, PlacedRoute
<1> QED
  BY <1>5, <1>8, <1>9, FenceStep DEF Working

\* What protects the run is inductive as long as no call strays.
LEMMA NextFenceInv ==
    ASSUME TypeInv, FenceInv, NEW r \in Runtimes, StepOf(r), strayed' = {}
    PROVE  FenceInv'
<1>1. ASSUME NEW q \in Live'
      PROVE  FitsOp(q)' /\ Generation(q)' /\ Rights(q)'
  <2>0. TypeOK /\ q \in Live /\ q \in Runtimes
    BY StepFacts DEF TypeInv, Live
  <2>1. FitsOp(q)'
    <3>1. CASE q = r
      BY <2>0, <3>1, OwnFitsOp DEF FenceInv
    <3>2. CASE q # r
      BY <2>0, <3>2, StepFacts DEF FenceInv, Keeps, FitsOp, HasLease
    <3> QED
      BY <3>1, <3>2
  <2>2. Generation(q)'
    <3>1. CASE q = r
      BY <3>1, OwnNextGeneration
    <3>2. CASE q # r
      BY <3>2, OthersGeneration
    <3> QED
      BY <3>1, <3>2
  <2> QED
    BY <2>1, <2>2, NextRights
<1> QED
  BY <1>1, NextWellFormed, NextOneWorks, NextCopyIsNew DEF FenceInv

\* What a live call can do from the labels at which it may set the fence.
LEMMA RotateOnly ==
    ASSUME TypeInv, NEW r \in Runtimes, StepOf(r), SetsFence(r), pc[r] = "rotate"
    PROVE  Rotate(r)
<1> USE Shape DEF At, TypeInv, Live, SetsFence
<1>1. ~\E o \in Ops : Begin(r, o)
  BY DEF Begin
<1>2. ~(Acquire(r) \/ Timeout(r) \/ UseFence(r) \/ CopyEpoch(r) \/ Return(r) \/ Crash(r)
        \/ Reclaim(r))
  BY DEF Acquire, Reclaim, Timeout, UseFence, CopyEpoch, Return, Crash
<1>3. ~(ClaimStep(r) \/ TakeoverStep(r))
  BY DEF ClaimStep, TakeoverStep, ClaimRead, ClaimCreate, ClaimMigrate, PublishFence,
       CommitFence, TakeoverRead, TakeoverCut, TakeoverReplace
<1>4. ~(AppendStep(r) \/ UpkeepStep(r))
  BY DEF AppendStep, UpkeepStep, AppendCheck, AppendRead, AppendWrite, AppendPost, BeatRead,
       BeatWrite, ReleaseRead, RetireRead, Mark, Unlink
<1> QED
  BY <1>1, <1>2, <1>3, <1>4 DEF StepOf, LockStep

\* ... and to what it sets it.
LEMMA PublishOnly ==
    ASSUME TypeInv, NEW r \in Runtimes, StepOf(r), SetsFence(r),
           pc[r] \in {"publish", "commit"}
    PROVE  /\ PublishFence(r) \/ CommitFence(r)
           /\ fence' = EpochOf(ctx[r])
<1> USE Shape DEF At, TypeInv, Live, SetsFence
<1>1. ~\E o \in Ops : Begin(r, o)
  BY DEF Begin
<1>2. ~(LockStep(r) \/ Crash(r))
  BY DEF LockStep, Acquire, Reclaim, Timeout, UseFence, CopyEpoch, Return, Crash, Rotate
<1>3. ~(ClaimRead(r) \/ ClaimCreate(r) \/ ClaimMigrate(r) \/ TakeoverStep(r))
  BY DEF TakeoverStep, ClaimRead, ClaimCreate, ClaimMigrate, TakeoverRead, TakeoverCut,
       TakeoverReplace
<1>4. ~(AppendStep(r) \/ UpkeepStep(r))
  BY DEF AppendStep, UpkeepStep, AppendCheck, AppendRead, AppendWrite, AppendPost, BeatRead,
       BeatWrite, ReleaseRead, RetireRead, Mark, Unlink
<1>5. PublishFence(r) \/ CommitFence(r)
  BY <1>1, <1>2, <1>3, <1>4 DEF StepOf, ClaimStep
<1>6. pc'[r] = "return"
  OBVIOUS
<1> QED
  BY <1>5, <1>6 DEF PublishFence, CommitFence, Goto, Raise

-----------------------------------------------------------------------------
(* What one step does to the two leases *)

\* No other runtime writes the file a call works on.
LEMMA OtherFile ==
    ASSUME TypeInv, FenceInv, NEW r \in Runtimes, StepOf(r), strayed' = {},
           NEW q \in Live', q # r, pc[q] \in Placed
    PROVE  LeaseAt(ctx[q])' = LeaseAt(ctx[q])
<1>0. TypeOK /\ q \in Live /\ q \in Runtimes /\ Keeps(q)
  BY StepFacts DEF TypeInv, Live
<1>1. ctx[q].gen \in 0..MaxGen
  BY <1>0 DEF TypeOK, Fence
<1>2. CASE files' = files
  BY <1>0, <1>2 DEF LeaseAt, Keeps
<1>3. ASSUME NEW L, WritesFile(r, L)
      PROVE  LeaseAt(ctx[q])' = LeaseAt(ctx[q])
  <2>1. ctx'[r].gen # ctx[q].gen
    BY <1>0, <1>3, OwnGeneration DEF WritesFile
  <2>2. ctx[q].gen > 0 => files'[ctx[q].gen] = files[ctx[q].gen]
    BY <1>1, <1>3, <2>1, LeaseAssumption DEF WritesFile
  <2> QED
    BY <1>0, <2>2 DEF LeaseAt, Keeps
<1> QED
  BY <1>2, <1>3, FilesStep

\* What the selected lease looks like.
LEMMA SelectedFile ==
    ASSUME TypeInv, FenceInv
    PROVE  /\ Selected.owner \in Runtimes \cup {Nobody} /\ Selected.retired \subseteq Retirement
           /\ Selected.owner = Nobody => Selected = Missing
           /\ Selected.owner # Nobody => fence.src = "epoch"
           /\ fence.src = "epoch" => fence.gen \in 1..MaxGen /\ Selected = files[fence.gen]
           /\ fence.src # "epoch" => Selected = Missing
           /\ fence.gen \in Nat
           /\ Missing.owner = Nobody /\ Missing.retired = {}
<1>1. fence.gen \in 0..MaxGen /\ fence.src \in {"legacy", "epoch"}
  BY DEF TypeInv, TypeOK, Fence
<1>2. Missing.owner = Nobody /\ Missing.retired = {}
  BY DEF Missing
<1>3. Selected \in Lease
  BY Records DEF Selected, TypeInv, TypeOK
<1>4. fence.src = "epoch" => fence.gen \in 1..MaxGen /\ Selected = files[fence.gen]
  BY <1>1, LeaseAssumption DEF FenceInv, WellFormed, Selected, LeaseAt
<1>5. fence.src # "epoch" => Selected = Missing
  BY DEF Selected, LeaseAt
<1> QED
  BY <1>1, <1>2, <1>3, <1>4, <1>5, LeaseAssumption DEF Lease, FenceInv, WellFormed

\* The copy of the rotation under way stays what it is, or the rotation ends.
LEMMA CopiedStep ==
    ASSUME TypeInv, FenceInv, NEW r \in Runtimes, StepOf(r), strayed' = {}
    PROVE  \/ Copied' = Selected'
           \/ Copying /\ Copied' = Copied /\ holder # r /\ holder' = holder
<1> SUFFICES ASSUME Copying'
             PROVE  \/ Copied' = Selected'
                    \/ Copying /\ Copied' = Copied /\ holder # r /\ holder' = holder
  BY DEF Copied
<1>0. TypeOK /\ Nobody \notin Runtimes
  BY LeaseAssumption DEF TypeInv
<1>1. PICK h \in Runtimes : h = holder'
  BY DEF Copying, Live
<1>2. h \in Live' /\ pc'[h] = "rotate" /\ ~(first'[h] /\ fence' # NoFence)
  BY <1>1 DEF Copying
<1>3. CASE h = r
  <2>1. CopyEpoch(r)
    <3>1. r \in Live' /\ pc'[r] \in Placed
      BY <1>2, <1>3 DEF Placed, Inside, Labels
    <3> QED
      BY <1>2, <1>3, <3>1, PlacedRoute
  <2>2. /\ ctx'[r] = [gen |-> nextGen, src |-> fence.src] /\ fence' = fence
        /\ files' = [files EXCEPT ![nextGen] = Selected] /\ nextGen \in 1..MaxGen
        /\ nextGen # fence.gen
    BY <1>0, <2>1, Shape, LeaseAssumption DEF CopyEpoch, Selected, FenceInv, WellFormed
  <2>3. Selected' = Selected
    BY <1>0, <2>2, Shape, SelectedFile DEF Selected, LeaseAt
  <2>4. LeaseAt(ctx[r])' = Selected
    BY <1>0, <2>2, Shape, SelectedFile DEF LeaseAt
  <2>5. Copied' = LeaseAt(ctx[r])'
    BY <1>1, <1>3 DEF Copied, LeaseAt
  <2> QED
    BY <2>3, <2>4, <2>5
<1>4. CASE h # r
  <2>1. holder = h
    BY <1>0, <1>1, <1>4, LockMoves
  <2>2. Keeps(h) /\ h \in Live /\ pc[h] = "rotate"
    BY <1>0, <1>2, <1>4, StepFacts DEF Keeps, Live
  <2>3. Copying
    <3>1. CASE fence' = fence
      BY <1>2, <2>1, <2>2, <3>1 DEF Copying, Keeps
    <3>2. CASE SetsFence(r)
      <4>1. fence = NoFence
        BY <1>4, <2>1, <3>2 DEF SetsFence, Works
      <4> QED
        BY <2>1, <2>2, <4>1 DEF Copying
    <3> QED
      BY <3>1, <3>2, FenceStep
  <2>4. LeaseAt(ctx[h])' = LeaseAt(ctx[h])
    BY <1>2, <1>4, <2>2, OtherFile DEF Placed, Inside, Labels
  <2>5. Copied = LeaseAt(ctx[h]) /\ Copied' = LeaseAt(ctx[h])'
    BY <1>1, <2>1, <2>3 DEF Copied, LeaseAt
  <2> QED
    BY <1>1, <1>4, <2>1, <2>3, <2>4, <2>5
<1> QED
  BY <1>3, <1>4

\* A call that can succeed replaces the selected lease.
Replaces(r) ==
    /\ Works(r) /\ r \in Live' /\ pc[r] \notin {"return", "rotate"} /\ pc'[r] = "return"
    /\ op' = op /\ op[r] # "append" /\ holder' = holder
    /\ UNCHANGED <<markers, log, acked, crashed>>
    /\ \/ /\ op[r] = "claim" /\ Selected = Missing /\ ~HasLease(r)
          /\ Selected' = [owner |-> r, hb |-> 0, retired |-> {}]
          /\ cur'[r] = Selected' /\ mem' = mem
       \/ /\ op[r] = "takeover" /\ Selected = cur[r] /\ ~HasLease(r)
          /\ acked \subseteq 1..pos[r] /\ pos[r] <= Len(log)
          /\ Selected' = Successor(r)
          /\ cur'[r] = Selected' /\ mem' = mem
       \/ /\ op[r] = "beat" /\ Selected.owner = r /\ HasLease(r)
          /\ Selected' = mem'[r] /\ mem'[r].owner = r /\ mem'[r].retired = mem[r].retired
       \/ /\ op[r] \in {"release", "retire"} /\ Selected = cur[r]
          /\ cur[r].retired \subseteq markers
          /\ op[r] = "release" => cur[r].owner = r /\ HasLease(r)
          /\ op[r] = "retire" => cur[r].owner \in crashed /\ ~HasLease(r)
          /\ Selected' = Missing /\ mem' = mem

\* The selected lease changes by a rotation to its copy, or by a call that works.
LEMMA SelectedStep ==
    ASSUME TypeInv, FenceInv, NEW r \in Runtimes, StepOf(r), strayed' = {},
           r \in Live => Asked(r) /\ Answers(r)
    PROVE  \/ fence' = fence /\ Selected' = Selected
           \/ /\ SetsFence(r) /\ pc[r] = "rotate" /\ Copying /\ holder = r
              /\ Selected' = Copied /\ UNCHANGED <<markers, log, acked>>
           \/ Replaces(r)
<1>0. TypeOK /\ Nobody \notin Runtimes
  BY LeaseAssumption DEF TypeInv
<1> USE <1>0, Shape, SelectedFile
<1>1. ASSUME r \in Live, ~Works(r), pc[r] \in {"create", "replace", "rewrite", "unlink"}
      PROVE  ctx[r].gen < fence.gen
  <2>1. pc[r] \in Placed /\ ~Fresh(r) /\ ~Linking(r) /\ pc[r] \in Working
    BY <1>1 DEF Placed, Working, Inside, Labels, Fresh, Linking
  <2> QED
    BY <1>1, <2>1 DEF FenceInv, Generation, Works
<1>2. ASSUME NEW L, WritesFile(r, L), ctx'[r].gen # fence.gen
      PROVE  Selected' = Selected
  BY <1>2 DEF WritesFile, Selected, LeaseAt
<1>3. ASSUME NEW L, WritesFile(r, L), Works(r), Selected.owner # Nobody \/ fence.src = "epoch",
             ctx'[r] = ctx[r], ~Linking(r)
      PROVE  Selected' = L
  <2>1. fence.src = "epoch" /\ fence.gen \in 1..MaxGen /\ ctx[r] = fence
    BY <1>3 DEF Works
  <2> QED
    BY <1>3, <2>1, LeaseAssumption DEF WritesFile, Selected, LeaseAt
<1>4. CASE files' = files
  <2>1. CASE fence' = fence
    BY <1>4, <2>1 DEF Selected, LeaseAt
  <2>2. CASE SetsFence(r) /\ pc[r] = "rotate"
    <3>1. Rotate(r)
      BY <2>2, RotateOnly
    <3>2. /\ fence' = ctx[r] /\ ~(first[r] /\ fence # NoFence)
          /\ holder = r /\ UNCHANGED <<markers, log, acked>>
      BY <2>2, <3>1 DEF Rotate, SetsFence, Goto, Raise, Linking
    <3>3. Copying
      BY <2>2, <3>2 DEF Copying, SetsFence
    <3>4. Selected' = Copied
      BY <1>4, <3>2, <3>3 DEF Selected, LeaseAt, Copied
    <3> QED
      BY <2>2, <3>2, <3>3, <3>4
  <2>3. CASE SetsFence(r) /\ pc[r] \in {"publish", "commit"}
    <3>1. /\ PublishFence(r) \/ CommitFence(r)
          /\ fence' = EpochOf(ctx[r])
      BY <2>3, PublishOnly
    <3>2. Works(r) /\ op[r] = "claim" /\ ~HasLease(r)
      BY <2>3 DEF SetsFence, FenceInv, Rights, FitsOp, Holding, Working, Placed, Inside, Labels
    <3>3. /\ op' = op /\ mem' = mem /\ cur' = cur
          /\ UNCHANGED <<markers, log, acked, crashed>>
      BY <3>1 DEF PublishFence, CommitFence
    <3>4. /\ Selected = Missing /\ ctx[r].gen >= 1 /\ ctx[r] \in Fence
          /\ files[ctx[r].gen] = cur[r] /\ cur[r] = [owner |-> r, hb |-> 0, retired |-> {}]
      BY <2>3, <3>2 DEF SetsFence, Answers, FenceInv, Generation, Placed, Inside, Labels, TypeOK
    <3>5. EpochOf(ctx[r]).src = "epoch" /\ EpochOf(ctx[r]).gen = ctx[r].gen /\ ctx[r].gen > 0
      BY <3>4, LeaseAssumption DEF EpochOf, Fence
    <3>6. Selected' = [owner |-> r, hb |-> 0, retired |-> {}]
      BY <1>4, <3>1, <3>4, <3>5 DEF Selected, LeaseAt
    <3> QED
      BY <2>3, <3>2, <3>3, <3>4, <3>6 DEF Replaces, SetsFence
  <2> QED
    BY <2>1, <2>2, <2>3, FenceStep DEF SetsFence
<1>5. CASE CopyEpoch(r) /\ WritesFile(r, Selected)
  BY <1>2, <1>5 DEF CopyEpoch, FenceInv, WellFormed, WritesFile
<1>6. CASE ClaimCreate(r) /\ WritesFile(r, [owner |-> r, hb |-> 0, retired |-> {}])
  <2> DEFINE L == [owner |-> r, hb |-> 0, retired |-> {}]
  <2>1. /\ pc[r] = "create" /\ ctx[r].src = "epoch" /\ ctx' = ctx /\ r \in Live
        /\ r \in Live' /\ fence' = fence /\ holder' = holder
    BY <1>6 DEF ClaimCreate, At, WritesFile
  <2>2. CASE ~Works(r)
    BY <1>1, <1>2, <1>6, <2>1, <2>2
  <2>3. CASE Works(r) /\ files' # files
    <3>1. fence.src = "epoch" /\ Selected = Missing /\ ~Linking(r)
      BY <2>1, <2>3 DEF Works, Linking, Answers
    <3>2. Selected' = L
      BY <1>3, <1>6, <2>1, <2>3, <3>1
    <3>3. /\ pc'[r] = "return" /\ cur'[r] = L /\ op' = op /\ mem' = mem /\ crashed' = crashed
          /\ UNCHANGED <<markers, log, acked>>
      BY <1>6, <2>3 DEF ClaimCreate, Goto
    <3>4. op[r] = "claim" /\ ~HasLease(r)
      BY <2>1 DEF FenceInv, FitsOp, Holding
    <3> QED
      BY <2>1, <2>3, <3>1, <3>2, <3>3, <3>4 DEF Replaces
  <2> QED
    BY <1>4, <2>2, <2>3
<1>7. CASE ClaimMigrate(r) /\ WritesFile(r, [owner |-> r, hb |-> 0, retired |-> {}])
  <2>1. /\ r \in Live /\ pc[r] = "create" /\ ctx[r].src = "legacy" /\ fence' = fence
        /\ ctx'[r].gen = IF first[r] THEN nextGen ELSE ctx[r].gen
    BY <1>7, Migrates DEF WritesFile, ClaimMigrate, At
  <2>2. CASE ctx'[r].gen # fence.gen
    BY <1>2, <1>7, <2>1, <2>2
  <2>3. CASE ctx'[r].gen = fence.gen
    <3>1. ctx[r].gen = fence.gen /\ pc[r] \in Placed /\ ~Fresh(r)
      BY <2>1, <2>3 DEF FenceInv, WellFormed, Fresh, Linking, Placed, Inside, Labels
    <3>2. ctx[r] = fence \/ ctx[r].gen < fence.gen
      BY <2>1, <3>1 DEF FenceInv, Generation
    <3>3. ctx[r] = fence
      BY <3>1, <3>2
    <3> QED
      BY <2>1, <3>3 DEF Selected, LeaseAt
  <2> QED
    BY <2>2, <2>3
<1>8. CASE TakeoverReplace(r) /\ WritesFile(r, Successor(r))
  <2>1. /\ pc[r] = "replace" /\ ctx' = ctx /\ r \in Live /\ op[r] = "takeover" /\ ~HasLease(r)
        /\ r \in Live' /\ fence' = fence /\ holder' = holder
        /\ pc'[r] = "return" /\ cur'[r] = Successor(r) /\ op' = op /\ mem' = mem
        /\ UNCHANGED <<markers, log, acked, crashed>>
    BY <1>8 DEF TakeoverReplace, At, WritesFile, Goto, FenceInv, FitsOp, Holding
  <2>2. CASE ~Works(r)
    BY <1>1, <1>2, <1>8, <2>1, <2>2
  <2>3. CASE Works(r)
    <3>1. /\ Selected = cur[r] /\ cur[r].owner \in Runtimes /\ ~Linking(r)
          /\ acked \subseteq 1..pos[r] /\ pos[r] <= Len(log)
      BY <2>1, <2>3 DEF Linking, Answers, TypeInv
    <3>2. Selected' = Successor(r)
      BY <1>3, <1>8, <2>1, <2>3, <3>1
    <3> QED
      BY <2>1, <2>3, <3>1, <3>2 DEF Replaces
  <2> QED
    BY <2>2, <2>3
<1>9. CASE BeatWrite(r) /\ WritesFile(r, mem'[r])
  <2>1. /\ pc[r] = "rewrite" /\ ctx' = ctx /\ r \in Live /\ op[r] = "beat" /\ HasLease(r)
        /\ r \in Live' /\ fence' = fence /\ holder' = holder
        /\ pc'[r] = "return" /\ op' = op
        /\ mem'[r].owner = mem[r].owner /\ mem'[r].retired = mem[r].retired
        /\ UNCHANGED <<markers, log, acked, crashed>>
    BY <1>9 DEF BeatWrite, At, WritesFile, Goto, FenceInv, FitsOp, Holding
  <2>2. CASE ~Works(r)
    BY <1>1, <1>2, <1>9, <2>1, <2>2
  <2>3. CASE Works(r)
    <3>1. Selected.owner = r /\ ~Linking(r)
      BY <2>1, <2>3 DEF Linking, Answers
    <3>2. Selected' = mem'[r]
      <4>1. PICK L : L = mem'[r]
        OBVIOUS
      <4> QED
        BY <1>3, <1>9, <2>1, <2>3, <3>1, <4>1
    <3> QED
      BY <2>1, <2>3, <3>1, <3>2 DEF Replaces, HasLease
  <2> QED
    BY <2>2, <2>3
<1>10. CASE Unlink(r) /\ WritesFile(r, Missing)
  <2>1. /\ pc[r] = "unlink" /\ ctx' = ctx /\ r \in Live /\ op[r] \in {"release", "retire"}
        /\ HasLease(r) <=> op[r] = "release"
        /\ r \in Live' /\ fence' = fence /\ holder' = holder
        /\ pc'[r] = "return" /\ op' = op /\ mem' = mem
        /\ UNCHANGED <<markers, log, acked, crashed>>
    BY <1>10 DEF Unlink, At, WritesFile, Goto, FenceInv, FitsOp, Holding, local
  <2>2. CASE ~Works(r)
    BY <1>1, <1>2, <1>10, <2>1, <2>2
  <2>3. CASE Works(r)
    <3>1. /\ Selected = cur[r] /\ ~Linking(r) /\ cur[r].retired \subseteq markers
          /\ op[r] = "release" => cur[r].owner = r
          /\ op[r] = "retire" => cur[r].owner \in crashed
      BY <2>1, <2>3 DEF Linking, Answers, Asked
    <3>2. Selected.owner # Nobody
      BY <2>1, <3>1 DEF TypeOK
    <3>3. Selected' = Missing
      BY <1>3, <1>10, <2>1, <2>3, <3>1, <3>2
    <3> QED
      BY <2>1, <2>3, <3>1, <3>3 DEF Replaces
  <2> QED
    BY <2>2, <2>3
<1> QED
  BY <1>4, <1>5, <1>6, <1>7, <1>8, <1>9, <1>10, FilesStep

\* Both are leases.
LEMMA CandidateLease ==
    ASSUME TypeOK, NEW L, L \in {Selected, Copied}
    PROVE  L \in Lease
BY Records DEF Selected, Copied, Copying, Live, TypeOK

-----------------------------------------------------------------------------
(* The log under the two leases *)

\* Markers, log and acknowledgements grow one entry at a time.
LEMMA DiskStep ==
    ASSUME TypeOK, NEW r \in Runtimes, StepOf(r)
    PROVE  /\ \/ markers' = markers
              \/ /\ r \in Live /\ pc[r] = "mark" /\ markers \subseteq markers'
                 /\ markers' \subseteq markers \cup cur[r].retired
                 /\ log' = log /\ acked' = acked
           /\ \/ log' = log
              \/ r \in Live /\ pc[r] = "write" /\ log' = Append(log, r) /\ acked' = acked
           /\ \/ acked' = acked
              \/ /\ r \in Live /\ pc[r] = "return" /\ op[r] = "append" /\ fence = ctx[r]
                 /\ acked' = acked \cup {pos[r]}
<1> USE Shape DEF At, Goto, Raise, disk, Live
<1>1. CASE \E o \in Ops : Begin(r, o)
  BY <1>1 DEF Begin
<1>2. CASE Acquire(r) \/ Reclaim(r) \/ Timeout(r) \/ UseFence(r) \/ CopyEpoch(r) \/ Return(r)
           \/ Crash(r) \/ Rotate(r)
  BY <1>2 DEF Acquire, Reclaim, Timeout, UseFence, CopyEpoch, Return, Crash, Rotate
<1>3. CASE ClaimRead(r) \/ ClaimCreate(r) \/ ClaimMigrate(r) \/ PublishFence(r)
           \/ CommitFence(r) \/ TakeoverRead(r) \/ TakeoverCut(r) \/ TakeoverReplace(r)
  BY <1>3 DEF ClaimRead, ClaimCreate, ClaimMigrate, PublishFence, CommitFence,
       TakeoverRead, TakeoverCut, TakeoverReplace
<1>4. CASE AppendCheck(r) \/ AppendRead(r) \/ AppendWrite(r) \/ AppendPost(r)
           \/ BeatRead(r) \/ BeatWrite(r) \/ ReleaseRead(r) \/ RetireRead(r)
           \/ Unlink(r)
  BY <1>4 DEF AppendCheck, AppendRead, AppendWrite, AppendPost, BeatRead,
       BeatWrite, ReleaseRead, RetireRead, Unlink
<1>5. CASE Mark(r)
  BY <1>5 DEF Mark
<1> QED
  BY <1>1, <1>2, <1>3, <1>4, <1>5
  DEF StepOf, LockStep, ClaimStep, TakeoverStep, AppendStep, UpkeepStep

\* Mirroring a cutoff to a marker leaves the cutoffs in force under either lease.
LEMMA KnownKept ==
    ASSUME TypeInv, RunInv, NEW r \in Runtimes, StepOf(r), NEW L, L \in {Selected, Copied}
    PROVE  Known(L)' = Known(L)
<1>1. r \in Live /\ pc[r] = "mark" => cur[r].retired \subseteq Known(L)
  BY DEF RunInv, Suits
<1> QED
  BY <1>1, DiskStep DEF Known, TypeInv

\* Under a lease that stays, the log keeps its meaning.
LEMMA KeptSound ==
    ASSUME TypeInv, FenceInv, RunInv, NEW r \in Runtimes, StepOf(r), strayed' = {},
           NEW L, L \in {Selected, Copied}
    PROVE  Sound(L)'
<1>0. /\ TypeOK /\ Sound(L) /\ acked \subseteq 1..Len(log) /\ Len(log) \in Nat
      /\ log \in Seq(Runtimes)
  BY Shape DEF TypeInv, RunInv
<1>1. Known(L)' = Known(L)
  BY KnownKept
<1>2. CASE log' = log /\ acked' = acked
  BY <1>0, <1>1, <1>2 DEF Sound, Kept, Succession, Latest, AuthoritativeIn
<1>3. CASE r \in Live /\ pc[r] = "write" /\ log' = Append(log, r) /\ acked' = acked
  <2>1. L.owner = r \/ RetiredIn(r, Known(L))
    BY <1>3 DEF RunInv, Suits
  <2>2. /\ Len(log') = Len(log) + 1 /\ log'[Len(log) + 1] = r
        /\ \A n \in 1..Len(log) : log'[n] = log[n]
    BY <1>0, <1>3
  <2>3. \A n \in 1..Len(log) :
          AuthoritativeIn(n, Known(L))' <=> AuthoritativeIn(n, Known(L))
    BY <1>1, <2>2 DEF AuthoritativeIn
  <2>4. \A t \in Known(L) : t.upto <= Len(log)
    BY <1>0 DEF Sound
  <2>5. ASSUME NEW n \in Nat, n = Len(log) + 1, AuthoritativeIn(n, Known(L))',
               RetiredIn(r, Known(L))
        PROVE  FALSE
    <3>1. PICK t \in Known(L) : t.owner = r
      BY <2>5 DEF RetiredIn
    <3>2. n <= t.upto /\ t.upto <= Len(log)
      BY <1>1, <2>2, <2>4, <2>5, <3>1 DEF AuthoritativeIn
    <3>3. t.upto \in Nat
      <4>1. L.retired \subseteq Retirement
        BY <1>0, CandidateLease DEF Lease
      <4> QED
        BY <1>0, <4>1, LeaseAssumption DEF Known, TypeOK, Retirement
    <3> QED
      BY <1>0, <2>5, <3>2, <3>3
  <2>6. Kept(L)'
    BY <1>0, <1>3, <2>3 DEF Sound, Kept
  <2>7. Succession(L)'
    <3> SUFFICES ASSUME NEW i \in 1..Len(log'), NEW j \in 1..Len(log'), NEW k \in 1..Len(log'),
                        i < j, j < k, log'[i] = log'[k],
                        AuthoritativeIn(i, Known(L))', AuthoritativeIn(j, Known(L))',
                        AuthoritativeIn(k, Known(L))'
                 PROVE  log'[j] = log'[i]
      BY DEF Succession
    <3>1. i \in 1..Len(log) /\ j \in 1..Len(log)
      BY <1>0, <2>2
    <3>2. CASE k \in 1..Len(log)
      <4>1. AuthoritativeIn(i, Known(L)) /\ AuthoritativeIn(j, Known(L)) /\ AuthoritativeIn(k, Known(L))
        BY <2>3, <3>1, <3>2
      <4> QED
        BY <1>0, <2>2, <3>1, <3>2, <4>1 DEF Sound, Succession
    <3>3. CASE k = Len(log) + 1
      <4>1. L.owner = r
        BY <1>0, <2>1, <2>5, <3>3
      <4>2. AuthoritativeIn(i, Known(L)) /\ AuthoritativeIn(j, Known(L)) /\ log[i] = r
        BY <2>2, <2>3, <3>1, <3>3
      <4> QED
        BY <1>0, <2>2, <3>1, <4>1, <4>2 DEF Sound, Latest
    <3> QED
      BY <1>0, <2>2, <3>2, <3>3
  <2>8. Latest(L)'
    <3> SUFFICES ASSUME NEW i \in 1..Len(log'), NEW j \in 1..Len(log'),
                        i < j, log'[i] = L.owner,
                        AuthoritativeIn(i, Known(L))', AuthoritativeIn(j, Known(L))'
                 PROVE  log'[j] = L.owner
      BY DEF Latest
    <3>1. i \in 1..Len(log)
      BY <1>0, <2>2
    <3>2. CASE j \in 1..Len(log)
      <4>1. AuthoritativeIn(i, Known(L)) /\ AuthoritativeIn(j, Known(L)) /\ log[i] = L.owner
        BY <2>2, <2>3, <3>1, <3>2
      <4> QED
        BY <1>0, <2>2, <3>1, <3>2, <4>1 DEF Sound, Latest
    <3>3. CASE j = Len(log) + 1
      BY <1>0, <2>1, <2>2, <2>5, <3>3
    <3> QED
      BY <1>0, <2>2, <3>2, <3>3
  <2>9. \A t \in Known(L)' : t.upto <= Len(log')
    <3>1. \A t \in Known(L) : t.upto \in Nat
      <4>1. L.retired \subseteq Retirement
        BY <1>0, CandidateLease DEF Lease
      <4> QED
        BY <1>0, <4>1, LeaseAssumption DEF Known, TypeOK, Retirement
    <3> QED
      BY <1>0, <1>1, <2>2, <2>4, <3>1
  <2> QED
    BY <2>6, <2>7, <2>8, <2>9 DEF Sound
<1>4. CASE /\ r \in Live /\ pc[r] = "return" /\ op[r] = "append" /\ fence = ctx[r]
           /\ acked' = acked \cup {pos[r]} /\ log' = log
  <2>1. Works(r)
    BY <1>4 DEF Works, Linking, Working, Placed, Inside, Labels
  <2>2. /\ ~RetiredIn(r, Known(Selected)) /\ Copied = Selected
        /\ pos[r] \in 1..Len(log) /\ log[pos[r]] = r
    BY <1>4, <2>1 DEF RunInv, Answers, Asked
  <2>3. L = Selected
    BY <2>2
  <2>4. AuthoritativeIn(pos[r], Known(L))
    BY <2>2, <2>3 DEF AuthoritativeIn, RetiredIn
  <2>5. Kept(L)'
    BY <1>0, <1>1, <1>4, <2>4 DEF Sound, Kept, AuthoritativeIn
  <2> QED
    BY <1>0, <1>1, <1>4, <2>5 DEF Sound, Succession, Latest, AuthoritativeIn
<1> QED
  BY <1>0, <1>2, <1>3, <1>4, DiskStep

\* The lease a working call writes keeps it as well.
LEMMA NewSound ==
    ASSUME TypeInv, FenceInv, RunInv, NEW r \in Runtimes, Replaces(r), NEW M, M = Selected'
    PROVE  Sound(M)'
<1>0. /\ TypeOK /\ Sound(Selected) /\ Asked(r) /\ Suits(Selected, r) /\ r \in Live
      /\ log \in Seq(Runtimes) /\ Nobody \notin Runtimes /\ Len(log) \in Nat
      /\ acked \subseteq 1..Len(log)
  BY Shape, LeaseAssumption DEF TypeInv, RunInv, Replaces, Works
<1>1. UNCHANGED <<markers, log, acked>>
  BY DEF Replaces
<1>2. SUFFICES Sound(M)
  BY <1>1 DEF Sound, Kept, Succession, Latest, Known, AuthoritativeIn
<1>3. ~HasLease(r) => \A n \in 1..Len(log) : log[n] # r
  BY <1>0 DEF Asked
<1>4. ASSUME M.owner = r, ~HasLease(r)
      PROVE  Latest(M)
  BY <1>3, <1>4 DEF Latest
<1>5. CASE /\ op[r] = "claim" /\ Selected = Missing /\ ~HasLease(r)
           /\ Selected' = [owner |-> r, hb |-> 0, retired |-> {}]
  <2>1. M.owner = r /\ M.retired = {} /\ Selected.retired = {}
    BY <1>5 DEF Missing
  <2>2. Known(M) = Known(Selected)
    BY <2>1 DEF Known
  <2> QED
    BY <1>0, <1>4, <1>5, <2>1, <2>2 DEF Sound, Kept, Succession
<1>6. CASE /\ op[r] = "takeover" /\ Selected = cur[r] /\ ~HasLease(r)
           /\ acked \subseteq 1..pos[r] /\ pos[r] <= Len(log)
           /\ Selected' = Successor(r)
  <2> DEFINE c == [owner |-> cur[r].owner, upto |-> pos[r]]
  <2>1. M.owner = r /\ M.retired = Selected.retired \cup {c}
    BY <1>6 DEF Successor
  <2>2. Known(M) = Known(Selected) \cup {c} /\ c.upto = pos[r]
    BY <2>1 DEF Known
  <2> HIDE DEF c
  <2>3. \A n : AuthoritativeIn(n, Known(M)) => AuthoritativeIn(n, Known(Selected))
    BY <2>2 DEF AuthoritativeIn
  <2>4. Kept(M)
    BY <1>0, <1>6, <2>2 DEF Sound, Kept, AuthoritativeIn
  <2>5. Succession(M)
    BY <1>0, <2>3 DEF Sound, Succession
  <2> QED
    BY <1>0, <1>4, <1>6, <2>1, <2>2, <2>4, <2>5 DEF Sound
<1>7. CASE /\ op[r] = "beat" /\ Selected.owner = r /\ HasLease(r)
           /\ Selected' = mem'[r] /\ mem'[r].owner = r /\ mem'[r].retired = mem[r].retired
  <2>1. M.owner = Selected.owner /\ M.retired = Selected.retired
    BY <1>0, <1>7 DEF Suits
  <2>2. Known(M) = Known(Selected)
    BY <2>1 DEF Known
  <2> QED
    BY <1>0, <2>1, <2>2 DEF Sound, Kept, Succession, Latest
<1>8. CASE op[r] \in {"release", "retire"} /\ Selected = cur[r] /\ cur[r].retired \subseteq markers
           /\ Selected' = Missing
  <2>1. M.owner = Nobody /\ M.retired = {}
    BY <1>8 DEF Missing
  <2>2. Known(M) = Known(Selected)
    BY <1>8, <2>1 DEF Known
  <2>3. Latest(M)
    BY <1>0, <2>1 DEF Latest
  <2> QED
    BY <1>0, <2>2, <2>3 DEF Sound, Kept, Succession
<1> QED
  BY <1>5, <1>6, <1>7, <1>8 DEF Replaces

-----------------------------------------------------------------------------
(* How the leases suit the other runtimes *)

\* A lease that stays suits the other runtimes as it did.
LEMMA OthersSuit ==
    ASSUME TypeInv, FenceInv, RunInv, NEW r \in Runtimes, StepOf(r), strayed' = {},
           NEW L, L \in {Selected, Copied}, NEW q \in Live', q # r
    PROVE  Suits(L, q)'
<1>1. /\ q \in Live /\ Keeps(q) /\ Suits(L, q) /\ Known(L)' = Known(L)
  BY StepFacts, KnownKept DEF TypeInv, RunInv, Live
<1>2. pc[q] \in {"release", "retire"} => LeaseAt(ctx[q])' = LeaseAt(ctx[q])
  BY OtherFile DEF Placed, Inside, Labels
<1>3. HasLease(q)' <=> HasLease(q)
  BY <1>1 DEF Keeps, HasLease
<1>4. PICK N : N = Known(L)
  OBVIOUS
<1>5. Known(L)' = N
  BY <1>1, <1>4
<1>6. /\ pc'[q] = pc[q] /\ op'[q] = op[q] /\ cur'[q] = cur[q] /\ mem'[q] = mem[q]
  BY <1>1 DEF Keeps
<1> QED
  BY <1>1, <1>2, <1>3, <1>4, <1>5, <1>6 DEF Suits, RetiredIn

\* Replacing the selected lease leaves the other runtimes no right to write.
LEMMA OthersSuitNew ==
    ASSUME TypeInv, FenceInv, RunInv, NEW r \in Runtimes, StepOf(r), strayed' = {},
           Replaces(r), NEW M, M = Selected', NEW q \in Live', q # r
    PROVE  Suits(M, q)'
<1>0. /\ TypeOK /\ r \in Live /\ q \in Live /\ q \in Runtimes /\ Keeps(q) /\ Suits(Selected, q)
      /\ Suits(Selected, r) /\ Asked(r) /\ Asked(q) /\ FitsOp(q) /\ FitsOp(r)
      /\ Nobody \notin Runtimes /\ Selected \in Lease
  BY StepFacts, LeaseAssumption, SelectedFile, CandidateLease
  DEF TypeInv, RunInv, FenceInv, Live, Replaces, Works
<1>1. /\ pc'[q] = pc[q] /\ op'[q] = op[q] /\ cur'[q] = cur[q] /\ mem'[q] = mem[q]
  BY <1>0 DEF Keeps
<1>2. HasLease(q)' <=> HasLease(q)
  BY <1>1 DEF HasLease
<1>3. Known(M)' = Known(M)
  BY DEF Replaces, Known
<1>4. pc[q] \in {"release", "retire"} => LeaseAt(ctx[q])' = LeaseAt(ctx[q])
  BY OtherFile, <1>0 DEF Placed, Inside, Labels
<1>5. /\ Known(Selected) \subseteq Known(M) /\ M.owner # q
      /\ Selected.owner = q => RetiredIn(q, Known(M))
      /\ RetiredIn(q, Known(M)) => RetiredIn(q, Known(Selected)) \/ Selected.owner = q
  <2>1. CASE /\ op[r] = "claim" /\ Selected = Missing
             /\ Selected' = [owner |-> r, hb |-> 0, retired |-> {}]
    <3>1. M.owner = r /\ M.retired = {} /\ Selected.owner = Nobody /\ Selected.retired = {}
      BY <2>1 DEF Missing
    <3> QED
      BY <1>0, <3>1 DEF Known
  <2>2. CASE op[r] = "takeover" /\ Selected = cur[r] /\ Selected' = Successor(r)
    <3> DEFINE c == [owner |-> cur[r].owner, upto |-> pos[r]]
    <3>1. M.owner = r /\ M.retired = Selected.retired \cup {c} /\ c.owner = Selected.owner
      BY <2>2 DEF Successor
    <3> HIDE DEF c
    <3>2. Known(M) = Known(Selected) \cup {c}
      BY <3>1 DEF Known
    <3> QED
      BY <3>1, <3>2 DEF RetiredIn
  <2>3. CASE /\ op[r] = "beat" /\ Selected.owner = r /\ HasLease(r)
             /\ Selected' = mem'[r] /\ mem'[r].owner = r /\ mem'[r].retired = mem[r].retired
    <3>1. M.owner = r /\ M.retired = Selected.retired
      BY <1>0, <2>3 DEF Suits
    <3> QED
      BY <2>3, <3>1 DEF Known
  <2>4. CASE /\ op[r] \in {"release", "retire"} /\ Selected = cur[r]
             /\ cur[r].retired \subseteq markers
             /\ op[r] = "release" => cur[r].owner = r
             /\ op[r] = "retire" => cur[r].owner \in crashed
             /\ Selected' = Missing
    <3>1. M.owner = Nobody /\ M.retired = {} /\ Selected.owner # q
      BY <1>0, <2>4 DEF Missing, Live
    <3>2. Known(M) = Known(Selected)
      BY <2>4, <3>1 DEF Known
    <3> QED
      BY <1>0, <3>1, <3>2
  <2> QED
    BY <2>1, <2>2, <2>3, <2>4 DEF Replaces
<1>6. RetiredIn(q, Known(Selected)) => RetiredIn(q, Known(M))
  BY <1>5 DEF RetiredIn
<1>7. PICK N : N = Known(M)
  OBVIOUS
<1>8. Known(M)' = N
  BY <1>3, <1>7
<1> QED
  BY <1>0, <1>1, <1>2, <1>4, <1>5, <1>6, <1>7, <1>8 DEF Suits, RetiredIn

\* A lease that stays suits the runtime that took a step.
LEMMA OwnSuits ==
    ASSUME TypeInv, FenceInv, RunInv, NEW r \in Runtimes, StepOf(r), strayed' = {},
           NEW L, L \in {Selected, Copied}, r \in Live',
           Rotate(r) /\ pc'[r] # "idle" => L = Copied
    PROVE  Suits(L, r)'
<1>0. /\ TypeOK /\ r \in Live /\ pc[r] # "gone" /\ Suits(L, r) /\ Known(L)' = Known(L)
      /\ FitsOp(r) /\ Asked(r) /\ Aligned(r) /\ Nobody \notin Runtimes
  BY StepFacts, KnownKept, LeaseAssumption DEF TypeInv, RunInv, FenceInv
<1>1. PICK N : N = Known(L)
  OBVIOUS
<1>2. Known(L)' = N
  BY <1>0, <1>1
\* A step that begins none of the reads keeps what is known.
<1>3. ASSUME ~(pc'[r] \in {"read", "write", "release", "retire", "mark", "unlink"}),
             op' = op, mem'[r].owner = mem[r].owner, mem'[r].retired = mem[r].retired,
             pc[r] # "return",
             pc'[r] = "return" /\ op[r] \in {"claim", "takeover"} => ~HasLease(r)
      PROVE  Suits(L, r)'
  <2>1. HasLease(r)' <=> HasLease(r)
    BY <1>3 DEF HasLease
  <2> QED
    BY <1>0, <1>1, <1>2, <1>3, <2>1 DEF Suits, RetiredIn
<1>4. CASE \E o \in Ops : Begin(r, o)
  <2>1. pc'[r] = "want" /\ pc[r] = "idle" /\ mem' = mem
    BY <1>0, <1>4, Shape DEF Begin, Goto, At
  <2>2. HasLease(r)' <=> HasLease(r)
    BY <2>1 DEF HasLease
  <2> QED
    BY <1>0, <1>1, <1>2, <2>1, <2>2 DEF Suits, RetiredIn
<1>5. CASE Acquire(r) \/ Reclaim(r) \/ Timeout(r) \/ CopyEpoch(r)
           \/ ClaimRead(r) \/ TakeoverRead(r) \/ TakeoverCut(r) \/ BeatRead(r) \/ ClaimMigrate(r)
  <2>1. /\ pc'[r] \in {"want", "prepare", "idle", "rotate", "create", "cut", "replace",
                       "rewrite", "publish"}
        /\ op' = op /\ mem' = mem /\ pc[r] # "return"
    BY <1>0, <1>5, Shape
    DEF Acquire, Reclaim, Timeout, CopyEpoch, ClaimRead, TakeoverRead, TakeoverCut,
        BeatRead, ClaimMigrate, Goto, Raise, At, local
  <2> QED
    BY <1>3, <2>1
<1>6. CASE PublishFence(r) \/ CommitFence(r) \/ ClaimCreate(r) \/ TakeoverReplace(r)
  <2>1. /\ pc'[r] \in {"return", "commit", "gone", "idle"}
        /\ op' = op /\ mem' = mem
        /\ pc[r] \in {"publish", "commit", "create", "replace"}
    BY <1>0, <1>6, Shape
    DEF PublishFence, CommitFence, ClaimCreate, TakeoverReplace, Goto, Raise, At
  <2>2. ~HasLease(r)
    BY <1>0, <2>1 DEF FitsOp, Holding
  <2> QED
    BY <1>3, <2>1, <2>2
<1>7. CASE BeatWrite(r) \/ Unlink(r) \/ AppendPost(r)
  <2>1. /\ pc'[r] \in {"return", "idle"} /\ op' = op
        /\ pc[r] \in {"rewrite", "unlink", "post"}
        /\ mem'[r].owner = mem[r].owner /\ mem'[r].retired = mem[r].retired
    <3>1. pc'[r] \in {"return", "idle"} /\ op' = op /\ pc[r] \in {"rewrite", "unlink", "post"}
      BY <1>0, <1>7, Shape DEF BeatWrite, Unlink, AppendPost, Goto, Raise, At, local
    <3>2. ~Return(r)
      BY <3>1 DEF Return, At
    <3> QED
      BY <1>0, <3>1, <3>2, StepFacts DEF Steady
  <2>2. op[r] \notin {"claim", "takeover"}
    BY <1>0, <2>1 DEF FitsOp
  <2> QED
    BY <1>3, <2>1, <2>2
<1>8. CASE AppendCheck(r)
  <2>1. pc[r] = "append" /\ pc'[r] \in {"read", "idle"} /\ mem' = mem /\ op' = op
    BY <1>0, <1>8, Shape DEF AppendCheck, Goto, Raise, At, local
  <2>2. HasLease(r) /\ (HasLease(r)' <=> HasLease(r))
    BY <1>0, <2>1 DEF HasLease, FitsOp, Holding
  <2>3. pc'[r] = "read" => Selected.owner = r
    BY <1>0, <1>8, Shape DEF AppendCheck, MayWrite, Selected, Goto, Raise
  <2>4. pc'[r] = "read" => L.owner = r \/ RetiredIn(r, N)
    BY <1>0, <1>1, <2>1, <2>3 DEF Aligned
  <2> QED
    BY <1>0, <1>1, <1>2, <2>1, <2>2, <2>4 DEF Suits, RetiredIn
<1>9. CASE AppendRead(r) \/ AppendWrite(r)
  <2>1. /\ mem' = mem /\ op' = op
        /\ \/ pc[r] = "read" /\ pc'[r] = "write"
           \/ pc[r] = "write" /\ pc'[r] \in {"post", "append"}
    BY <1>0, <1>9, Shape DEF AppendRead, AppendWrite, Goto, At, local
  <2>2. HasLease(r) /\ (HasLease(r)' <=> HasLease(r))
    BY <1>0, <2>1 DEF HasLease, FitsOp, Holding
  <2> QED
    BY <1>0, <1>1, <1>2, <2>1, <2>2 DEF Suits, RetiredIn
<1>10. CASE UseFence(r)
  <2>1. /\ ctx'[r] = fence /\ fence' = fence /\ files' = files /\ mem' = mem /\ op' = op
        /\ pc[r] = "prepare" /\ pc'[r] \in Ops
    BY <1>0, <1>10, UseRoute DEF TypeInv
  <2>2. Copied = Selected
    BY <1>10, <2>1, HistoryGrows DEF TypeInv, Copied, Copying
  <2>3. LeaseAt(ctx[r])' = L
    BY <2>1, <2>2 DEF LeaseAt, Selected
  <2>4. HasLease(r)' <=> HasLease(r)
    BY <2>1 DEF HasLease
  <2>5. L.retired \subseteq N
    BY <1>1 DEF Known
  <2> QED
    BY <1>0, <1>1, <1>2, <2>1, <2>3, <2>4, <2>5 DEF Suits, RetiredIn, Ops
<1>11. CASE Rotate(r)
  <2>1. CASE pc'[r] = "idle"
    BY <1>3, <1>0, <1>11, <2>1 DEF Rotate, At
  <2>2. CASE pc'[r] # "idle"
    <3>1. /\ ctx' = ctx /\ files' = files /\ mem' = mem /\ op' = op /\ pc[r] = "rotate"
          /\ pc'[r] \in Ops /\ ~(first[r] /\ fence # NoFence)
      <4>1. op[r] \in Ops
        BY <1>0 DEF TypeOK
      <4> QED
        BY <1>0, <1>11, <2>2, <4>1, Shape DEF Rotate, Raise, Goto, At
    <3>2. holder = r
      BY <1>0, <1>11, <2>2, HistoryGrows
    <3>3. L = LeaseAt(ctx[r])
      BY <1>0, <1>11, <2>2, <3>1, <3>2 DEF Copied, Copying
    <3>4. LeaseAt(ctx[r])' = L
      BY <3>1, <3>3 DEF LeaseAt
    <3>5. HasLease(r)' <=> HasLease(r)
      BY <3>1 DEF HasLease
    <3>6. L.retired \subseteq N
      BY <1>1 DEF Known
    <3> QED
      BY <1>0, <1>1, <1>2, <3>1, <3>4, <3>5, <3>6 DEF Suits, RetiredIn, Ops
  <2> QED
    BY <2>1, <2>2
<1>12. CASE ReleaseRead(r) \/ RetireRead(r)
  <2>1. /\ cur'[r] = LeaseAt(ctx[r]) /\ pc[r] \in {"release", "retire"}
        /\ pc'[r] \in {"mark", "return"} /\ mem' = mem /\ op' = op
    BY <1>0, <1>12, Shape DEF ReleaseRead, RetireRead, Goto, At
  <2>2. op[r] \in {"release", "retire"} /\ (HasLease(r)' <=> HasLease(r))
    BY <1>0, <2>1 DEF HasLease, FitsOp
  <2>3. cur'[r].retired \subseteq N
    BY <1>0, <1>1, <2>1 DEF Suits
  <2> QED
    BY <1>0, <1>1, <1>2, <2>1, <2>2, <2>3 DEF Suits, RetiredIn
<1>13. CASE Mark(r)
  <2>1. /\ cur' = cur /\ mem' = mem /\ op' = op /\ pc[r] = "mark" /\ pc'[r] \in {"mark", "unlink"}
    BY <1>0, <1>13, Shape DEF Mark, Goto, At, local
  <2>2. HasLease(r)' <=> HasLease(r)
    BY <2>1 DEF HasLease
  <2> QED
    BY <1>0, <1>1, <1>2, <2>1, <2>2 DEF Suits, RetiredIn
<1>14. CASE Return(r)
  <2>1. /\ pc[r] = "return" /\ pc'[r] \in {"idle", "gone"} /\ op' = op
        /\ \/ mem'[r] = mem[r] /\ (op[r] \in {"claim", "takeover"} => pc'[r] = "gone")
           \/ op[r] \in {"claim", "takeover"} /\ mem'[r] = cur[r]
    BY <1>0, <1>14, Shape DEF Return, Goto, At
  <2>2. CASE mem'[r] = mem[r] /\ (op[r] \in {"claim", "takeover"} => pc'[r] = "gone")
    <3>1. HasLease(r)' <=> HasLease(r)
      BY <2>2 DEF HasLease
    <3> QED
      BY <1>0, <1>1, <1>2, <2>1, <2>2, <3>1 DEF Suits, RetiredIn
  <2>3. CASE op[r] \in {"claim", "takeover"} /\ mem'[r] = cur[r]
    <3>1. cur[r].owner = r
      BY <1>0, <2>1, <2>3 DEF Asked
    <3>2. HasLease(r)'
      BY <2>3, <3>1 DEF HasLease
    <3> QED
      BY <1>0, <1>1, <1>2, <2>1, <2>3, <3>2 DEF Suits, RetiredIn
  <2> QED
    BY <2>1, <2>2, <2>3
<1>15. CASE Crash(r)
  BY <1>15 DEF Crash, Live
<1> QED
  BY <1>4, <1>5, <1>6, <1>7, <1>8, <1>9, <1>10, <1>11, <1>12, <1>13, <1>14, <1>15
  DEF StepOf, LockStep, ClaimStep, TakeoverStep, AppendStep, UpkeepStep

\* The lease it writes suits it.
LEMMA OwnSuitsNew ==
    ASSUME TypeInv, FenceInv, RunInv, NEW r \in Runtimes, StepOf(r), Replaces(r),
           NEW M, M = Selected'
    PROVE  Suits(M, r)'
<1>0. /\ r \in Live /\ Suits(Selected, r) /\ pc'[r] = "return" /\ op' = op
      /\ pc[r] # "return" /\ pc[r] # "gone" /\ Known(M)' = Known(M) /\ Nobody \notin Runtimes
  BY StepFacts, LeaseAssumption DEF RunInv, Replaces, Works, Known, TypeInv
<1>1. PICK N : N = Known(M)
  OBVIOUS
<1>2. Known(M)' = N
  BY <1>0, <1>1
<1>3. CASE /\ op[r] \in {"claim", "takeover"} /\ ~HasLease(r) /\ cur'[r] = Selected' /\ mem' = mem
  <2>1. ~HasLease(r)'
    BY <1>3 DEF HasLease
  <2> QED
    BY <1>0, <1>2, <1>3, <2>1 DEF Suits, RetiredIn
<1>4. CASE op[r] = "beat" /\ Selected' = mem'[r] /\ mem'[r].owner = r
  <2>1. HasLease(r)'
    BY <1>4 DEF HasLease
  <2> QED
    BY <1>0, <1>2, <1>4, <2>1 DEF Suits, RetiredIn
<1>5. CASE /\ op[r] \in {"release", "retire"} /\ Selected = cur[r] /\ cur[r].retired \subseteq markers
           /\ op[r] = "release" => HasLease(r)
           /\ op[r] = "retire" => ~HasLease(r)
           /\ Selected' = Missing /\ mem' = mem
  <2>1. HasLease(r)' <=> HasLease(r)
    BY <1>5 DEF HasLease
  <2>2. M.owner = Nobody /\ M.retired = {}
    BY <1>5 DEF Missing
  <2>3. N = Known(Selected)
    BY <1>1, <1>5, <2>2 DEF Known
  <2> QED
    BY <1>0, <1>2, <1>5, <2>1, <2>2, <2>3 DEF Suits, RetiredIn
<1> QED
  BY <1>3, <1>4, <1>5 DEF Replaces

-----------------------------------------------------------------------------
(* What the calls read *)

\* Another runtime's step leaves true what a call read, ...
LEMMA OthersAsked ==
    ASSUME TypeInv, FenceInv, RunInv, NEW r \in Runtimes, StepOf(r),
           NEW q \in Live', q # r
    PROVE  Asked(q)'
<1>0. /\ TypeOK /\ q \in Live /\ q \in Runtimes /\ Keeps(q) /\ Asked(q) /\ crashed \subseteq crashed'
      /\ markers \subseteq markers' /\ log \in Seq(Runtimes) /\ Len(log) \in Nat
  BY StepFacts, DiskStep, Shape DEF TypeInv, RunInv, Live
<1>1. HasLease(q)' <=> HasLease(q)
  BY <1>0 DEF Keeps, HasLease
<1>2. /\ Len(log') \in Nat /\ Len(log) <= Len(log')
      /\ \A n \in 1..Len(log) : log'[n] = log[n]
      /\ \A n \in 1..Len(log') : n \in 1..Len(log) \/ log'[n] = r
  BY <1>0, DiskStep
<1>3. /\ pc'[q] = pc[q] /\ op'[q] = op[q] /\ cur'[q] = cur[q] /\ pos'[q] = pos[q]
  BY <1>0 DEF Keeps
<1>4. pos[q] \in 1..Len(log) => pos[q] \in 1..Len(log')
  BY <1>0, <1>2
<1> QED
  BY <1>0, <1>1, <1>2, <1>3, <1>4 DEF Asked

\* ... and its own step brings it only where it has found it true.
LEMMA OwnAsked ==
    ASSUME TypeInv, FenceInv, RunInv, NEW r \in Runtimes, StepOf(r), r \in Live'
    PROVE  Asked(r)'
<1>0. /\ TypeOK /\ r \in Live /\ pc[r] # "gone" /\ Asked(r) /\ FitsOp(r)
      /\ crashed \subseteq crashed' /\ log \in Seq(Runtimes) /\ Len(log) \in Nat
  BY StepFacts, Shape DEF TypeInv, RunInv, FenceInv, Live
<1>1. ~HasLease(r)' => \A n \in 1..Len(log') : log'[n] # r
  <2> SUFFICES ASSUME ~HasLease(r)'  PROVE \A n \in 1..Len(log') : log'[n] # r
    OBVIOUS
  <2>1. ~HasLease(r)
    <3>1. CASE Return(r)
      <4>1. /\ pc[r] = "return"
            /\ mem'[r] = mem[r] \/ op[r] \in {"claim", "takeover"}
        BY <1>0, <3>1, Shape DEF Return, At
      <4> QED
        BY <1>0, <4>1 DEF HasLease, FitsOp, Holding
    <3>2. CASE Steady
      BY <1>0, <3>2 DEF Steady, HasLease
    <3> QED
      BY <1>0, <3>1, <3>2, StepFacts
  <2>2. log' = log
    BY <1>0, <2>1, StepFacts DEF AppendWrite, At, FitsOp, Holding
  <2> QED
    BY <1>0, <2>1, <2>2 DEF Asked
\* A step that comes to none of the labels an answer is needed at.
<1>2. ASSUME pc'[r] \notin {"mark", "unlink", "return", "post"}
      PROVE  Asked(r)'
  BY <1>1, <1>2 DEF Asked
<1>3. CASE (\E o \in Ops : Begin(r, o)) \/ Acquire(r) \/ Reclaim(r) \/ Timeout(r) \/ CopyEpoch(r)
           \/ ClaimRead(r) \/ TakeoverRead(r) \/ TakeoverCut(r) \/ BeatRead(r) \/ ClaimMigrate(r)
           \/ AppendCheck(r) \/ AppendRead(r) \/ Return(r)
  <2>1. pc'[r] \notin {"mark", "unlink", "return", "post"}
    <3>1. CASE (\E o \in Ops : Begin(r, o)) \/ Acquire(r) \/ Reclaim(r) \/ Timeout(r)
               \/ CopyEpoch(r) \/ ClaimRead(r) \/ TakeoverRead(r)
      BY <1>0, <3>1, Shape
      DEF Begin, Acquire, Reclaim, Timeout, CopyEpoch, ClaimRead, TakeoverRead, Goto, Raise, At
    <3>2. CASE TakeoverCut(r) \/ BeatRead(r) \/ ClaimMigrate(r)
               \/ AppendCheck(r) \/ AppendRead(r) \/ Return(r)
      BY <1>0, <3>2, Shape
      DEF TakeoverCut, BeatRead, ClaimMigrate, AppendCheck, AppendRead, Return, Goto, Raise, At
    <3> QED
      BY <1>3, <3>1, <3>2
  <2> QED
    BY <1>2, <2>1
<1>4. CASE UseFence(r) \/ Rotate(r)
  <2>1. pc'[r] \notin {"mark", "unlink", "return", "post"}
    <3>1. op[r] \in Ops
      BY <1>0 DEF TypeOK
    <3> QED
      BY <1>0, <1>4, <3>1, Shape DEF UseFence, Rotate, Goto, Raise, Ops
  <2> QED
    BY <1>2, <2>1
<1>5. CASE ClaimCreate(r) \/ TakeoverReplace(r)
  <2>1. pc'[r] \in {"return", "idle"} /\ op' = op /\ op[r] \in {"claim", "takeover"}
        /\ (pc'[r] = "return" => cur'[r].owner = r)
    BY <1>0, <1>5, Shape DEF ClaimCreate, TakeoverReplace, Goto, Raise, At, FitsOp, Successor
  <2> QED
    BY <1>1, <2>1 DEF Asked
<1>6. CASE PublishFence(r) \/ CommitFence(r)
  <2>1. /\ pc'[r] \in {"return", "commit", "gone"} /\ op' = op /\ op[r] = "claim" /\ cur' = cur
        /\ pc[r] \in {"publish", "commit"}
    BY <1>0, <1>6, Shape DEF PublishFence, CommitFence, Goto, Raise, At, FitsOp
  <2>2. cur[r].owner = r
    <3>1. Generation(r) /\ pc[r] \in Placed
      BY <1>0, <2>1 DEF FenceInv, Placed, Inside, Labels
    <3> QED
      BY <2>1, <3>1 DEF Generation
  <2> QED
    BY <1>1, <2>1, <2>2 DEF Asked
<1>7. CASE AppendWrite(r)
  <2>1. CASE pos[r] = Len(log) + 1
    <3>1. pc'[r] = "post" /\ log' = Append(log, r) /\ pos' = pos /\ op' = op
      BY <1>0, <1>7, <2>1, Shape DEF AppendWrite, Goto, local
    <3>2. pos'[r] \in 1..Len(log') /\ log'[pos'[r]] = r
      BY <1>0, <2>1, <3>1
    <3> QED
      BY <1>1, <3>1, <3>2 DEF Asked
  <2>2. CASE pos[r] # Len(log) + 1
    <3>1. pc'[r] = "append"
      BY <1>0, <1>7, <2>2, Shape DEF AppendWrite, Goto
    <3> QED
      BY <1>2, <3>1
  <2> QED
    BY <2>1, <2>2
<1>8. CASE AppendPost(r)
  <2>1. /\ pc[r] = "post" /\ op[r] = "append" /\ log' = log /\ pos' = pos /\ op' = op
        /\ pc'[r] \in {"return", "idle"}
    BY <1>0, <1>8, Shape DEF AppendPost, Goto, Raise, At, FitsOp, disk, local
  <2> QED
    BY <1>0, <1>1, <2>1 DEF Asked
<1>9. CASE BeatWrite(r) \/ Unlink(r)
  <2>1. pc'[r] = "return" /\ op' = op /\ op[r] \in {"beat", "release", "retire"}
    BY <1>0, <1>9, Shape DEF BeatWrite, Unlink, Goto, At, FitsOp, local
  <2> QED
    BY <1>1, <2>1 DEF Asked
<1>10. CASE ReleaseRead(r)
  <2>1. /\ pc[r] = "release" /\ pc'[r] = IF LeaseAt(ctx[r]).owner = r THEN "mark" ELSE "return"
        /\ op' = op /\ op[r] = "release" /\ cur'[r] = LeaseAt(ctx[r])
    BY <1>0, <1>10, Shape DEF ReleaseRead, Goto, At, FitsOp
  <2> QED
    BY <1>1, <2>1 DEF Asked
<1>11. CASE RetireRead(r)
  <2>1. /\ pc[r] = "retire" /\ pc'[r] \in {"mark", "return"} /\ op' = op /\ op[r] = "retire"
        /\ cur'[r] = LeaseAt(ctx[r])
        /\ pc'[r] = "mark" => LeaseAt(ctx[r]).owner \in crashed
    BY <1>0, <1>11, Shape DEF RetireRead, Goto, At, FitsOp
  <2> QED
    BY <1>0, <1>1, <2>1 DEF Asked
<1>12. CASE Mark(r)
  <2>1. /\ pc[r] = "mark" /\ pc'[r] \in {"mark", "unlink"} /\ op' = op /\ cur' = cur
        /\ pc'[r] = "unlink" => cur[r].retired \subseteq markers /\ markers' = markers
    BY <1>0, <1>12, Shape DEF Mark, Goto, At, local
  <2> QED
    BY <1>0, <1>1, <2>1 DEF Asked
<1>13. CASE Crash(r)
  BY <1>13 DEF Crash, Live
<1> QED
  BY <1>3, <1>4, <1>5, <1>6, <1>7, <1>8, <1>9, <1>10, <1>11, <1>12, <1>13
  DEF StepOf, LockStep, ClaimStep, TakeoverStep, AppendStep, UpkeepStep

\* The owner that is about to check its right stays aligned with the copy.
LEMMA NextAligned ==
    ASSUME TypeInv, FenceInv, RunInv, NEW r \in Runtimes, StepOf(r), strayed' = {},
           NEW q \in Live'
    PROVE  Aligned(q)'
<1> SUFFICES ASSUME pc'[q] = "append", Selected'.owner = q, Copied' # Selected'
             PROVE  Copied'.owner = q \/ RetiredIn(q, Known(Copied)')
  BY DEF Aligned, RetiredIn
<1>0. /\ TypeOK /\ q \in Runtimes /\ q \in Live /\ Aligned(q) /\ Suits(Copied, q)
  BY StepFacts DEF TypeInv, RunInv, Live
<1>1. Copied' = Copied /\ holder # r /\ holder' = holder
  BY CopiedStep
<1>2. PICK C : C = Copied
  OBVIOUS
<1>3. Known(C)' = Known(C)
  BY <1>2, KnownKept
<1>4. Known(Copied)' = Known(C)
  BY <1>1, <1>2, <1>3 DEF Known
<1>5. SUFFICES C.owner = q \/ RetiredIn(q, Known(C))
  BY <1>1, <1>2, <1>4
<1>6. r \in Live => Asked(r) /\ Answers(r)
  BY DEF RunInv
<1>7. CASE Replaces(r)
  <2>1. q # r
    BY <1>7 DEF Replaces
  <2>2. Selected'.owner \in {r, Nobody}
    BY <1>7 DEF Replaces, Missing, Successor
  <2> QED
    BY <1>0, <2>1, <2>2, LeaseAssumption
<1>8. CASE Selected' = Selected
  <2>1. CASE pc[q] = "append"
    BY <1>0, <1>2, <1>8, <2>1 DEF Aligned
  <2>2. CASE pc[q] # "append"
    <3>1. q = r
      BY <2>2, <1>0, StepFacts DEF Keeps
    <3>2. r \in Live /\ r \in Live'
      BY <1>0, <3>1
    <3>3. ~UseFence(r)
      BY <1>0, <1>1, HistoryGrows
    <3>4. ~Rotate(r)
      BY <1>0, <1>1, <3>1, HistoryGrows
    <3>5. pc[r] = "write"
      <4>1. CASE (\E o \in Ops : Begin(r, o)) \/ Acquire(r) \/ Reclaim(r) \/ Timeout(r)
                 \/ CopyEpoch(r) \/ ClaimRead(r) \/ TakeoverRead(r) \/ Crash(r) \/ Return(r)
        BY <1>0, <2>2, <3>1, <4>1, Shape
        DEF Begin, Acquire, Reclaim, Timeout, CopyEpoch, ClaimRead, TakeoverRead, Crash,
            Return, Goto, Raise, At
      <4>2. CASE TakeoverCut(r) \/ BeatRead(r) \/ ClaimMigrate(r) \/ ClaimCreate(r)
                 \/ PublishFence(r) \/ CommitFence(r) \/ TakeoverReplace(r)
        BY <1>0, <2>2, <3>1, <4>2, Shape
        DEF TakeoverCut, BeatRead, ClaimMigrate, ClaimCreate, PublishFence, CommitFence,
            TakeoverReplace, Goto, Raise, At
      <4>3. CASE AppendCheck(r) \/ AppendRead(r) \/ AppendWrite(r) \/ AppendPost(r)
                 \/ BeatWrite(r) \/ ReleaseRead(r) \/ RetireRead(r) \/ Mark(r) \/ Unlink(r)
        BY <1>0, <2>2, <3>1, <4>3, Shape
        DEF AppendCheck, AppendRead, AppendWrite, AppendPost, BeatWrite, ReleaseRead,
            RetireRead, Mark, Unlink, Goto, Raise, At
      <4> QED
        BY <3>3, <3>4, <4>1, <4>2, <4>3
        DEF StepOf, LockStep, ClaimStep, TakeoverStep, AppendStep, UpkeepStep
    <3> QED
      BY <1>0, <1>2, <3>1, <3>5 DEF Suits
  <2> QED
    BY <2>1, <2>2
<1> QED
  BY <1>1, <1>6, <1>7, <1>8, SelectedStep

\* Another runtime's step leaves a call that can succeed its answers.
LEMMA OthersAnswers ==
    ASSUME TypeInv, FenceInv, RunInv, NEW r \in Runtimes, StepOf(r), strayed' = {},
           NEW q \in Live', q # r
    PROVE  Answers(q)'
<1> SUFFICES ASSUME Works(q)'  PROVE Answers(q)'
  BY DEF Answers
<1>0. /\ TypeOK /\ q \in Live /\ q \in Runtimes /\ Keeps(q) /\ Asked(q) /\ Answers(q)
      /\ log \in Seq(Runtimes) /\ Len(log) \in Nat
      /\ r \in Live => Asked(r) /\ Answers(r)
  BY StepFacts, Shape DEF TypeInv, RunInv, Live
<1>1. Works(q) /\ fence' = fence
  BY <1>0, OtherWorks
<1>2. ~Works(r)
  BY <1>0, <1>1 DEF FenceInv, OneWorks
<1>3. Selected' = Selected
  <2>1. ~Replaces(r)
    BY <1>2 DEF Replaces
  <2>2. ~(SetsFence(r) /\ pc[r] = "rotate")
    <3>1. ASSUME SetsFence(r), pc[r] = "rotate"  PROVE FALSE
      <4>1. Generation(r) /\ pc[r] \in Placed /\ Fresh(r) /\ fence' = ctx'[r] /\ ctx'[r].gen = ctx[r].gen
        BY <3>1 DEF SetsFence, FenceInv, Placed, Inside, Labels, Fresh
      <4> QED
        BY <1>1, <4>1 DEF Generation
    <3> QED
      BY <3>1
  <2> QED
    BY <1>0, <2>1, <2>2, SelectedStep
<1>4. acked' = acked
  <2>1. r \in Live /\ pc[r] = "return" /\ fence = ctx[r] => Works(r)
    BY DEF Works, Linking, Working, Placed, Inside, Labels
  <2> QED
    BY <1>0, <1>2, <2>1, DiskStep
<1>5. Copied = Selected => Copied' = Selected'
  BY <1>3, CopiedStep
<1>6. PICK S : S = Selected
  OBVIOUS
<1>7. Known(S)' = Known(S)
  BY <1>6, KnownKept
<1>8. Known(Selected)' = Known(Selected)
  BY <1>3, <1>6, <1>7 DEF Known
<1>9. /\ pc'[q] = pc[q] /\ op'[q] = op[q] /\ cur'[q] = cur[q] /\ pos'[q] = pos[q]
  BY <1>0 DEF Keeps
<1>10. Len(log') \in Nat /\ Len(log) <= Len(log')
  BY <1>0, DiskStep
<1>11. pos[q] \in Nat
  BY <1>0, LeaseAssumption DEF TypeOK
<1> QED
  BY <1>0, <1>1, <1>3, <1>4, <1>5, <1>8, <1>9, <1>10, <1>11 DEF Answers, RetiredIn

\* While no step replaces the lease, what the call of r reads is selected.
LEMMA OwnAnswers ==
    ASSUME TypeInv, FenceInv, RunInv, NEW r \in Runtimes, StepOf(r), strayed' = {},
           r \in Live'
    PROVE  Answers(r)'
<1> SUFFICES ASSUME Works(r)'  PROVE Answers(r)'
  BY DEF Answers
<1>0. /\ TypeOK /\ r \in Live /\ pc[r] # "gone" /\ Asked(r) /\ Answers(r) /\ FitsOp(r)
      /\ log \in Seq(Runtimes) /\ Len(log) \in Nat /\ acked \subseteq 1..Len(log)
  BY StepFacts, Shape DEF TypeInv, RunInv, FenceInv, Live
<1>1. pc'[r] \in Working
  BY DEF Works
<1>2. CASE UseFence(r) \/ (SetsFence(r) /\ pc[r] = "rotate")
  <2>1. UseFence(r) \/ (Rotate(r) /\ pc'[r] # "idle")
    BY <1>1, <1>2, RotateOnly DEF Working, Placed, Inside, Labels
  <2>2. pc'[r] \in Ops
    <3>1. op[r] \in Ops
      BY <1>0 DEF TypeOK
    <3> QED
      BY <1>0, <2>1, <3>1, Shape DEF UseFence, Rotate, Goto, Raise
  <2>3. Copied' = Selected'
    BY <1>0, <2>1, HistoryGrows, CopiedStep
  <2> QED
    BY <2>2, <2>3 DEF Answers, Ops
<1>3. CASE SetsFence(r) /\ pc[r] # "rotate"
  <2>1. pc'[r] = "return" /\ pc[r] \in {"publish", "commit"}
    BY <1>3 DEF SetsFence
  <2>2. op[r] = "claim"
    BY <1>0, <2>1 DEF FitsOp
  <2>3. op' = op
    BY <1>3, <2>1, PublishOnly DEF PublishFence, CommitFence
  <2> QED
    BY <2>1, <2>2, <2>3 DEF Answers
<1>4. CASE Replaces(r)
  BY <1>4 DEF Replaces, Answers
<1>5. CASE Works(r) /\ Selected' = Selected /\ fence' = fence /\ ~UseFence(r)
  <2>1. pc[r] # "return"
    BY <1>0, <1>1, StepFacts, Shape DEF Return, Goto, Working, Placed, Inside, Labels
  <2>2. Copied' = Selected'
    BY <1>0, <1>5, <2>1, CopiedStep DEF Answers
  <2>3. PICK S : S = Selected
    OBVIOUS
  <2>4. Known(S)' = Known(S)
    BY <2>3, KnownKept
  <2>5. Known(Selected)' = Known(S)
    BY <1>5, <2>3, <2>4 DEF Known
  <2>6. ~Linking(r) => LeaseAt(ctx[r]) = Selected
    BY <1>5 DEF Works, Selected
  \* Nothing is asked at the other labels.
  <2>7. ASSUME pc'[r] \notin {"create", "publish", "commit", "cut", "replace", "mark",
                              "unlink", "rewrite", "return"}
        PROVE  Answers(r)'
    BY <2>2, <2>7 DEF Answers
  <2>8. CASE (\E o \in Ops : Begin(r, o)) \/ Acquire(r) \/ Reclaim(r) \/ Timeout(r)
             \/ CopyEpoch(r) \/ AppendCheck(r) \/ AppendRead(r) \/ AppendWrite(r) \/ Return(r)
    <3>1. pc'[r] \notin {"create", "publish", "commit", "cut", "replace", "mark",
                         "unlink", "rewrite", "return"}
      BY <1>0, <2>8, Shape
      DEF Begin, Acquire, Reclaim, Timeout, CopyEpoch, AppendCheck, AppendRead, AppendWrite,
          Return, Goto, Raise, At
    <3> QED
      BY <2>7, <3>1
  <2>9. CASE Rotate(r)
    <3>1. op[r] \in Ops
      BY <1>0 DEF TypeOK
    <3>2. pc'[r] \notin {"create", "publish", "commit", "cut", "replace", "mark",
                         "unlink", "rewrite", "return"}
      BY <1>0, <2>9, <3>1, Shape DEF Rotate, Raise, Goto, Ops
    <3> QED
      BY <2>7, <3>2
  <2>10. CASE ClaimRead(r)
    <3>1. /\ pc[r] = "claim"
          /\ pc'[r] = "idle" \/ (pc'[r] = "create" /\ LeaseAt(ctx[r]).owner = Nobody)
      BY <1>0, <2>10, Shape DEF ClaimRead, Goto, Raise, At
    <3>2. pc'[r] = "create" => Selected = Missing
      BY <2>6, <3>1, SelectedFile DEF Linking
    <3> QED
      BY <1>5, <2>2, <3>1, <3>2 DEF Answers
  <2>11. CASE ClaimMigrate(r) \/ PublishFence(r)
    <3>1. pc[r] \in {"create", "publish"} /\ pc'[r] \in {"publish", "commit", "return", "gone"}
          /\ op' = op
      BY <1>0, <2>11, Shape DEF ClaimMigrate, PublishFence, Goto, Raise, At
    <3>2. Selected = Missing /\ op[r] = "claim"
      BY <1>0, <1>5, <3>1 DEF Answers, FitsOp
    <3> QED
      BY <1>5, <2>2, <3>1, <3>2 DEF Answers
  <2>12. CASE ClaimCreate(r) \/ CommitFence(r) \/ TakeoverReplace(r) \/ BeatWrite(r) \/ Unlink(r)
    <3>1. /\ pc[r] \in {"create", "commit", "replace", "rewrite", "unlink"}
          /\ pc'[r] \in {"return", "idle"} /\ op' = op
      BY <1>0, <2>12, Shape
      DEF ClaimCreate, CommitFence, TakeoverReplace, BeatWrite, Unlink, Goto, Raise, At, local
    <3>2. op[r] # "append"
      BY <1>0, <3>1 DEF FitsOp
    <3> QED
      BY <2>2, <3>1, <3>2 DEF Answers
  <2>13. CASE TakeoverRead(r)
    <3>1. /\ pc[r] = "takeover"
          /\ pc'[r] = "idle" \/ (pc'[r] = "cut" /\ cur'[r] = LeaseAt(ctx[r]))
      BY <1>0, <2>13, Shape DEF TakeoverRead, Goto, Raise, At
    <3>2. pc'[r] = "cut" => Selected = cur'[r]
      BY <2>6, <3>1 DEF Linking
    <3> QED
      BY <1>5, <2>2, <3>1, <3>2 DEF Answers
  <2>14. CASE TakeoverCut(r)
    <3>1. /\ pc[r] = "cut" /\ pc'[r] = "replace" /\ cur' = cur /\ pos'[r] = Len(log)
          /\ acked' = acked /\ log' = log
      BY <1>0, <2>14, Shape DEF TakeoverCut, Goto, At, disk
    <3> QED
      BY <1>0, <1>5, <2>2, <3>1 DEF Answers
  <2>15. CASE AppendPost(r)
    <3>1. /\ pc[r] = "post" /\ pc'[r] \in {"return", "idle"} /\ op' = op
          /\ pc'[r] = "return" => ~RetiredIn(r, Retirements)
      BY <1>0, <2>15, Shape DEF AppendPost, MayWrite, Goto, Raise, At, local
    <3>2. pc'[r] = "return" => ~RetiredIn(r, Known(S))
      BY <2>3, <3>1 DEF Known, Retirements, Selected
    <3>3. ~RetiredIn(r, Known(S)) => ~RetiredIn(r, Known(Selected))'
      BY <2>5 DEF RetiredIn
    <3> QED
      BY <2>2, <3>1, <3>2, <3>3 DEF Answers
  <2>16. CASE BeatRead(r)
    <3>1. /\ pc[r] = "beat"
          /\ pc'[r] = "idle" \/ (pc'[r] = "rewrite" /\ LeaseAt(ctx[r]).owner = r)
      BY <1>0, <2>16, Shape DEF BeatRead, Goto, Raise, At
    <3>2. pc'[r] = "rewrite" => Selected.owner = r
      BY <2>6, <3>1 DEF Linking
    <3> QED
      BY <1>5, <2>2, <3>1, <3>2 DEF Answers
  <2>17. CASE ReleaseRead(r) \/ RetireRead(r)
    <3>1. /\ pc[r] \in {"release", "retire"} /\ op' = op
          /\ pc'[r] \in {"mark", "return"} /\ cur'[r] = LeaseAt(ctx[r])
      BY <1>0, <2>17, Shape DEF ReleaseRead, RetireRead, Goto, At
    <3>2. Selected = cur'[r] /\ op[r] # "append"
      BY <1>0, <2>6, <3>1 DEF Linking, FitsOp
    <3> QED
      BY <1>5, <2>2, <3>1, <3>2 DEF Answers
  <2>18. CASE Mark(r)
    <3>1. pc[r] = "mark" /\ pc'[r] \in {"mark", "unlink"} /\ cur' = cur
      BY <1>0, <2>18, Shape DEF Mark, Goto, At, local
    <3> QED
      BY <1>0, <1>5, <2>2, <3>1 DEF Answers
  <2>19. CASE Crash(r)
    BY <2>19 DEF Crash, Live
  <2> QED
    BY <1>5, <2>8, <2>9, <2>10, <2>11, <2>12, <2>13, <2>14, <2>15, <2>16, <2>17, <2>18, <2>19
    DEF StepOf, LockStep, ClaimStep, TakeoverStep, AppendStep, UpkeepStep
<1>6. (fence' = fence /\ Selected' = Selected) \/ SetsFence(r) \/ Replaces(r)
  BY <1>0, SelectedStep
<1> QED
  BY <1>2, <1>3, <1>4, <1>5, <1>6, OwnWorks

-----------------------------------------------------------------------------
(* The invariant, and what it says of the log *)

\* What the two leases mean for the run is inductive as long as no call strays.
LEMMA NextRunInv ==
    ASSUME TypeInv, FenceInv, RunInv, NEW r \in Runtimes, StepOf(r), strayed' = {}
    PROVE  RunInv'
<1>0. /\ TypeOK /\ log \in Seq(Runtimes) /\ Len(log) \in Nat /\ acked \subseteq 1..Len(log)
      /\ r \in Live => Asked(r) /\ Answers(r)
  BY Shape DEF TypeInv, RunInv
<1>1. acked' \subseteq 1..Len(log')
  <2>1. Len(log') \in Nat /\ Len(log) <= Len(log')
    BY <1>0, DiskStep
  <2>2. r \in Live /\ pc[r] = "return" /\ op[r] = "append" => pos[r] \in 1..Len(log)
    BY <1>0 DEF Asked
  <2>3. acked' \subseteq 1..Len(log)
    BY <1>0, <2>2, DiskStep
  <2> QED
    BY <1>0, <2>1, <2>3
<1>2. ASSUME NEW q \in Live'
      PROVE  Asked(q)' /\ Answers(q)' /\ Aligned(q)'
  <2>1. Aligned(q)'
    BY NextAligned
  <2>2. CASE q = r
    BY <2>1, <2>2, OwnAsked, OwnAnswers
  <2>3. CASE q # r
    BY <2>1, <2>3, OthersAsked, OthersAnswers
  <2> QED
    BY <2>2, <2>3
\* The candidates come from the candidates, or from a replacement.
<1>3. ASSUME NEW L, L \in {Selected', Copied'}
      PROVE  \/ L \in {Selected, Copied} /\ (Rotate(r) /\ pc'[r] # "idle" => L = Copied)
             \/ Replaces(r) /\ L = Selected'
  <2>1. fence' = fence => ~(Rotate(r) /\ pc'[r] # "idle")
    <3> SUFFICES ASSUME fence' = fence, Rotate(r), pc'[r] # "idle"  PROVE FALSE
      OBVIOUS
    <3>1. r \in Live /\ pc[r] = "rotate" /\ fence' = ctx[r]
      BY <1>0 , Shape DEF Rotate, Raise, Goto, At, Live
    <3>2. Generation(r) /\ pc[r] \in Placed /\ Fresh(r)
      BY <3>1 DEF FenceInv, Placed, Inside, Labels, Fresh
    <3> QED
      BY <3>1, <3>2 DEF Generation
  <2>2. CASE L = Selected'
    BY <1>0, <2>1, <2>2, SelectedStep
  <2>3. CASE L = Copied' /\ Copied' # Selected'
    BY <2>3, CopiedStep
  <2> QED
    BY <1>3, <2>2, <2>3
<1>4. ASSUME NEW L, L \in {Selected', Copied'}
      PROVE  Sound(L)' /\ \A q \in Live' : Suits(L, q)'
  <2>1. CASE L \in {Selected, Copied} /\ (Rotate(r) /\ pc'[r] # "idle" => L = Copied)
    <3>1. Sound(L)'
      BY <2>1, KeptSound
    <3>2. ASSUME NEW q \in Live'  PROVE Suits(L, q)'
      BY <2>1, OthersSuit, OwnSuits
    <3> QED
      BY <3>1, <3>2
  <2>2. CASE Replaces(r) /\ L = Selected'
    <3>1. Sound(L)'
      BY <2>2, NewSound
    <3>2. ASSUME NEW q \in Live'  PROVE Suits(L, q)'
      BY <2>2, OthersSuitNew, OwnSuitsNew
    <3> QED
      BY <3>1, <3>2
  <2> QED
    BY <1>3, <1>4, <2>1, <2>2
<1> QED
  BY <1>1, <1>2, <1>4 DEF RunInv

\* A new run satisfies the invariant, ...
LEMMA InitPauseInv ==
    ASSUME Init
    PROVE  PauseInv
<1>1. TypeInv
  BY InitTypeInv
<1>2. /\ Selected = Missing /\ ~Copying /\ Copied = Missing /\ fence = NoFence
      /\ Missing.owner = Nobody /\ Missing.retired = {} /\ NoFence.gen = 0 /\ NoFence.src = "legacy"
  BY LeaseAssumption DEF Init, Selected, LeaseAt, Copied, Copying, Live, Missing, NoFence
<1>3. \A r \in Runtimes : /\ pc[r] = "idle" /\ ~Works(r) /\ ~HasLease(r)
                          /\ FitsOp(r) /\ Generation(r) /\ Rights(r)
  BY <1>2, LeaseAssumption
  DEF Init, Works, Working, Placed, Inside, HasLease, FitsOp, Generation, Rights, Missing
<1>4. FenceInv
  BY <1>2, <1>3 DEF FenceInv, WellFormed, OneWorks, CopyIsNew, Init, Live
<1>5. Known(Missing) = {} /\ log = <<>> /\ acked = {}
  BY <1>2 DEF Known, Init
<1>6. \A r \in Live : Asked(r) /\ Answers(r) /\ Aligned(r) /\ Suits(Missing, r)
  BY <1>2, <1>3, <1>5, LeaseAssumption DEF Asked, Answers, Aligned, Suits, RetiredIn, Live
<1>7. Sound(Missing)
  BY <1>5 DEF Sound, Kept, Succession, Latest
<1> QED
  BY <1>1, <1>2, <1>4, <1>5, <1>6, <1>7 DEF PauseInv, RunInv

\* ... and every step keeps it.
LEMMA NextPauseInv ==
    ASSUME PauseInv, [Next]_vars
    PROVE  PauseInv'
<1>1. TypeInv'
  BY NextTypeInv DEF PauseInv
<1>2. CASE UNCHANGED vars
  <2>1. /\ fence' = fence /\ files' = files /\ markers' = markers /\ log' = log
        /\ holder' = holder /\ crashed' = crashed /\ nextGen' = nextGen /\ pc' = pc /\ op' = op
        /\ ctx' = ctx /\ first' = first /\ cur' = cur /\ pos' = pos /\ mem' = mem
        /\ acked' = acked /\ owed' = owed /\ strayed' = strayed
    BY <1>2 DEF vars, disk, local, history
  <2>2. FenceInv => FenceInv'
    BY <2>1 DEF FenceInv, WellFormed, OneWorks, CopyIsNew, Live, FitsOp, Generation, Rights,
         Works, Linking, Fresh, Copying, HasLease
  <2>3. RunInv => RunInv'
    BY <2>1 DEF RunInv, Live, Asked, Answers, Aligned, Suits, Sound, Kept, Succession, Latest,
         Known, Selected, Copied, Copying, LeaseAt, HasLease, RetiredIn, AuthoritativeIn,
         Works, Linking
  <2> QED
    BY <1>1, <2>1, <2>2, <2>3 DEF PauseInv
<1>3. ASSUME NEW r \in Runtimes, StepOf(r)
      PROVE  PauseInv'
  <2> SUFFICES ASSUME strayed' = {}  PROVE FenceInv' /\ RunInv'
    BY <1>1 DEF PauseInv
  <2>1. strayed = {}
    BY <1>3, HistoryGrows DEF PauseInv, TypeInv
  <2>2. TypeInv /\ FenceInv /\ RunInv
    BY <2>1 DEF PauseInv
  <2> QED
    BY <1>3, <2>2, NextFenceInv, NextRunInv
<1> QED
  BY <1>2, <1>3 DEF Next, StepOf

\* Whoever is suspended, dies or is late, an event whose append() returned is
\* never excluded by a cutoff, unless a call whose token was removed went on to
\* read or set the fence, or read it while another call owed a rotation.
THEOREM AckedKept == Spec => []AckedUnlessStrayed
<1>1. PauseInv => AckedUnlessStrayed
  BY DEF PauseInv, RunInv, Sound, Kept, Known, Selected, Retirements, AckedUnlessStrayed,
       AckedStaysAuthoritative, Authoritative
<1> QED
  BY <1>1, InitPauseInv, NextPauseInv, PTL DEF Spec

\* Under the same condition the events that a replay accepts are a succession
\* of owners: nobody's lie between two of one owner.
THEOREM OwnersSucceed == Spec => []OneOwnerUnlessStrayed
<1>1. PauseInv => OneOwnerUnlessStrayed
  BY DEF PauseInv, RunInv, Sound, Succession, Known, Selected, Retirements,
       OneOwnerUnlessStrayed, OneOwnerAtATime, Authoritative
<1> QED
  BY <1>1, InitPauseInv, NextPauseInv, PTL DEF Spec
=============================================================================
