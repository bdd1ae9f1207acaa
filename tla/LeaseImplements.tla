-------------------------- MODULE LeaseImplements --------------------------
(***************************************************************************)
(* The runtime lease implements OwnedLog, and what follows, for every set  *)
(* of runtimes and every bound: processes may crash at any step and their  *)
(* heartbeats may be late (a live owner may be taken over), but none is    *)
(* suspended inside a call for longer than the lock allows.                *)
(* The same invariant gives what a reader without a lock finds (RunReader).*)
(***************************************************************************)
EXTENDS RuntimeLeaseProofs, RunReader

\* A live call that is inside holds the lock, ...
Locked(r) == pc[r] \in Inside => holder = r

\* ... works under the fence it read or set, except while it changes it, ...
Fenced(r) ==
    /\ pc[r] \in Inside \ {"prepare", "rotate", "publish", "commit"} => ctx[r] = fence
    /\ pc[r] = "create" => (first[r] <=> fence = NoFence)
    /\ pc[r] = "claim" => (first[r] <=> fence = NoFence)
    /\ pc[r] = "rotate" =>
         /\ ctx[r].gen \in 1..(nextGen - 1) /\ fence.gen < ctx[r].gen
         /\ LeaseAt(ctx[r]) = Selected
    /\ pc[r] \in {"publish", "commit"} =>
         /\ ctx[r].gen \in 1..(nextGen - 1)
         /\ ctx[r].src = "legacy" /\ fence.src = "legacy"
         /\ files[ctx[r].gen] = cur[r]
    /\ pc[r] = "publish" /\ first[r] => fence = NoFence
    /\ (pc[r] = "publish" /\ ~first[r]) \/ pc[r] = "commit" => ctx[r] = fence

\* ... and what it read is still so.
Current(r) ==
    /\ pc[r] = "create" => Selected = Missing
    /\ pc[r] \in {"publish", "commit"} => cur[r] = [owner |-> r, hb |-> 0, retired |-> {}]
    /\ pc[r] = "return" /\ op[r] \in {"claim", "takeover"} =>
         cur[r].owner = r /\ Selected = cur[r]
    /\ pc[r] \in {"cut", "replace"} => cur[r].owner \in Runtimes /\ Selected = cur[r]
    /\ pc[r] = "replace" => pos[r] = Len(log)
    /\ pc[r] \in {"read", "write"} => MayWrite(r)
    /\ pc[r] \in {"post", "return"} /\ op[r] = "append" => pos[r] \in 1..Len(log)
    /\ pc[r] = "rewrite" => Selected.owner = r
    /\ pc[r] \in {"mark", "unlink"} =>
         /\ Selected = cur[r]
         /\ op[r] = "release" => cur[r].owner = r
         /\ op[r] = "retire" => cur[r].owner \in crashed
    /\ pc[r] = "unlink" => cur[r].retired \subseteq markers

\* The record in memory, if the selected lease is its, carries its cutoffs.
Remembers(r) ==
    HasLease(r) /\ Selected.owner = r => mem[r].retired = Selected.retired

\* A runtime without a lease has left no trace, until its claim or takeover
\* has written.
Unused(r) ==
    /\ ~HasLease(r) /\ pc[r] # "gone"
    /\ ~(pc[r] = "return" /\ op[r] \in {"claim", "takeover"})
    => Selected.owner # r /\ ~RetiredIn(r, Retirements)

KnowsIt(r) ==
    /\ HasLease(r) /\ r \notin Past
    => Selected.owner = r

LeaseInv ==
    /\ TypeInv
    /\ WellFormed
    /\ acked \subseteq 1..Len(log)
    /\ \A r \in Live :
         /\ Locked(r) /\ FitsOp(r) /\ Fenced(r) /\ Current(r)
         /\ Remembers(r) /\ Unused(r) /\ KnowsIt(r)

-----------------------------------------------------------------------------
(* Facts about one state *)

LEMMA SelectedLease ==
    ASSUME LeaseInv
    PROVE  /\ Missing.owner = Nobody /\ Missing.retired = {}
           /\ fence.gen \in 0..MaxGen /\ fence.src \in {"legacy", "epoch"}
           /\ Selected.owner \in Runtimes \cup {Nobody}
           /\ Selected.retired \subseteq Retirement
           /\ Selected.owner = Nobody => Selected = Missing
           /\ Selected.owner # Nobody =>
                fence.src = "epoch" /\ fence.gen \in 1..MaxGen /\ Selected = files[fence.gen]
           /\ fence.src = "legacy" => Selected = Missing
<1>1. TypeOK
  BY DEF LeaseInv, TypeInv
<1>2. fence.gen \in 0..MaxGen /\ fence.src \in {"legacy", "epoch"}
  BY <1>1 DEF TypeOK, Fence
<1>3. Missing.owner = Nobody /\ Missing.retired = {}
  BY DEF Missing
<1>4. Selected \in Lease
  BY <1>1, Records DEF Selected, TypeOK
<1>5. fence.src = "legacy" => Selected = Missing
  BY DEF Selected, LeaseAt
<1>6. fence.src = "epoch" => fence.gen \in 1..MaxGen /\ Selected = files[fence.gen]
  BY <1>2, LeaseAssumption DEF LeaseInv, WellFormed, Selected, LeaseAt
<1>7. Selected.owner = Nobody => Selected = Missing
  BY <1>2, <1>5, <1>6 DEF LeaseInv, WellFormed
<1> QED
  BY <1>2, <1>3, <1>4, <1>5, <1>6, <1>7 DEF Lease

\* A live call that is inside is alone there.
LEMMA Alone ==
    ASSUME LeaseInv, NEW r \in Live, pc[r] \in Inside, NEW q \in Live, q # r
    PROVE  pc[q] \notin Inside
BY DEF LeaseInv, Locked

-----------------------------------------------------------------------------
(* What one step does to the selected lease and the cutoffs *)

Unmoved ==
    /\ Selected'.owner = Selected.owner
    /\ Selected'.retired = Selected.retired
    /\ Retirements' = Retirements
    /\ WellFormed'

Granted(r) ==
    /\ Selected = Missing
    /\ Selected' = [owner |-> r, hb |-> 0, retired |-> {}]
    /\ Retirements' = Retirements
    /\ WellFormed'

Cutoff == [owner |-> Selected.owner, upto |-> Len(log)]
TakenOver(r) ==
    /\ Selected.owner \in Runtimes
    /\ Selected' = [owner |-> r, hb |-> 0, retired |-> Selected.retired \cup {Cutoff}]
    /\ Retirements' = Retirements \cup {Cutoff}
    /\ WellFormed'

Dropped(r) ==
    /\ Selected.owner \in IF op[r] = "release" THEN {r} ELSE crashed
    /\ Selected'.owner = Nobody
    /\ Selected'.retired = {}
    /\ Retirements' = Retirements
    /\ WellFormed'

\* The steps that change no lease file, no marker and no fence.
Quiet(r) ==
    \/ \E o \in Ops : Begin(r, o)
    \/ Acquire(r) \/ Reclaim(r) \/ Timeout(r) \/ UseFence(r) \/ Return(r) \/ Crash(r)
    \/ ClaimRead(r) \/ TakeoverRead(r) \/ TakeoverCut(r)
    \/ AppendStep(r)
    \/ BeatRead(r) \/ ReleaseRead(r) \/ RetireRead(r)

LEMMA QuietUnmoved ==
    ASSUME LeaseInv, NEW r \in Runtimes, Quiet(r)
    PROVE  Unmoved
<1>1. UNCHANGED <<fence, files, markers, nextGen>>
  <2>0. CASE \E o \in Ops : Begin(r, o)
    BY <2>0 DEF Begin, disk
  <2>1. CASE Acquire(r)
    BY <2>1 DEF Acquire, disk
  <2>2. CASE Reclaim(r)
    BY <2>2 DEF Reclaim, disk
  <2>3. CASE Timeout(r)
    BY <2>3 DEF Timeout, disk
  <2>4. CASE UseFence(r)
    BY <2>4 DEF UseFence, disk
  <2>5. CASE Return(r)
    BY <2>5 DEF Return, disk
  <2>6. CASE Crash(r)
    BY <2>6 DEF Crash, disk
  <2>7. CASE ClaimRead(r)
    BY <2>7 DEF ClaimRead, disk
  <2>8. CASE TakeoverRead(r)
    BY <2>8 DEF TakeoverRead, disk
  <2>9. CASE TakeoverCut(r)
    BY <2>9 DEF TakeoverCut, disk
  <2>10. CASE AppendCheck(r)
    BY <2>10 DEF AppendCheck, disk
  <2>11. CASE AppendRead(r)
    BY <2>11 DEF AppendRead, disk
  <2>12. CASE AppendWrite(r)
    BY <2>12 DEF AppendWrite, disk
  <2>13. CASE AppendPost(r)
    BY <2>13 DEF AppendPost, disk
  <2>14. CASE BeatRead(r)
    BY <2>14 DEF BeatRead, disk
  <2>15. CASE ReleaseRead(r)
    BY <2>15 DEF ReleaseRead, disk
  <2>16. CASE RetireRead(r)
    BY <2>16 DEF RetireRead, disk
  <2> QED
    BY <2>0, <2>1, <2>2, <2>3, <2>4, <2>5, <2>6, <2>7, <2>8, <2>9, <2>10, <2>11,
      <2>12, <2>13, <2>14, <2>15, <2>16 DEF Quiet, AppendStep
<1> QED
  BY <1>1 DEF LeaseInv, Unmoved, WellFormed, Selected, LeaseAt, Retirements

LEMMA CopyUnmoved ==
    ASSUME LeaseInv, NEW r \in Runtimes, CopyEpoch(r)
    PROVE  Unmoved
<1> USE Shape, SelectedLease DEF LeaseInv, TypeInv
<1>1. /\ files' = [files EXCEPT ![nextGen] = Selected]
      /\ nextGen' = nextGen + 1 /\ nextGen \in 1..MaxGen
      /\ UNCHANGED <<fence, markers>>
  BY LeaseAssumption DEF CopyEpoch, Selected
<1>2. fence.gen # nextGen
  BY DEF WellFormed
<1>3. Selected' = Selected
  BY <1>1, <1>2 DEF Selected, LeaseAt
<1>4. WellFormed'
  BY <1>1, <1>2, SelectedLease DEF WellFormed
<1> QED
  BY <1>1, <1>3, <1>4 DEF Unmoved, Retirements, Selected

LEMMA RotateUnmoved ==
    ASSUME LeaseInv, NEW r \in Live, Rotate(r)
    PROVE  Unmoved
<1>1. UNCHANGED <<files, markers, nextGen>>
  BY DEF Rotate
<1>2. CASE fence' = fence
  BY <1>1, <1>2 DEF Unmoved, LeaseInv, WellFormed, Selected, LeaseAt, Retirements
<1>3. CASE fence' = ctx[r]
  <2>1. /\ ctx[r].gen \in 1..(nextGen - 1)
        /\ LeaseAt(ctx[r]) = Selected
    BY DEF LeaseInv, Fenced, Rotate, At
  <2>2. Selected' = Selected
    BY <1>1, <1>3, <2>1 DEF Selected, LeaseAt
  <2>3. WellFormed'
    BY <1>1, <1>3, <2>1, Shape DEF LeaseInv, TypeInv, WellFormed, NoFence
  <2> QED
    BY <1>1, <2>2, <2>3 DEF Unmoved, Retirements, Selected
<1> QED
  BY <1>2, <1>3 DEF Rotate

LEMMA ClaimOutcome ==
    ASSUME LeaseInv, NEW r \in Live,
           ClaimCreate(r) \/ ClaimMigrate(r) \/ PublishFence(r) \/ CommitFence(r)
    PROVE  \/ Unmoved /\ pc'[r] # "return"
           \/ Granted(r) /\ op[r] = "claim" /\ pc'[r] = "return" /\ cur'[r] = Selected'
<1> USE LeaseAssumption
<1> DEFINE fresh == [owner |-> r, hb |-> 0, retired |-> {}]
<1>0. TypeOK
  BY DEF LeaseInv, TypeInv
<1>1. CASE ClaimCreate(r)
  <2>1. Selected = Missing /\ ctx[r] = fence /\ op[r] = "claim"
    BY <1>1 DEF LeaseInv, Current, Fenced, FitsOp, ClaimCreate, At, Inside, Labels
  <2>2. fence.src = "epoch" /\ fence.gen \in 1..MaxGen
    BY <1>1, <2>1, SelectedLease DEF ClaimCreate, LeaseInv, WellFormed
  <2>3. UNCHANGED <<fence, markers, nextGen>>
    BY <1>1 DEF ClaimCreate
  <2>4. CASE UNCHANGED files /\ pc'[r] = "idle"
    BY <2>3, <2>4 DEF Unmoved, LeaseInv, WellFormed, Selected, LeaseAt, Retirements
  <2>5. CASE /\ files' = [files EXCEPT ![fence.gen] = fresh] /\ cur'[r] = fresh
             /\ pc'[r] = "return"
    <3>1. Selected' = fresh
      BY <1>0, <2>2, <2>3, <2>5, Shape DEF Selected, LeaseAt
    <3>2. WellFormed'
      BY <1>0, <2>2, <2>3, <2>5, Shape DEF WellFormed, LeaseInv, Live
    <3>3. Retirements' = Retirements
      BY <2>1, <2>3, <3>1, SelectedLease DEF Retirements, Selected
    <3> QED
      BY <2>1, <2>5, <3>1, <3>2, <3>3 DEF Granted
  <2> QED
    BY <1>0, <1>1, <2>1, <2>4, <2>5, Shape DEF ClaimCreate, Raise, Goto, Live
<1>2. CASE ClaimMigrate(r)
  <2> DEFINE gen == IF first[r] THEN nextGen ELSE ctx[r].gen
  <2>1. Selected = Missing /\ ctx[r] = fence
    BY <1>2 DEF LeaseInv, Current, Fenced, ClaimMigrate, At, Inside, Labels
  <2>2. fence.src = "legacy"
    BY <1>2, <2>1 DEF ClaimMigrate
  <2>3. /\ files' = [files EXCEPT ![gen] = fresh]
        /\ UNCHANGED <<fence, markers>>
        /\ nextGen' \in {nextGen, nextGen + 1}
    BY <1>2 DEF ClaimMigrate
  <2>4. Selected' = Missing
    BY <2>2, <2>3 DEF Selected, LeaseAt
  <2>5. \A g \in 1..MaxGen : files'[g] \in {files[g], fresh}
    BY <1>0, <2>3, Shape
  <2>6. WellFormed'
    BY <1>0, <2>3, <2>5, SelectedLease, Shape DEF WellFormed, LeaseInv, Live
  <2>7. pc'[r] = "publish"
    BY <1>0, <1>2, Shape DEF ClaimMigrate, Goto, Live
  <2> QED
    BY <2>1, <2>3, <2>4, <2>6, <2>7 DEF Unmoved, Retirements, Selected
<1>3. ASSUME UNCHANGED <<files, markers, nextGen>>, fence' = EpochOf(ctx[r]),
             pc[r] \in {"publish", "commit"}, pc'[r] = "return", cur' = cur
      PROVE  Granted(r) /\ op[r] = "claim" /\ cur'[r] = Selected'
  <2>1. /\ ctx[r].gen \in 1..(nextGen - 1) /\ fence.src = "legacy"
        /\ files[ctx[r].gen] = fresh /\ cur[r] = fresh /\ op[r] = "claim"
    BY <1>3 DEF LeaseInv, Current, Fenced, FitsOp
  <2>2. Selected = Missing
    BY <2>1, SelectedLease
  <2>3. fence'.src = "epoch" /\ fence'.gen = ctx[r].gen
    <3>1. ctx[r] \in Fence
      BY <1>0 DEF TypeOK, Live
    <3> QED
      BY <1>3, <3>1 DEF EpochOf, Fence
  <2>4. Selected' = fresh
    BY <1>3, <2>1, <2>3 DEF Selected, LeaseAt
  <2>5. WellFormed'
    BY <1>0, <1>3, <2>1, <2>3, Shape DEF WellFormed, LeaseInv
  <2>6. Retirements' = Retirements
    BY <1>3, <2>2, <2>4, SelectedLease DEF Retirements, Selected
  <2> QED
    BY <1>3, <2>1, <2>2, <2>4, <2>5, <2>6 DEF Granted
<1>4. CASE PublishFence(r)
  <2>1. UNCHANGED <<files, markers, nextGen, cur>> /\ pc[r] = "publish"
    BY <1>4 DEF PublishFence, At
  <2>2. CASE fence' = fence /\ pc'[r] # "return"
    BY <2>1, <2>2 DEF Unmoved, LeaseInv, WellFormed, Selected, LeaseAt, Retirements
  <2>3. CASE fence' = EpochOf(ctx[r]) /\ pc'[r] = "return"
    BY <1>3, <2>1, <2>3
  <2> QED
    BY <1>0, <1>4, <2>2, <2>3, Shape DEF PublishFence, Raise, Goto, Live
<1>5. CASE CommitFence(r)
  <2>1. pc[r] = "commit" /\ pc'[r] = "return"
    BY <1>0, <1>5, Shape DEF CommitFence, At, Goto, Live
  <2> QED
    BY <1>3, <1>5, <2>1 DEF CommitFence
<1> QED
  BY <1>1, <1>2, <1>4, <1>5

LEMMA ReplaceTakesOver ==
    ASSUME LeaseInv, NEW r \in Live, TakeoverReplace(r)
    PROVE  TakenOver(r)
<1> USE LeaseAssumption
<1>1. /\ Selected.owner \in Runtimes /\ cur[r] = Selected /\ pos[r] = Len(log)
      /\ ctx[r] = fence
  BY DEF LeaseInv, Current, Fenced, TakeoverReplace, At, Inside, Labels
<1>2. /\ fence.src = "epoch" /\ fence.gen \in 1..MaxGen
  BY <1>1, SelectedLease
<1>3. Successor(r) = [owner |-> r, hb |-> 0, retired |-> Selected.retired \cup {Cutoff}]
  BY <1>1 DEF Successor, Cutoff
<1>4. /\ files' = [files EXCEPT ![fence.gen] = Successor(r)]
      /\ UNCHANGED <<fence, markers, nextGen>>
  BY <1>1 DEF TakeoverReplace
<1>5. Selected' = Successor(r)
  BY <1>2, <1>4, Shape DEF Selected, LeaseAt, LeaseInv, TypeInv
<1>6. WellFormed'
  BY <1>2, <1>3, <1>4, Shape DEF WellFormed, LeaseInv, TypeInv, Live
<1>7. Retirements' = markers \cup Selected'.retired
  BY <1>4 DEF Retirements, Selected
<1> QED
  BY <1>1, <1>3, <1>5, <1>6, <1>7 DEF TakenOver, Retirements, Selected

LEMMA BeatUnmoved ==
    ASSUME LeaseInv, NEW r \in Live, BeatWrite(r)
    PROVE  Unmoved
<1> USE LeaseAssumption
<1>1. /\ Selected.owner = r /\ HasLease(r) /\ ctx[r] = fence
      /\ mem[r].retired = Selected.retired
  BY DEF LeaseInv, Current, Fenced, FitsOp, Remembers, BeatWrite, At, Inside, Labels,
    Holding
<1>2. fence.src = "epoch" /\ fence.gen \in 1..MaxGen
  BY <1>1, SelectedLease DEF Live
<1>3. /\ files' = [files EXCEPT ![fence.gen] = mem'[r]]
      /\ UNCHANGED <<fence, markers, nextGen>>
  BY <1>1 DEF BeatWrite
<1>4. mem'[r].owner = r /\ mem'[r].retired = Selected.retired
  <2>1. mem[r] \in Lease
    BY DEF LeaseInv, TypeInv, TypeOK, Live
  <2>2. mem'[r] = [mem[r] EXCEPT !.hb = mem[r].hb + 1]
    BY Shape DEF BeatWrite, LeaseInv, TypeInv, Live
  <2> QED
    BY <1>1, <2>1, <2>2 DEF Lease, HasLease
<1>5. Selected' = mem'[r]
  BY <1>2, <1>3, Shape DEF Selected, LeaseAt, LeaseInv, TypeInv
<1>6. WellFormed'
  BY <1>2, <1>3, <1>4, Shape DEF WellFormed, LeaseInv, TypeInv, Live
<1> QED
  BY <1>1, <1>3, <1>4, <1>5, <1>6 DEF Unmoved, Retirements, Selected

LEMMA MarkUnmoved ==
    ASSUME LeaseInv, NEW r \in Live, Mark(r)
    PROVE  Unmoved
<1>1. Selected = cur[r]
  BY DEF LeaseInv, Current, Mark, At
<1>2. UNCHANGED <<fence, files, nextGen>> /\ markers \subseteq markers'
      /\ markers' \subseteq markers \cup Selected.retired
  BY <1>1 DEF Mark
<1> QED
  BY <1>2 DEF Unmoved, LeaseInv, WellFormed, Retirements, Selected, LeaseAt

LEMMA UnlinkDrops ==
    ASSUME LeaseInv, NEW r \in Live, Unlink(r)
    PROVE  Dropped(r)
<1> USE LeaseAssumption
<1>1. /\ Selected = cur[r] /\ ctx[r] = fence /\ cur[r].retired \subseteq markers
      /\ Selected.owner \in IF op[r] = "release" THEN {r} ELSE crashed
  BY DEF LeaseInv, Current, Fenced, FitsOp, Unlink, At, Inside, Labels
<1>2. fence.src = "epoch" /\ fence.gen \in 1..MaxGen
  <2>1. crashed \subseteq Runtimes
    BY DEF LeaseInv, TypeInv, TypeOK
  <2> QED
    BY <1>1, <2>1, SelectedLease DEF Live
<1>3. /\ files' = [files EXCEPT ![fence.gen] = Missing]
      /\ UNCHANGED <<fence, markers, nextGen>>
  BY <1>1 DEF Unlink
<1>4. Selected' = Missing
  BY <1>2, <1>3, Shape DEF Selected, LeaseAt, LeaseInv, TypeInv
<1>5. WellFormed'
  BY <1>2, <1>3, Shape DEF WellFormed, LeaseInv, TypeInv
<1>6. Retirements' = Retirements
  BY <1>1, <1>3, <1>4, SelectedLease DEF Retirements, Selected
<1> QED
  BY <1>1, <1>4, <1>5, <1>6, SelectedLease DEF Dropped

-----------------------------------------------------------------------------
(* What the other runtimes keep *)

\* The lock of a live holder is not taken away.
LEMMA NextLocked ==
    ASSUME LeaseInv, Pausable = {}, NEW r \in Runtimes, StepOf(r), NEW q \in Live'
    PROVE  Locked(q)'
<1>0. TypeOK /\ q \in Runtimes
  BY DEF LeaseInv, TypeInv, Live
<1>1. q \in Live
  <2>1. crashed \subseteq crashed'
    BY <1>0, StepFacts
  <2> QED
    BY <1>0, <2>1 DEF Live
<1>2. Locked(q)
  BY <1>1 DEF LeaseInv
<1> USE <1>0, <1>1, <1>2, Shape, LeaseAssumption DEF Locked, Goto, Raise, Unlock, Inside, Labels, Live, At
<1>3. CASE q = r
  <2>1. CASE \E o \in Ops : Begin(r, o)
    BY <2>1 DEF Begin
  <2>2. CASE Acquire(r) \/ Reclaim(r) \/ Timeout(r) \/ UseFence(r) \/ CopyEpoch(r)
             \/ Rotate(r) \/ Return(r)
    BY <2>2 DEF Acquire, Reclaim, Timeout, UseFence, CopyEpoch, Rotate, Return
  <2>3. CASE Crash(r) \/ ClaimRead(r) \/ ClaimCreate(r) \/ ClaimMigrate(r)
             \/ PublishFence(r) \/ CommitFence(r) \/ TakeoverRead(r)
    BY <2>3 DEF Crash, ClaimRead, ClaimCreate, ClaimMigrate, PublishFence,
      CommitFence, TakeoverRead
  <2>4. CASE TakeoverCut(r) \/ TakeoverReplace(r) \/ AppendCheck(r)
             \/ AppendRead(r) \/ AppendWrite(r) \/ AppendPost(r) \/ BeatRead(r)
    BY <2>4 DEF TakeoverCut, TakeoverReplace, AppendCheck, AppendRead,
      AppendWrite, AppendPost, BeatRead
  <2>5. CASE BeatWrite(r) \/ ReleaseRead(r) \/ RetireRead(r) \/ Mark(r)
             \/ Unlink(r)
    BY <2>5 DEF BeatWrite, ReleaseRead, RetireRead, Mark, Unlink
  <2> QED
    BY <2>1, <2>2, <2>3, <2>4, <2>5
    DEF StepOf, LockStep, ClaimStep, TakeoverStep, AppendStep, UpkeepStep
<1>4. CASE q # r
  <2>0. pc'[q] = pc[q]
    BY <1>0, <1>4, StepFacts DEF Keeps
  <2>1. CASE \E o \in Ops : Begin(r, o)
    BY <2>0, <1>4, <2>1 DEF Begin
  <2>2. CASE Acquire(r) \/ Reclaim(r) \/ Timeout(r) \/ UseFence(r) \/ CopyEpoch(r)
             \/ Rotate(r) \/ Return(r)
    BY <2>0, <1>4, <2>2 DEF Acquire, Reclaim, Timeout, UseFence, CopyEpoch,
      Rotate, Return
  <2>3. CASE Crash(r) \/ ClaimRead(r) \/ ClaimCreate(r) \/ ClaimMigrate(r)
             \/ PublishFence(r) \/ CommitFence(r) \/ TakeoverRead(r)
    BY <2>0, <1>4, <2>3 DEF Crash, ClaimRead, ClaimCreate, ClaimMigrate,
      PublishFence, CommitFence, TakeoverRead
  <2>4. CASE TakeoverCut(r) \/ TakeoverReplace(r) \/ AppendCheck(r)
             \/ AppendRead(r) \/ AppendWrite(r) \/ AppendPost(r) \/ BeatRead(r)
    BY <2>0, <1>4, <2>4 DEF TakeoverCut, TakeoverReplace, AppendCheck, AppendRead,
      AppendWrite, AppendPost, BeatRead
  <2>5. CASE BeatWrite(r) \/ ReleaseRead(r) \/ RetireRead(r) \/ Mark(r)
             \/ Unlink(r)
    BY <2>0, <1>4, <2>5 DEF BeatWrite, ReleaseRead, RetireRead, Mark, Unlink
  <2> QED
    BY <2>1, <2>2, <2>3, <2>4, <2>5
    DEF StepOf, LockStep, ClaimStep, TakeoverStep, AppendStep, UpkeepStep
<1> QED
  BY <1>3, <1>4

-----------------------------------------------------------------------------
(* The acting runtime *)

LEMMA OwnFenced ==
    ASSUME LeaseInv, NEW r \in Live, r \in Live', StepOf(r)
    PROVE  Fenced(r)'
<1>0. /\ TypeOK /\ r \in Runtimes
      /\ FitsOp(r) /\ Fenced(r) /\ Current(r)
  BY DEF LeaseInv, TypeInv, Live
<1>1. CASE \E o \in Ops : Begin(r, o)
  BY <1>0, Shape, <1>1 DEF Begin, Fenced, Goto, Raise, At, local, disk, Inside,
    Labels, Ops
<1>2. CASE Acquire(r) \/ Reclaim(r) \/ Timeout(r)
  BY <1>0, Shape, <1>2 DEF Acquire, Reclaim, Timeout, Fenced, Goto, Raise, At,
    local, disk, Inside, Labels, Ops
<1>3. CASE UseFence(r)
  <2>1. pc'[r] = op[r] /\ ctx'[r] = fence' /\ (first'[r] <=> fence' = NoFence)
    BY <1>3, <1>0, Shape DEF UseFence, Goto, disk
  <2>2. op[r] \in Ops
    BY <1>0 DEF TypeOK
  <2> QED
    BY <2>1, <2>2 DEF Fenced, Ops
<1>4. CASE CopyEpoch(r)
  <2>1. pc'[r] = "rotate"
    BY <1>4, <1>0, Shape DEF CopyEpoch, Goto
  <2>2. /\ ctx'[r] = [gen |-> nextGen, src |-> fence.src]
        /\ files' = [files EXCEPT ![nextGen] = Selected]
        /\ nextGen' = nextGen + 1 /\ nextGen \in 1..MaxGen /\ fence' = fence
    BY <1>4, <1>0, Shape, LeaseAssumption DEF CopyEpoch, Selected
  <2>3. ctx'[r].gen \in 1..(nextGen' - 1) /\ fence'.gen < ctx'[r].gen
    BY <2>2 DEF LeaseInv, WellFormed
  <2>4. fence.gen # nextGen /\ Selected' = Selected
    BY <1>0, <2>2, Shape DEF Selected, LeaseAt, LeaseInv, WellFormed
  <2>5. LeaseAt(ctx[r])' = Selected
    BY <1>0, <2>2, SelectedLease, Shape DEF LeaseAt
  <2> QED
    BY <2>1, <2>3, <2>4, <2>5 DEF Fenced
<1>5. CASE Rotate(r)
  <2>1. CASE pc'[r] = "idle"
    BY <2>1 DEF Fenced, Inside, Labels
  <2>2. CASE /\ pc'[r] = op[r] /\ ctx'[r] = fence' /\ first'[r] = FALSE
             /\ fence'.gen \in 1..(nextGen - 1)
    <3>1. op[r] \in Ops
      BY <1>0 DEF TypeOK
    <3>2. fence' # NoFence
      BY <2>2 DEF NoFence
    <3> QED
      BY <2>2, <3>1, <3>2 DEF Fenced, Ops
  <2>3. ctx[r].gen \in 1..(nextGen - 1)
    BY <1>5, <1>0 DEF Fenced, Rotate, At
  <2> QED
    BY <1>5, <1>0, <2>1, <2>2, <2>3, Shape DEF Rotate, Raise, Goto
<1>6. CASE Return(r)
  BY <1>0, Shape, <1>6 DEF Return, Fenced, Goto, Raise, At, local, disk, Inside,
    Labels, Ops
<1>7. CASE Crash(r)
  BY <1>7 DEF Crash, Live
<1>8. CASE ClaimRead(r) \/ ClaimCreate(r)
  BY <1>0, Shape, <1>8 DEF ClaimRead, ClaimCreate, Fenced, Goto, Raise, At,
    local, disk, Inside, Labels, Ops
<1>9. CASE ClaimMigrate(r)
  <2> DEFINE gen == IF first[r] THEN nextGen ELSE ctx[r].gen
  <2>1. /\ pc'[r] = "publish" /\ ctx'[r] = [ctx[r] EXCEPT !.gen = gen]
        /\ cur'[r] = [owner |-> r, hb |-> 0, retired |-> {}]
        /\ files' = [files EXCEPT ![gen] = [owner |-> r, hb |-> 0, retired |-> {}]]
        /\ nextGen' = IF first[r] THEN nextGen + 1 ELSE nextGen
        /\ fence' = fence /\ first' = first
        /\ first[r] => nextGen \in 1..MaxGen
    BY <1>9, <1>0, Shape, LeaseAssumption DEF ClaimMigrate, Goto
  <2>2. /\ pc[r] = "create" /\ ctx[r] = fence /\ (first[r] <=> fence = NoFence)
        /\ fence.src = "legacy"
    BY <1>9, <1>0 DEF Fenced, ClaimMigrate, At, Inside, Labels
  <2>3. ctx'[r].gen = gen /\ ctx'[r].src = "legacy"
    <3>1. ctx[r] \in Fence
      BY <1>0 DEF TypeOK
    <3> QED
      BY <2>1, <2>2, <3>1 DEF Fence
  <2>4. gen \in 1..(nextGen' - 1) /\ gen \in 1..MaxGen
    <3>1. CASE first[r]
      BY <2>1, <3>1
    <3>2. CASE ~first[r]
      <4>1. fence.gen # 0 /\ fence.gen < nextGen /\ fence.gen \in 0..MaxGen
        BY <2>2, <3>2, SelectedLease DEF LeaseInv, WellFormed
      <4> QED
        BY <1>0, <2>1, <2>2, <3>2, <4>1, Shape, LeaseAssumption
    <3> QED
      BY <3>1, <3>2
  <2>5. files'[gen] = cur'[r]
    BY <1>0, <2>1, <2>4, Shape
  <2>6. ~first'[r] => ctx'[r] = fence'
    <3>1. ctx[r] \in Fence
      BY <1>0 DEF TypeOK
    <3> QED
      BY <2>1, <2>2, <3>1 DEF Fence
  <2> QED
    BY <2>1, <2>2, <2>3, <2>4, <2>5, <2>6 DEF Fenced
<1>10. CASE PublishFence(r) \/ CommitFence(r) \/ TakeoverRead(r)
            \/ TakeoverCut(r) \/ TakeoverReplace(r) \/ AppendCheck(r)
            \/ AppendRead(r)
  BY <1>0, Shape, <1>10 DEF PublishFence, CommitFence, TakeoverRead,
    TakeoverCut, TakeoverReplace, AppendCheck, AppendRead, Fenced, Goto, Raise,
    At, local, disk, Inside, Labels, Ops
<1>11. CASE AppendWrite(r) \/ AppendPost(r) \/ BeatRead(r) \/ BeatWrite(r)
            \/ ReleaseRead(r) \/ RetireRead(r) \/ Mark(r)
  BY <1>0, Shape, <1>11 DEF AppendWrite, AppendPost, BeatRead, BeatWrite,
    ReleaseRead, RetireRead, Mark, Fenced, Goto, Raise, At, local, disk, Inside,
    Labels, Ops
<1>12. CASE Unlink(r)
  BY <1>0, Shape, <1>12 DEF Unlink, Fenced, Goto, Raise, At, local, disk,
    Inside, Labels, Ops
<1> QED
  BY <1>1, <1>2, <1>3, <1>4, <1>5, <1>6, <1>7, <1>8, <1>9, <1>10, <1>11, <1>12
  DEF StepOf, LockStep, ClaimStep, TakeoverStep, AppendStep, UpkeepStep

LEMMA OwnCurrent ==
    ASSUME LeaseInv, NEW r \in Live, r \in Live', StepOf(r)
    PROVE  Current(r)'
<1>0. /\ TypeOK /\ r \in Runtimes
      /\ FitsOp(r) /\ Fenced(r) /\ Current(r)
  BY DEF LeaseInv, TypeInv, Live
<1>1. CASE \E o \in Ops : Begin(r, o)
  BY <1>0, Shape, <1>1 DEF Begin, Current, Goto, Raise, At, local, disk
<1>2. CASE Acquire(r) \/ Reclaim(r) \/ Timeout(r)
  BY <1>0, Shape, <1>2 DEF Acquire, Reclaim, Timeout, Current, Goto, Raise, At,
    local, disk
<1>3. CASE UseFence(r)
  <2>1. pc'[r] \in Ops
    BY <1>3, <1>0, Shape DEF UseFence, Goto, TypeOK
  <2> QED
    BY <2>1 DEF Current, Ops
<1>4. CASE CopyEpoch(r)
  BY <1>0, Shape, <1>4 DEF CopyEpoch, Current, Goto, Raise, At, local, disk
<1>5. CASE Rotate(r)
  <2>1. pc'[r] \in Ops \cup {"idle"}
    BY <1>5, <1>0, Shape DEF Rotate, Raise, Goto, TypeOK
  <2> QED
    BY <2>1 DEF Current, Ops
<1>6. CASE Return(r)
  BY <1>0, Shape, <1>6 DEF Return, Current, Goto, Raise, At, local, disk
<1>7. CASE Crash(r)
  BY <1>7 DEF Crash, Live
<1>8. CASE ClaimRead(r)
  <2>1. pc'[r] = "create" => LeaseAt(ctx[r]).owner = Nobody
    BY <1>8, <1>0, Shape DEF ClaimRead, Raise, Goto
  <2>2. pc'[r] \in {"idle", "create"} /\ Selected' = Selected /\ ctx[r] = fence
    BY <1>8, <1>0, Shape DEF ClaimRead, Raise, Goto, At, disk, Selected, LeaseAt,
      Fenced, Inside, Labels
  <2>3. pc'[r] = "create" => Selected' = Missing
    BY <2>1, <2>2, SelectedLease DEF Selected
  <2> QED
    BY <2>2, <2>3 DEF Current
<1>9. CASE ClaimCreate(r)
  <2>1. pc'[r] = "return" => op'[r] = "claim" /\ cur'[r].owner = r /\ Selected' = cur'[r]
    <3>1. op' = op /\ (Granted(r) => Selected'.owner = r)
      BY <1>9 DEF ClaimCreate, Granted
    <3> QED
      BY <1>9, <3>1, ClaimOutcome
  <2>2. pc'[r] \in {"idle", "gone", "return"} \/ (pc'[r] = "commit" /\ pc[r] = "publish" /\ cur' = cur)
    BY <1>9, <1>0, Shape DEF ClaimCreate, Raise, Goto, At
  <2> QED
    BY <1>0, <2>1, <2>2 DEF Current
<1>10. CASE ClaimMigrate(r)
  BY <1>0, Shape, <1>10 DEF ClaimMigrate, Current, Goto, Raise, At, local, disk
<1>11. CASE PublishFence(r)
  <2>1. pc'[r] = "return" => op'[r] = "claim" /\ cur'[r].owner = r /\ Selected' = cur'[r]
    <3>1. op' = op /\ (Granted(r) => Selected'.owner = r)
      BY <1>11 DEF PublishFence, Granted
    <3> QED
      BY <1>11, <3>1, ClaimOutcome
  <2>2. pc'[r] \in {"idle", "gone", "return"} \/ (pc'[r] = "commit" /\ pc[r] = "publish" /\ cur' = cur)
    BY <1>11, <1>0, Shape DEF PublishFence, Raise, Goto, At
  <2> QED
    BY <1>0, <2>1, <2>2 DEF Current
<1>12. CASE CommitFence(r)
  <2>1. pc'[r] = "return" => op'[r] = "claim" /\ cur'[r].owner = r /\ Selected' = cur'[r]
    <3>1. op' = op /\ (Granted(r) => Selected'.owner = r)
      BY <1>12 DEF CommitFence, Granted
    <3> QED
      BY <1>12, <3>1, ClaimOutcome
  <2>2. pc'[r] \in {"idle", "gone", "return"} \/ (pc'[r] = "commit" /\ pc[r] = "publish" /\ cur' = cur)
    BY <1>12, <1>0, Shape DEF CommitFence, Raise, Goto, At
  <2> QED
    BY <1>0, <2>1, <2>2 DEF Current
<1>13. CASE TakeoverRead(r)
  <2>1. CASE pc'[r] = "idle"
    BY <2>1 DEF Current
  <2>2. CASE pc'[r] = "cut" /\ cur'[r] = LeaseAt(ctx[r]) /\ StaleOwner(LeaseAt(ctx[r]).owner)
    <3>1. ctx[r] = fence /\ Selected' = Selected
      BY <1>13, <1>0 DEF TakeoverRead, At, disk, Selected, LeaseAt, Fenced, Inside,
        Labels
    <3>2. cur'[r] = Selected' /\ cur'[r].owner \in Runtimes
      BY <1>0, <2>2, <3>1, LeaseAssumption DEF StaleOwner, TypeOK, Selected
    <3> QED
      BY <2>2, <3>2 DEF Current
  <2> QED
    BY <1>13, <1>0, <2>1, <2>2, Shape DEF TakeoverRead, Raise, Goto
<1>14. CASE TakeoverCut(r)
  <2>1. /\ pc'[r] = "replace" /\ pc[r] = "cut" /\ pos'[r] = Len(log')
        /\ cur' = cur /\ Selected' = Selected
    BY <1>14, <1>0, Shape DEF TakeoverCut, Goto, At, disk, Selected, LeaseAt
  <2> QED
    BY <1>0, <2>1 DEF Current
<1>15. CASE TakeoverReplace(r)
  <2>1. /\ pc'[r] = "return" /\ pc[r] = "replace" /\ op'[r] = "takeover"
        /\ cur'[r] = Successor(r)
    BY <1>15, <1>0, Shape DEF TakeoverReplace, Goto, At, FitsOp
  <2>2. cur[r] = Selected /\ pos[r] = Len(log)
    BY <1>0, <2>1 DEF Current
  <2>3. Selected' = Successor(r) /\ Successor(r).owner = r
    BY <1>15, <2>2, ReplaceTakesOver DEF TakenOver, Successor, Cutoff
  <2> QED
    BY <2>1, <2>3 DEF Current
<1>16. CASE AppendCheck(r)
  <2>1. pc'[r] = "idle" \/ (pc'[r] = "read" /\ MayWrite(r))
    BY <1>16, <1>0, Shape DEF AppendCheck, Raise, Goto
  <2>2. MayWrite(r) => MayWrite(r)'
    BY <1>16 DEF AppendCheck, disk, MayWrite, Retirements, LeaseAt, RetiredIn
  <2> QED
    BY <2>1, <2>2 DEF Current
<1>17. CASE AppendRead(r)
  <2>1. pc'[r] = "write" /\ pc[r] = "read"
    BY <1>17, <1>0, Shape DEF AppendRead, Goto, At
  <2>2. MayWrite(r) => MayWrite(r)'
    BY <1>17 DEF AppendRead, disk, MayWrite, Retirements, LeaseAt, RetiredIn
  <2> QED
    BY <1>0, <2>1, <2>2 DEF Current
<1>18. CASE AppendWrite(r)
  BY <1>0, Shape, <1>18 DEF AppendWrite, Current, Goto, Raise, At, local, disk
<1>19. CASE AppendPost(r)
  <2>1. pc'[r] \in {"idle", "return"} /\ pc[r] = "post" /\ op[r] = "append"
        /\ pos' = pos /\ log' = log /\ op' = op
    BY <1>19, <1>0, Shape DEF AppendPost, Raise, Goto, At, disk, local, FitsOp
  <2> QED
    BY <1>0, <2>1 DEF Current
<1>20. CASE BeatRead(r)
  <2>1. pc'[r] = "idle" \/ (pc'[r] = "rewrite" /\ LeaseAt(ctx[r]).owner = r)
    BY <1>20, <1>0, Shape DEF BeatRead, Raise, Goto
  <2>2. ctx[r] = fence /\ Selected' = Selected
    BY <1>20, <1>0 DEF BeatRead, At, disk, Selected, LeaseAt, Fenced, Inside, Labels
  <2> QED
    BY <2>1, <2>2 DEF Current, Selected
<1>21. CASE BeatWrite(r)
  <2>1. pc'[r] = "return" /\ op'[r] = "beat"
    BY <1>21, <1>0, Shape DEF BeatWrite, Goto, At, FitsOp
  <2> QED
    BY <2>1 DEF Current
<1>22. CASE ReleaseRead(r)
  <2>1. /\ op'[r] = "release" /\ cur'[r] = LeaseAt(ctx[r])
        /\ pc'[r] = "return" \/ (pc'[r] = "mark" /\ LeaseAt(ctx[r]).owner = r)
    BY <1>22, <1>0, Shape DEF ReleaseRead, Goto, At, FitsOp
  <2>2. ctx[r] = fence /\ Selected' = Selected
    BY <1>22, <1>0 DEF ReleaseRead, At, disk, Selected, LeaseAt, Fenced, Inside, Labels
  <2> QED
    BY <2>1, <2>2 DEF Current, Selected
<1>23. CASE RetireRead(r)
  <2>1. /\ op'[r] = "retire" /\ cur'[r] = LeaseAt(ctx[r]) /\ crashed' = crashed
        /\ pc'[r] = "return" \/ (pc'[r] = "mark" /\ LeaseAt(ctx[r]).owner \in crashed)
    BY <1>23, <1>0, Shape DEF RetireRead, Goto, At, FitsOp
  <2>2. ctx[r] = fence /\ Selected' = Selected
    BY <1>23, <1>0 DEF RetireRead, At, disk, Selected, LeaseAt, Fenced, Inside, Labels
  <2> QED
    BY <2>1, <2>2 DEF Current, Selected
<1>24. CASE Mark(r)
  <2>1. /\ pc[r] = "mark" /\ cur' = cur /\ op' = op /\ crashed' = crashed
        /\ pc'[r] = "mark" \/ (pc'[r] = "unlink" /\ cur[r].retired \subseteq markers')
    BY <1>24, <1>0, Shape DEF Mark, Goto, At, local
  <2>2. Selected' = Selected
    BY <1>24 DEF Mark, Selected, LeaseAt
  <2> QED
    BY <1>0, <2>1, <2>2 DEF Current
<1>25. CASE Unlink(r)
  <2>1. pc'[r] = "return" /\ op'[r] \in {"release", "retire"}
    BY <1>25, <1>0, Shape DEF Unlink, Goto, At, FitsOp
  <2> QED
    BY <2>1 DEF Current
<1> QED
  BY <1>1, <1>2, <1>3, <1>4, <1>5, <1>6, <1>7, <1>8, <1>9, <1>10, <1>11, <1>12,
    <1>13, <1>14, <1>15, <1>16, <1>17, <1>18, <1>19, <1>20, <1>21, <1>22, <1>23,
    <1>24, <1>25
  DEF StepOf, LockStep, ClaimStep, TakeoverStep, AppendStep, UpkeepStep

-----------------------------------------------------------------------------
(* The invariant *)

LEMMA OthersCurrent ==
    ASSUME LeaseInv, NEW r \in Runtimes, StepOf(r), NEW q \in Live', q # r
    PROVE  FitsOp(q)' /\ Fenced(q)' /\ Current(q)'
<1>0. TypeOK
  BY DEF LeaseInv, TypeInv
<1>1. Keeps(q) /\ q \in Live /\ q \in Runtimes
  BY <1>0, StepFacts DEF Live
<1>2. FitsOp(q) /\ Fenced(q) /\ Current(q)
  BY <1>1 DEF LeaseInv
<1>3. FitsOp(q)'
  BY <1>1, <1>2 DEF FitsOp, Keeps, HasLease
<1>4. CASE pc[q] \notin Inside
  <2>1. pc'[q] \notin Inside
    BY <1>1, <1>4 DEF Keeps
  <2> QED
    BY <1>3, <2>1 DEF Fenced, Current, Inside, Labels
<1>5. CASE pc[q] \in Inside
  <2>1. r \notin Live \/ pc[r] \notin Inside
    BY <1>1, <1>5, Alone
  <2>2. UNCHANGED <<fence, files, markers, log, nextGen>> /\ crashed \subseteq crashed'
    BY <1>0, <2>1, StepFacts DEF disk
  <2>3. Selected' = Selected /\ (MayWrite(q) => MayWrite(q)')
    BY <2>2 DEF Selected, LeaseAt, MayWrite, RetiredIn, Retirements
  <2>4. LeaseAt(ctx[q])' = LeaseAt(ctx[q])
    BY <1>1, <2>2 DEF LeaseAt, Keeps
  <2>5. Fenced(q)'
    BY <1>1, <1>2, <2>2, <2>3, <2>4 DEF Fenced, Keeps
  <2>6. Current(q)'
    BY <1>1, <1>2, <2>2, <2>3 DEF Current, Keeps
  <2> QED
    BY <1>3, <2>5, <2>6
<1> QED
  BY <1>4, <1>5

\* A step that changes the owner of the selected lease.
Writes(r) ==
    /\ r \in Live /\ pc'[r] = "return" /\ pc[r] \in Inside \ {"return"}
    /\ op'[r] = op[r] /\ mem' = mem /\ log' = log /\ crashed' = crashed
    /\ \/ Granted(r) /\ op[r] = "claim"
       \/ TakenOver(r) /\ op[r] = "takeover"
       \/ Dropped(r) /\ op[r] \in {"release", "retire"}

LEMMA Outcome ==
    ASSUME LeaseInv, NEW r \in Runtimes, StepOf(r)
    PROVE  Unmoved \/ Writes(r)
<1> USE DEF LeaseInv, TypeInv, Live
<1>1. CASE Quiet(r)
  BY <1>1, QuietUnmoved
<1>2. CASE CopyEpoch(r)
  BY <1>2, CopyUnmoved
<1>3. CASE Rotate(r)
  BY <1>3, RotateUnmoved DEF Rotate, At
<1>4. CASE ClaimCreate(r) \/ ClaimMigrate(r) \/ PublishFence(r) \/ CommitFence(r)
  <2>1. r \in Live /\ pc[r] \in {"create", "publish", "commit"}
    BY <1>4 DEF ClaimCreate, ClaimMigrate, PublishFence, CommitFence, At
  <2>2. op' = op /\ mem' = mem /\ log' = log /\ crashed' = crashed
    BY <1>4 DEF ClaimCreate, ClaimMigrate, PublishFence, CommitFence
  <2> QED
    BY <1>4, <2>1, <2>2, ClaimOutcome DEF Writes, Inside, Labels
<1>5. CASE TakeoverReplace(r)
  <2>1. /\ r \in Live /\ pc[r] = "replace" /\ pc'[r] = "return"
        /\ op' = op /\ mem' = mem /\ log' = log /\ crashed' = crashed
    BY <1>5, Shape DEF TakeoverReplace, At, Goto
  <2>2. op[r] = "takeover"
    BY <2>1 DEF FitsOp
  <2> QED
    BY <1>5, <2>1, <2>2, ReplaceTakesOver DEF Writes, Inside, Labels
<1>6. CASE BeatWrite(r)
  BY <1>6, BeatUnmoved DEF BeatWrite, At
<1>7. CASE Mark(r)
  BY <1>7, MarkUnmoved DEF Mark, At
<1>8. CASE Unlink(r)
  <2>1. /\ r \in Live /\ pc[r] = "unlink" /\ pc'[r] = "return"
        /\ op' = op /\ mem' = mem /\ log' = log /\ crashed' = crashed
    BY <1>8, Shape DEF Unlink, At, Goto, local
  <2>2. op[r] \in {"release", "retire"}
    BY <2>1 DEF FitsOp
  <2> QED
    BY <1>8, <2>1, <2>2, UnlinkDrops DEF Writes, Inside, Labels
<1> QED
  BY <1>1, <1>2, <1>3, <1>4, <1>5, <1>6, <1>7, <1>8
  DEF StepOf, Quiet, LockStep, ClaimStep, TakeoverStep, AppendStep, UpkeepStep

LEMMA RetirementsGrow ==
    ASSUME Unmoved \/ (\E r \in Runtimes : Writes(r))
    PROVE  Retirements \subseteq Retirements'
BY DEF Unmoved, Writes, Granted, TakenOver, Dropped

\* Who has stopped writing does not write again.
LEMMA PastGrows ==
    ASSUME LeaseInv, NEW r \in Runtimes, StepOf(r)
    PROVE  Past \subseteq Past'
<1>0. TypeOK
  BY DEF LeaseInv, TypeInv
<1>1. Retirements \subseteq Retirements'
  BY Outcome, RetirementsGrow
<1>2. crashed \subseteq crashed'
  BY <1>0, StepFacts
<1>3. SUFFICES ASSUME NEW q \in Past, q \in Live', ~RetiredIn(q, Retirements)'
               PROVE  q \in Past'
  BY <1>2 DEF Past, Live
<1>4. q \in Runtimes /\ (pc[q] = "gone" \/ (pc[q] = "return" /\ op[q] = "release"))
  BY <1>1, <1>2, <1>3 DEF Past, RetiredIn, Live
<1>5. CASE q # r
  BY <1>0, <1>4, <1>5, StepFacts DEF Keeps, Past
<1>6. CASE q = r
  <2>1. Return(r) /\ op[r] = "release"
    BY <1>0, <1>3, <1>4, <1>6, StepFacts
  <2>2. pc'[r] = "gone"
    BY <1>0, <2>1, Shape DEF Return, Goto
  <2> QED
    BY <1>6, <2>2 DEF Past
<1> QED
  BY <1>5, <1>6

\* What a call that returns has given its runtime.
LEMMA ReturnFacts ==
    ASSUME LeaseInv, NEW r \in Live, Return(r)
    PROVE  /\ UNCHANGED <<fence, files, markers, log, crashed>>
           /\ op[r] \in {"claim", "takeover"} =>
                HasLease(r)' /\ mem'[r] = Selected /\ Selected.owner = r
           /\ op[r] \notin {"claim", "takeover"} => mem'[r] = mem[r]
           /\ op[r] = "append" => pos[r] \in 1..Len(log)
           /\ acked' \subseteq IF op[r] = "append" THEN acked \cup {pos[r]} ELSE acked
           /\ pc'[r] = IF op[r] = "release" THEN "gone" ELSE "idle"
<1>1. /\ pc[r] = "return" /\ ctx[r] = fence /\ TypeOK /\ r \in Runtimes
      /\ op[r] \in {"claim", "takeover"} => cur[r].owner = r /\ Selected = cur[r]
      /\ op[r] = "append" => pos[r] \in 1..Len(log)
  BY DEF LeaseInv, TypeInv, Fenced, Current, Return, At, Inside, Labels, Live
<1>2. /\ mem' = [mem EXCEPT ![r] = IF op[r] \in {"claim", "takeover"} THEN cur[r] ELSE mem[r]]
      /\ acked' = IF op[r] = "append" THEN acked \cup {pos[r]} ELSE acked
      /\ pc' = [pc EXCEPT ![r] = IF op[r] = "release" THEN "gone" ELSE "idle"]
      /\ UNCHANGED <<fence, files, markers, log, crashed>>
  BY <1>1 DEF Return, Goto, disk
<1>3. /\ mem'[r] = IF op[r] \in {"claim", "takeover"} THEN cur[r] ELSE mem[r]
      /\ pc'[r] = IF op[r] = "release" THEN "gone" ELSE "idle"
  BY <1>1, <1>2, Shape
<1> QED
  BY <1>1, <1>2, <1>3 DEF HasLease

LEMMA NextRemembers ==
    ASSUME LeaseInv, NEW r \in Runtimes, StepOf(r), NEW q \in Live'
    PROVE  Remembers(q)'
<1>0. /\ TypeOK /\ q \in Live /\ q \in Runtimes
      /\ Remembers(q) /\ Unused(q) /\ FitsOp(q) /\ Locked(q)
  BY StepFacts DEF LeaseInv, TypeInv, Live
<1>1. CASE Writes(r)
  <2>1. CASE Dropped(r)
    BY <1>0, <2>1, LeaseAssumption DEF Dropped, Remembers
  <2>2. CASE Granted(r) \/ TakenOver(r)
    <3>1. Selected'.owner = r /\ mem' = mem
      BY <1>1, <2>2 DEF Writes, Granted, TakenOver
    <3>2. ~HasLease(r)
      <4>1. op[r] \notin Holding \/ Dropped(r)
        BY <1>1 DEF Writes, Holding
      <4>2. CASE Dropped(r)
        BY <3>1, <4>2, LeaseAssumption DEF Dropped
      <4>3. CASE op[r] \notin Holding
        BY <1>1, <4>3 DEF Writes, LeaseInv, FitsOp, Inside
      <4> QED
        BY <4>1, <4>2, <4>3
    <3> QED
      BY <3>1, <3>2 DEF Remembers, HasLease
  <2> QED
    BY <1>1, <2>1, <2>2 DEF Writes
<1>2. CASE Unmoved /\ Steady
  BY <1>0, <1>2 DEF Unmoved, Steady, Remembers, HasLease
<1>3. CASE Unmoved /\ Return(r)
  <2>1. CASE q # r \/ op[r] \notin {"claim", "takeover"}
    <3>1. mem'[q] = mem[q]
      BY <1>0, <1>3, <2>1, StepFacts, ReturnFacts DEF Keeps
    <3> QED
      BY <1>0, <1>3, <3>1 DEF Unmoved, Remembers, HasLease
  <2>2. CASE q = r /\ op[r] \in {"claim", "takeover"}
    BY <1>0, <1>3, <2>2, ReturnFacts DEF Unmoved, Remembers
  <2> QED
    BY <2>1, <2>2
<1> QED
  BY <1>0, <1>1, <1>2, <1>3, Outcome, StepFacts

LEMMA NextUnused ==
    ASSUME LeaseInv, NEW r \in Runtimes, StepOf(r), NEW q \in Live'
    PROVE  Unused(q)'
<1>0. TypeOK /\ q \in Live /\ q \in Runtimes /\ Unused(q)
  BY StepFacts DEF LeaseInv, TypeInv, Live
<1>1. SUFFICES ASSUME ~HasLease(q)', pc'[q] # "gone",
                      ~(pc'[q] = "return" /\ op'[q] \in {"claim", "takeover"})
               PROVE  Selected'.owner # q /\ ~RetiredIn(q, Retirements)'
  BY DEF Unused
<1>2. Selected.owner # q /\ ~RetiredIn(q, Retirements)
  <2>1. CASE q # r
    BY <1>0, <1>1, <2>1, StepFacts DEF Keeps, Unused, HasLease
  <2>2. CASE q = r /\ Return(r)
    <3>1. op[r] \notin {"claim", "takeover"} /\ mem'[r] = mem[r]
      BY <1>0, <1>1, <2>2, ReturnFacts
    <3>2. ~HasLease(q) /\ pc[q] # "gone"
      BY <1>1, <2>2, <3>1 DEF HasLease, Return, At
    <3> QED
      BY <1>0, <2>2, <3>1, <3>2 DEF Unused
  <2>3. CASE q = r /\ ~Return(r)
    <3>1. Steady /\ pc[r] # "gone" /\ pc[r] # "return"
      BY <1>0, <2>3, StepFacts
    <3> QED
      BY <1>0, <1>1, <2>3, <3>1 DEF Unused, Steady, HasLease
  <2> QED
    BY <2>1, <2>2, <2>3
<1>3. CASE Unmoved
  BY <1>2, <1>3 DEF Unmoved, RetiredIn
<1>4. CASE Writes(r)
  <2>1. CASE Dropped(r)
    BY <1>0, <1>2, <2>1, LeaseAssumption DEF Dropped, RetiredIn
  <2>2. CASE (Granted(r) \/ TakenOver(r)) /\ op[r] \in {"claim", "takeover"}
    <3>1. q # r
      BY <1>1, <1>4, <2>2 DEF Writes
    <3> QED
      BY <1>2, <2>2, <3>1 DEF Granted, TakenOver, RetiredIn, Cutoff
  <2> QED
    BY <1>4, <2>1, <2>2 DEF Writes
<1> QED
  BY <1>3, <1>4, Outcome

LEMMA NextKnowsIt ==
    ASSUME LeaseInv, NEW r \in Runtimes, StepOf(r), NEW q \in Live'
    PROVE  KnowsIt(q)'
<1>0. TypeOK /\ q \in Live /\ q \in Runtimes /\ KnowsIt(q)
  BY StepFacts DEF LeaseInv, TypeInv, Live
<1>1. SUFFICES ASSUME HasLease(q)', q \notin Past'
               PROVE  Selected'.owner = q
  BY DEF KnowsIt
<1>2. q \notin Past
  BY <1>1, PastGrows
<1>3. CASE q = r /\ Return(r) /\ op[r] \in {"claim", "takeover"}
  BY <1>3, <1>0, ReturnFacts DEF Selected, LeaseAt
<1>4. CASE ~(q = r /\ Return(r) /\ op[r] \in {"claim", "takeover"})
  <2>1. mem'[q].owner = mem[q].owner
    BY <1>0, <1>4, StepFacts, ReturnFacts DEF Keeps, Steady
  <2>2. Selected.owner = q
    BY <1>0, <1>1, <1>2, <2>1 DEF KnowsIt, HasLease
  <2>3. CASE Unmoved
    BY <2>2, <2>3 DEF Unmoved
  <2>4. CASE Writes(r) /\ Granted(r)
    BY <1>0, <2>2, <2>4, SelectedLease, LeaseAssumption DEF Granted
  <2>5. CASE Writes(r) /\ TakenOver(r)
    <3>1. Cutoff \in Retirements' /\ Cutoff.owner = q
      BY <2>2, <2>5 DEF TakenOver, Cutoff
    <3> QED
      BY <1>0, <1>1, <3>1 DEF Past, RetiredIn
  <2>6. CASE Writes(r) /\ Dropped(r)
    <3>1. CASE op[r] = "release"
      <4>1. q = r /\ pc'[q] = "return" /\ op'[q] = "release"
        BY <2>2, <2>6, <3>1 DEF Dropped, Writes
      <4> QED
        BY <1>0, <1>1, <4>1 DEF Past
    <3>2. CASE op[r] # "release"
      BY <1>0, <2>2, <2>6, <3>2 DEF Dropped, Live
    <3> QED
      BY <3>1, <3>2
  <2> QED
    BY <2>3, <2>4, <2>5, <2>6, Outcome DEF Writes
<1> QED
  BY <1>3, <1>4

\* The calls that returned an event returned one that is in the log.
LEMMA NextAcked ==
    ASSUME LeaseInv, NEW r \in Runtimes, StepOf(r)
    PROVE  acked' \subseteq 1..Len(log')
<1>0. TypeOK /\ acked \subseteq 1..Len(log)
  BY DEF LeaseInv, TypeInv
<1>1. CASE Return(r)
  <2>1. r \in Live
    BY <1>1 DEF Return, At, Live
  <2> QED
    BY <1>0, <1>1, <2>1, ReturnFacts
<1>2. CASE ~Return(r)
  <2>1. acked' = acked
    <3>1. CASE LockStep(r) \/ Crash(r) \/ \E o \in Ops : Begin(r, o)
      BY <1>2, <3>1 DEF LockStep, Crash, Begin, Acquire, Reclaim, Timeout, UseFence,
        CopyEpoch, Rotate
    <3>2. CASE ClaimStep(r) \/ TakeoverStep(r)
      BY <3>2 DEF ClaimStep, TakeoverStep, ClaimRead, ClaimCreate, ClaimMigrate,
        PublishFence, CommitFence, TakeoverRead, TakeoverCut, TakeoverReplace
    <3>3. CASE AppendStep(r) \/ UpkeepStep(r)
      BY <3>3 DEF AppendStep, UpkeepStep, AppendCheck, AppendRead, AppendWrite,
        AppendPost, BeatRead, BeatWrite, ReleaseRead, RetireRead, Mark, Unlink
    <3> QED
      BY <3>1, <3>2, <3>3 DEF StepOf
  <2>2. log' = log \/ log' = Append(log, r)
    BY <1>0, StepFacts
  <2>3. Len(log') \in {Len(log), Len(log) + 1}
    BY <1>0, <2>2, Shape
  <2> QED
    BY <1>0, <2>1, <2>3, Shape
<1> QED
  BY <1>1, <1>2

LEMMA NextLeaseInv ==
    ASSUME LeaseInv, Pausable = {}, [Next]_vars
    PROVE  LeaseInv'
<1>0. TypeInv'
  BY NextTypeInv DEF LeaseInv
<1>1. CASE UNCHANGED vars
  BY <1>0, <1>1 DEF vars, disk, local, history, LeaseInv, WellFormed, Live, Locked, FitsOp,
    Fenced, Current, Remembers, Unused, KnowsIt, Past, HasLease, Selected, LeaseAt,
    Retirements, RetiredIn, MayWrite
<1>2. ASSUME NEW r \in Runtimes, StepOf(r)
      PROVE  LeaseInv'
  <2>1. WellFormed'
    BY <1>2, Outcome DEF Unmoved, Writes, Granted, TakenOver, Dropped
  <2>2. ASSUME NEW q \in Live'
        PROVE  /\ Locked(q)' /\ FitsOp(q)' /\ Fenced(q)' /\ Current(q)'
               /\ Remembers(q)' /\ Unused(q)' /\ KnowsIt(q)'
    <3>1. FitsOp(q)' /\ Fenced(q)' /\ Current(q)'
      <4>1. TypeOK /\ (r \in Live => FitsOp(r))
        BY DEF LeaseInv, TypeInv
      <4>2. CASE q = r
        BY <1>2, <2>2, <4>1, <4>2, StepFacts, OwnFitsOp, OwnFenced, OwnCurrent
      <4>3. CASE q # r
        BY <1>2, <2>2, <4>3, OthersCurrent
      <4> QED
        BY <4>2, <4>3
    <3> QED
      BY <1>2, <2>2, <3>1, NextLocked, NextRemembers, NextUnused, NextKnowsIt
  <2>3. acked' \subseteq 1..Len(log')
    BY <1>2, NextAcked
  <2> QED
    BY <1>0, <2>1, <2>2, <2>3 DEF LeaseInv
<1> QED
  BY <1>1, <1>2 DEF Next, StepOf

-----------------------------------------------------------------------------
(* The refinement *)

\* Only the acting runtime, or one that a takeover retires, stops writing.
LEMMA PastStep ==
    ASSUME LeaseInv, NEW r \in Runtimes, StepOf(r), NEW q \in Past', q \notin Past, q # r
    PROVE  RetiredIn(q, Retirements)'
<1>0. TypeOK
  BY DEF LeaseInv, TypeInv
<1> QED
  BY <1>0, StepFacts DEF Past, Keeps

LEMMA WritesImplement ==
    ASSUME LeaseInv, NEW r \in Runtimes, StepOf(r), Writes(r)
    PROVE  Abstract!Next
<1>0. Past \subseteq Past' /\ log' = log /\ Past \subseteq Runtimes
  BY PastGrows DEF Writes, Past
<1>1. r \in Live /\ Unused(r) /\ FitsOp(r) /\ Locked(r)
  BY DEF Writes, LeaseInv
<1>2. CASE Granted(r) /\ op[r] = "claim"
  <2>1. ~HasLease(r) /\ pc[r] \notin {"gone", "return"}
    BY <1>1, <1>2 DEF FitsOp, Writes, Inside, Labels, Holding
  <2>2. r \notin Past
    BY <1>1, <2>1 DEF Unused, Past, Live
  <2>3. r \notin Past'
    BY <1>1, <1>2, <2>1 DEF Unused, Past, Live, Writes, Granted, RetiredIn
  <2>4. Past' = Past
    BY <1>0, <1>2, <2>3, PastStep DEF Granted, Past, RetiredIn
  <2>5. Selected.owner = Nobody /\ Selected'.owner = r
    BY <1>2, SelectedLease DEF Granted
  <2> QED
    BY <1>0, <1>2, <2>2, <2>4, <2>5 DEF Abstract!Next, Abstract!Grant, Granted, Selected
<1>3. CASE TakenOver(r) /\ op[r] = "takeover"
  <2>1. ~HasLease(r) /\ pc[r] \notin {"gone", "return"}
    BY <1>1, <1>3 DEF FitsOp, Writes, Inside, Labels, Holding
  <2>2. r \notin Past \cup {Selected.owner} /\ ~RetiredIn(r, Retirements)
    BY <1>1, <2>1 DEF Unused, Past, Live
  <2>3. Cutoff.owner = Selected.owner
    BY DEF Cutoff
  <2>4. \A q : RetiredIn(q, Retirements)' <=> RetiredIn(q, Retirements) \/ q = Selected.owner
    BY <1>3, <2>3 DEF TakenOver, RetiredIn
  <2>5. r \notin Past'
    BY <1>1, <1>3, <2>2, <2>4 DEF Past, Live, Writes
  <2>6. Selected.owner \in Past'
    BY <1>3, <2>4 DEF Past, TakenOver
  <2>7. Past' = Past \cup {Selected.owner}
    <3>1. ASSUME NEW q \in Past', q \notin Past  PROVE q = Selected.owner
      <4>1. RetiredIn(q, Retirements)'
        BY <2>5, <3>1, PastStep
      <4>2. ~RetiredIn(q, Retirements)
        BY <3>1 DEF Past
      <4> QED
        BY <2>4, <4>1, <4>2
    <3> QED
      BY <1>0, <2>6, <3>1
  <2>8. Selected'.owner = r
    BY <1>3 DEF TakenOver
  <2> QED
    BY <1>0, <1>3, <2>2, <2>7, <2>8 DEF Abstract!Next, Abstract!TakeOver, TakenOver,
      Cutoff, Selected
<1>4. CASE Dropped(r) /\ op[r] \in {"release", "retire"}
  <2> DEFINE o == Selected.owner
  <2>1. o \in Past' /\ o \in Runtimes
    <3>1. CASE op[r] = "release"
      BY <1>4, <3>1 DEF Dropped, Writes, Past
    <3>2. CASE op[r] = "retire"
      <4>1. crashed \subseteq Runtimes /\ crashed' = crashed
        BY DEF LeaseInv, TypeInv, TypeOK, Writes
      <4> QED
        BY <1>4, <3>2, <4>1 DEF Dropped, Past
    <3> QED
      BY <1>4, <3>1, <3>2
  <2>2. Past' = Past \cup {o}
    <3>1. ASSUME NEW q \in Past', q \notin Past  PROVE q = o
      <4>1. CASE q # r
        <5>1. RetiredIn(q, Retirements)'
          BY <3>1, <4>1, PastStep
        <5> QED
          BY <1>4, <3>1, <5>1 DEF Dropped, Past, RetiredIn
      <4>2. CASE q = r
        <5>1. op'[r] = "release" \/ RetiredIn(r, Retirements)'
          BY <1>1, <3>1, <4>2 DEF Past, Writes, Live
        <5>2. ~RetiredIn(r, Retirements)'
          BY <1>4, <3>1, <4>2 DEF Dropped, Past, RetiredIn
        <5> QED
          BY <1>4, <4>2, <5>1, <5>2 DEF Dropped, Writes
      <4> QED
        BY <4>1, <4>2
    <3> QED
      BY <1>0, <2>1, <3>1
  <2>3. Selected'.owner = Nobody
    BY <1>4 DEF Dropped
  <2> QED
    BY <1>0, <1>4, <2>1, <2>2, <2>3 DEF Abstract!Next, Abstract!Drop, Dropped, Selected
<1> QED
  BY <1>2, <1>3, <1>4 DEF Writes

LEMMA UnmovedImplements ==
    ASSUME LeaseInv, NEW r \in Runtimes, StepOf(r), Unmoved
    PROVE  [Abstract!Next]_Abstract!vars
<1>0. TypeOK /\ Past \subseteq Past' /\ Past \subseteq Runtimes
  BY PastGrows DEF LeaseInv, TypeInv, Past
<1>1. Past' \subseteq Past \cup {r}
  <2>1. ASSUME NEW q \in Past', q \notin Past, q # r  PROVE FALSE
    BY <2>1, PastStep DEF Unmoved, Past, RetiredIn
  <2> QED
    BY <2>1
<1>2. CASE log' = log
  <2>1. Past' = Past \/ Past' = Past \cup {r}
    BY <1>0, <1>1
  <2> QED
    BY <1>2, <2>1 DEF Unmoved, Selected, Abstract!vars, Abstract!Next, Abstract!Leave
<1>3. CASE AppendWrite(r) /\ log' = Append(log, r)
  <2>1. /\ r \in Live /\ pc[r] = "write" /\ pc'[r] \in {"post", "append"}
        /\ crashed' = crashed /\ MayWrite(r)
    BY <1>0, <1>3, Shape DEF AppendWrite, Goto, At, LeaseInv, Current, Live
  <2>2. Selected.owner = r /\ ~RetiredIn(r, Retirements)
    BY <2>1 DEF MayWrite, Selected
  <2>3. r \notin Past /\ r \notin Past'
    BY <2>1, <2>2 DEF Past, Live, Unmoved, RetiredIn
  <2>4. Past' = Past
    BY <1>0, <1>1, <2>3
  <2> QED
    BY <1>3, <2>2, <2>3, <2>4 DEF Unmoved, Selected, Abstract!Next, Abstract!Write
<1> QED
  BY <1>0, <1>2, <1>3, StepFacts

LEMMA InitLease ==
    ASSUME Init
    PROVE  LeaseInv /\ Abstract!Init
<1> USE LeaseAssumption
<1>1. TypeInv
  BY InitTypeInv
<1>2. Selected = Missing /\ Retirements = {} /\ \A r \in Runtimes : pc[r] = "idle"
  BY DEF Init, Selected, LeaseAt, NoFence, Missing, Retirements
<1>3. WellFormed
  BY DEF Init, WellFormed, NoFence
<1>4. acked \subseteq 1..Len(log)
  BY DEF Init
<1>5. \A r \in Runtimes : ~HasLease(r)
  BY DEF Init, HasLease, Missing
<1>6. ASSUME NEW r \in Live
      PROVE  /\ Locked(r) /\ FitsOp(r) /\ Fenced(r) /\ Current(r)
             /\ Remembers(r) /\ Unused(r) /\ KnowsIt(r)
  BY <1>2, <1>5 DEF Live, Locked, FitsOp, Fenced, Current, Inside, Labels, Remembers,
    Unused, KnowsIt, Missing, RetiredIn
<1>7. Abstract!Init
  BY <1>2 DEF Abstract!Init, Init, Past, RetiredIn, Selected, Missing
<1> QED
  BY <1>1, <1>3, <1>4, <1>6, <1>7 DEF LeaseInv

-----------------------------------------------------------------------------
(* The theorems *)

LEMMA Invariant ==
    ASSUME Pausable = {}
    PROVE  Spec => []LeaseInv
<1>1. Init => LeaseInv
  BY InitLease
<1>2. LeaseInv /\ [Next]_vars => LeaseInv'
  BY NextLeaseInv
<1> QED
  BY <1>1, <1>2, PTL DEF Spec

\* Whatever crashes and whoever is late, the lease, the fence and the segments
\* keep the promise of OwnedLog.
THEOREM Refinement ==
    ASSUME Pausable = {}
    PROVE  Spec => ImplementsOwnedLog
<1>1. Init => Abstract!Init
  BY InitLease
<1>2. LeaseInv /\ [Next]_vars => [Abstract!Next]_Abstract!vars
  <2> SUFFICES ASSUME LeaseInv, [Next]_vars
               PROVE  [Abstract!Next]_Abstract!vars
    OBVIOUS
  <2>1. CASE UNCHANGED vars
    BY <2>1 DEF vars, disk, Abstract!vars, LeaseAt, Retirements, Past, RetiredIn
  <2>2. ASSUME NEW r \in Runtimes, StepOf(r)
        PROVE  [Abstract!Next]_Abstract!vars
    BY <2>2, Outcome, WritesImplement, UnmovedImplements
  <2> QED
    BY <2>1, <2>2 DEF Next, StepOf
<1> QED
  BY <1>1, <1>2, Invariant, PTL DEF Spec, ImplementsOwnedLog, Abstract!Spec

\* What OwnedLog promises is kept.
LEMMA LogPromise ==
    ASSUME Pausable = {}
    PROVE  Spec => [](Abstract!Contiguous /\ Abstract!NothingSkipped)
<1>1. Abstract!Spec => [](Abstract!Contiguous /\ Abstract!NothingSkipped)
  BY Abstract!Promise, LeaseAssumption
<1> QED
  BY <1>1, Refinement, PTL DEF ImplementsOwnedLog

\* An event whose append() returned is replayed for good, whoever takes the
\* run over later.
THEOREM AckedForGood ==
    ASSUME Pausable = {}
    PROVE  Spec => []AckedStaysAuthoritative
<1>1. LeaseInv /\ Abstract!NothingSkipped => AckedStaysAuthoritative
  BY DEF LeaseInv, Abstract!NothingSkipped, AckedStaysAuthoritative, Authoritative,
    AuthoritativeIn
<1> QED
  BY <1>1, Invariant, LogPromise, PTL

\* The events that a replay applies are those of a succession of owners.
THEOREM OneOwner ==
    ASSUME Pausable = {}
    PROVE  Spec => []OneOwnerAtATime
<1>1. Abstract!Contiguous => OneOwnerAtATime
  BY DEF Abstract!Contiguous, OneOwnerAtATime
<1> QED
  BY <1>1, LogPromise, PTL

\* A process that holds the lease, was not retired and does not release it is
\* the owner on disk.
THEOREM OwnerKnows ==
    ASSUME Pausable = {}
    PROVE  Spec => []OwnerKnowsIt
<1>1. LeaseInv => OwnerKnowsIt
  BY DEF LeaseInv, OwnerKnowsIt, KnowsIt, Past, Live, Selected
<1> QED
  BY <1>1, Invariant, PTL

\* No step loses a cutoff.
THEOREM CutoffsKept ==
    ASSUME Pausable = {}
    PROVE  Spec => CutoffsNeverForgotten
<1>1. LeaseInv /\ [Next]_vars => [Retirements \subseteq Retirements']_vars
  BY Outcome, RetirementsGrow DEF Next, StepOf
<1> QED
  BY <1>1, Invariant, PTL DEF Spec, CutoffsNeverForgotten

-----------------------------------------------------------------------------
(* The reader beside them                                                  *)

\* Fences only move forward: to a later generation, or from the legacy file to
\* the epoch file of one.
Newer(f, g) == g.gen < f.gen \/ (f.gen = g.gen /\ f.src = "epoch" /\ g.src = "legacy")

\* The fence the reader works under is selected still, or for good no more.
SelectedOrPassed == rpc \in {"lease", "again"} => rfence = fence \/ Newer(fence, rfence)

\* A lease that was read under a fence that is still selected, with the markers
\* there are now, accounts for what the reader must know; all of it is durable.
ReadWell ==
    /\ rlease.owner = Nobody => rlease.retired = {}
    /\ rpc = "again" /\ rfence = fence =>
            known \subseteq rlease.retired \cup markers /\ rlease.retired \subseteq Retirements

\* So does the snapshot to compare with, before the markers are listed and after.
ComparedWell ==
    /\ rpc = "markers" => known \subseteq before.retired \cup markers
    /\ phase # "before" /\ rpc # "markers" => known \subseteq before.retired \cup listed
    /\ phase = "settle" => before.retired = {}

ReaderInv ==
    /\ ReaderTypeOK
    /\ known \subseteq Retirements /\ listed \subseteq markers
    /\ rpc = "events" => phase = "before"
    /\ rpc = "markers" => phase \in {"before", "settle"}
    /\ SelectedOrPassed /\ ReadWell /\ ComparedWell
    /\ LoadKnowsEveryCutoff /\ LoadedCutoffsAreDurable

LEMMA FenceMoves ==
    ASSUME LeaseInv, NEW r \in Runtimes, StepOf(r)
    PROVE  (fence' = fence \/ Newer(fence', fence)) /\ markers \subseteq markers'
<1>1. TypeOK /\ fence \in Fence /\ ctx[r] \in Fence
  BY DEF LeaseInv, TypeInv, TypeOK
<1>2. CASE Rotate(r)
  <2>1. fence.gen < ctx[r].gen
    BY <1>2 DEF LeaseInv, Fenced, Rotate, At, Live
  <2> QED
    BY <1>2, <2>1 DEF Rotate, Newer
<1>3. CASE PublishFence(r) \/ CommitFence(r)
  <2>1. /\ pc[r] \in {"publish", "commit"} /\ r \in Live
        /\ fence' = fence \/ (fence' = EpochOf(ctx[r]) /\ (pc[r] = "publish" => first[r]))
        /\ markers' = markers
    BY <1>3 DEF PublishFence, CommitFence, At, Live
  <2>2. /\ ctx[r].gen \in 1..(nextGen - 1) /\ ctx[r].src = "legacy"
        /\ fence.src = "legacy"
        /\ pc[r] = "publish" /\ first[r] => fence = NoFence
        /\ pc[r] = "commit" => ctx[r] = fence
    BY <2>1 DEF LeaseInv, Fenced
  <2>3. EpochOf(ctx[r]).gen = ctx[r].gen /\ EpochOf(ctx[r]).src = "epoch" /\ NoFence.gen = 0
    BY <1>1 DEF EpochOf, Fence, NoFence
  <2>4. nextGen \in Nat
    BY <1>1, Shape
  <2>5. CASE pc[r] = "commit"
    BY <2>1, <2>2, <2>3, <2>5 DEF Newer
  <2>6. CASE pc[r] = "publish"
    BY <2>1, <2>2, <2>3, <2>4, <2>6 DEF Newer
  <2> QED
    BY <2>1, <2>5, <2>6
<1>4. CASE ~Rotate(r) /\ ~PublishFence(r) /\ ~CommitFence(r)
  <2>1. CASE (\E o \in Ops : Begin(r, o)) \/ LockStep(r) \/ ClaimStep(r)
    BY <1>4, <2>1 DEF LockStep, ClaimStep, Begin, Acquire, Reclaim, Timeout, UseFence, CopyEpoch, Return,
      ClaimRead, ClaimCreate, ClaimMigrate, disk
  <2>2. CASE TakeoverStep(r) \/ AppendStep(r) \/ Crash(r)
    BY <2>2 DEF TakeoverStep, AppendStep, Crash, TakeoverRead, TakeoverCut, TakeoverReplace,
      AppendCheck, AppendRead, AppendWrite, AppendPost, disk
  <2>3. CASE UpkeepStep(r)
    BY <2>3 DEF UpkeepStep, BeatRead, BeatWrite, ReleaseRead, RetireRead, Mark, Unlink, disk
  <2> QED
    BY <2>1, <2>2, <2>3 DEF StepOf
<1> QED
  BY <1>2, <1>3, <1>4

\* The runtimes' steps take nothing from what the reader has found.
LEMMA RuntimesKeepReader ==
    ASSUME LeaseInv, ReaderInv, [Next]_vars, UNCHANGED reader
    PROVE  ReaderInv'
<1>1. /\ Retirements \subseteq Retirements' /\ markers \subseteq markers'
      /\ fence' = fence \/ Newer(fence', fence)
  <2>1. CASE UNCHANGED vars
    BY <2>1 DEF vars, disk, Retirements, LeaseAt
  <2>2. ASSUME NEW r \in Runtimes, StepOf(r)
        PROVE  /\ Retirements \subseteq Retirements' /\ markers \subseteq markers'
               /\ fence' = fence \/ Newer(fence', fence)
    BY <2>2, Outcome, RetirementsGrow, FenceMoves
  <2> QED
    BY <2>1, <2>2 DEF Next, StepOf
<1>2. TypeOK /\ TypeOK'
  BY NextTypeInv DEF LeaseInv, TypeInv
<1>3. fence.gen \in Nat /\ fence'.gen \in Nat /\ rfence.gen \in Nat
  BY <1>2, LeaseAssumption DEF TypeOK, Fence, ReaderInv, ReaderTypeOK
<1>4. Newer(fence, rfence) => Newer(fence', rfence)
  BY <1>1, <1>3 DEF Newer
<1>5. ~Newer(rfence, rfence)
  BY <1>3 DEF Newer
<1>6. rpc' = rpc /\ phase' = phase /\ rfence' = rfence /\ rlease' = rlease
      /\ before' = before /\ listed' = listed /\ known' = known /\ cutoffs' = cutoffs
  BY DEF reader
<1>7. SelectedOrPassed'
  BY <1>1, <1>4, <1>6 DEF ReaderInv, SelectedOrPassed
<1>8. rpc = "again" /\ rfence = fence' => rfence = fence
  BY <1>1, <1>4, <1>5 DEF ReaderInv, SelectedOrPassed
<1>9. ReadWell'
  BY <1>1, <1>6, <1>8 DEF ReaderInv, ReadWell
<1>10. ComparedWell' /\ ReaderTypeOK'
  BY <1>1, <1>6 DEF ReaderInv, ComparedWell, ReaderTypeOK
<1> QED
  BY <1>1, <1>6, <1>7, <1>9, <1>10 DEF ReaderInv, LoadKnowsEveryCutoff, LoadedCutoffsAreDurable

LEMMA ReaderKeepsItself ==
    ASSUME LeaseInv, ReaderInv, ReaderStep, UNCHANGED vars
    PROVE  ReaderInv'
<1>1. /\ fence' = fence /\ markers' = markers /\ files' = files /\ Retirements' = Retirements
      /\ markers \subseteq Retirements /\ markers \subseteq Retirement /\ Retirements \subseteq Retirement
      /\ fence \in Fence /\ LeaseAt(rfence) \in Lease
  <2>1. TypeOK /\ rfence \in Fence
    BY DEF LeaseInv, TypeInv, ReaderInv, ReaderTypeOK
  <2>2. LeaseAt(fence) \in Lease /\ LeaseAt(rfence) \in Lease
    BY <2>1, Records DEF TypeOK
  <2> QED
    BY <2>1, <2>2 DEF vars, disk, Retirements, LeaseAt, TypeOK, Lease
<1> USE <1>1 DEF ReaderInv, ReaderTypeOK, SelectedOrPassed, ReadWell, ComparedWell, LoadKnowsEveryCutoff,
     LoadedCutoffsAreDurable
<1>2. CASE ReadEvents
  BY <1>2 DEF ReadEvents
<1>3. CASE ReadFenceFirst
  BY <1>3 DEF ReadFenceFirst
<1>4. CASE ReadLease
  <2>1. rfence \in Fence /\ rfence.gen \in 0..MaxGen
    BY DEF Fence
  <2>2. LeaseAt(rfence).owner = Nobody => LeaseAt(rfence).retired = {}
    BY <2>1, LeaseAssumption DEF LeaseInv, WellFormed, LeaseAt, Missing
  <2>3. rfence = fence => /\ known \subseteq LeaseAt(rfence).retired \cup markers
                          /\ LeaseAt(rfence).retired \subseteq Retirements
    BY DEF Retirements
  <2> QED
    BY <1>4, <2>2, <2>3 DEF ReadLease
<1>5. CASE FenceMoved
  BY <1>5 DEF FenceMoved
<1>6. CASE SnapshotBefore
  <2>1. before'.retired = rlease.retired
    BY <1>6 DEF SnapshotBefore, Snapshot, Identity
  <2> QED
    BY <1>6, <2>1 DEF SnapshotBefore
<1>7. CASE SnapshotAfter
  <2>1. Snapshot.retired = rlease.retired
    BY DEF Snapshot, Identity
  <2>2. rlease.retired \subseteq Retirement /\ before'.retired \in {before.retired, rlease.retired}
    BY <1>7, <2>1 DEF Lease, SnapshotAfter
  <2>3. /\ rpc = "again" /\ fence = rfence /\ phase = "after"
        /\ UNCHANGED <<rfence, rlease, listed, known>>
    BY <1>7 DEF SnapshotAfter
  <2>4. CASE Snapshot = before /\ cutoffs' = listed \cup rlease.retired /\ rpc' = "done" /\ UNCHANGED <<phase, before>>
    BY <2>1, <2>2, <2>3, <2>4
  <2>5. CASE rlease.owner = Nobody /\ before' = Snapshot /\ phase' = "settle" /\ rpc' = "markers" /\ UNCHANGED cutoffs
    BY <2>1, <2>3, <2>5
  <2>6. CASE phase' = "before" /\ rpc' = "fence" /\ UNCHANGED <<before, cutoffs>>
    BY <2>3, <2>6
  <2> QED
    BY <1>7, <2>4, <2>5, <2>6 DEF SnapshotAfter
<1>8. CASE SnapshotSettle
  BY <1>8 DEF SnapshotSettle
<1>9. CASE ListMarkers
  BY <1>9 DEF ListMarkers
<1> QED
  BY <1>2, <1>3, <1>4, <1>5, <1>6, <1>7, <1>8, <1>9 DEF ReaderStep

LEMMA ReaderInvariant ==
    ASSUME Pausable = {}
    PROVE  ReaderSpec => [](LeaseInv /\ ReaderInv)
<1>1. ReaderInit => LeaseInv /\ ReaderInv
  <2> SUFFICES ASSUME ReaderInit PROVE LeaseInv /\ ReaderInv
    OBVIOUS
  <2>1. LeaseInv
    BY InitLease DEF ReaderInit
  <2>2. NoFence \in Fence /\ Missing \in Lease
    BY <2>1, Records DEF LeaseInv, TypeInv
  <2> QED
    BY <2>1, <2>2 DEF ReaderInit, ReaderInv, ReaderTypeOK, SelectedOrPassed, ReadWell, ComparedWell,
      LoadKnowsEveryCutoff, LoadedCutoffsAreDurable, Missing
<1>2. LeaseInv /\ ReaderInv /\ [ReaderNext]_<<vars, reader>> => (LeaseInv /\ ReaderInv)'
  <2> SUFFICES ASSUME LeaseInv, ReaderInv, [ReaderNext]_<<vars, reader>> PROVE LeaseInv' /\ ReaderInv'
    OBVIOUS
  <2>1. CASE ReaderStep /\ UNCHANGED vars
    BY <2>1, NextLeaseInv, ReaderKeepsItself
  <2>2. CASE [Next]_vars /\ UNCHANGED reader
    BY <2>2, NextLeaseInv, RuntimesKeepReader
  <2> QED
    BY <2>1, <2>2 DEF ReaderNext
<1> QED
  BY <1>1, <1>2, PTL DEF ReaderSpec

\* Whatever the runtimes do meanwhile, the reader's snapshots are leases and
\* cutoffs, ...
THEOREM ReaderTyped ==
    ASSUME Pausable = {}
    PROVE  ReaderSpec => []ReaderTypeOK
<1>1. ReaderInv => ReaderTypeOK
  BY DEF ReaderInv
<1> QED
  BY <1>1, ReaderInvariant, PTL

\* ... a load that returns knows every cutoff that was on disk when it read the
\* events (readStableRuntimeOwnerRetirementCutoffs), ...
THEOREM NoCutoffMissed ==
    ASSUME Pausable = {}
    PROVE  ReaderSpec => []LoadKnowsEveryCutoff
<1>1. ReaderInv => LoadKnowsEveryCutoff
  BY DEF ReaderInv
<1> QED
  BY <1>1, ReaderInvariant, PTL

\* ... and applies none that later readers will not find.
THEOREM NoCutoffInvented ==
    ASSUME Pausable = {}
    PROVE  ReaderSpec => []LoadedCutoffsAreDurable
<1>1. ReaderInv => LoadedCutoffsAreDurable
  BY DEF ReaderInv
<1> QED
  BY <1>1, ReaderInvariant, PTL
=============================================================================
