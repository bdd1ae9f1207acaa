---------------------------- MODULE RuntimeLease ----------------------------
(***************************************************************************)
(* Who may write to one run: the runtime lease kept in epoch files that a  *)
(* fence selects, takeover of a stale owner with an event cutoff, and the  *)
(* owner-tagged appends of RunStore (src/state/runtime-lease.ts,           *)
(* runtime-retirement.ts and store.ts).  Every operation runs inside       *)
(* withLeaseMutationLock, and every read or write of a file that another   *)
(* process may see is a step of its own.                                   *)
(*                                                                         *)
(* Simplifications: the lock is MutationLock's with the directory and its  *)
(* token as one thing (the race between two rmdirs is studied there); a    *)
(* runtime has one call in flight; writing a file that no fence selects    *)
(* yet is one step with the read before it; the legacy runtime.json starts *)
(* missing, as in every run the current version created; the cutoffs and   *)
(* the lease that an append checks are read in one step; operator events   *)
(* without an owner, which no cutoff concerns, are left out; so are a      *)
(* lease file that does not parse (ownership "invalid"), the audit file a  *)
(* takeover leaves behind, the test hooks around a replacement, and the    *)
(* upgrade of a fence written by an older version.                         *)
(***************************************************************************)
EXTENDS Naturals, Sequences, FiniteSets

CONSTANTS
    Runtimes,   \* owner ids: each claim or takeover that writes draws its own
    Stallable,  \* the runtimes whose heartbeat may be over 20 s late
    Pausable,   \* the runtimes that may be suspended over 30 s inside a call
    Nobody,     \* no owner, no lock holder
    MaxEvents,  \* bound on the length of the log
    MaxGen,     \* bound on the fence generations drawn
    MaxBeats    \* bound on the heartbeats of one lease

ASSUME LeaseAssumption ==
    /\ Stallable \subseteq Runtimes
    /\ Pausable \subseteq Runtimes
    /\ Nobody \notin Runtimes
    /\ MaxEvents \in Nat /\ MaxGen \in Nat /\ MaxBeats \in Nat

VARIABLES
    fence,      \* runtime.json.fence: [gen, src]; generation 0: no such file
    files,      \* runtime.json.epochs/<generation>.json
    markers,    \* runtime.json.retired-owners/: mirrored retirements
    log,        \* the event segments: the owner of each event
    holder,     \* whose token is in the lock directory
    crashed,    \* the runtimes whose process died
    nextGen,    \* the next random generation
    pc, op,     \* per runtime: the step inside the call, and the operation
    reclaimed,  \* per runtime: the local `reclaimed` of its call
    ctx,        \* per runtime: the LeaseMutationContext
    first,      \* per runtime: its call read no fence file, so must create it
    cur,        \* per runtime: `current`, the lease record it last read
    pos,        \* per runtime: the sequence number or cutoff it last computed
    mem,        \* per runtime: #record of its RuntimeLease, if it has one
    acked,      \* the sequence numbers whose append() returned
    owed,       \* history: a lock was reclaimed and no rotation followed yet
    strayed     \* history: runtimes that read or set the fence without the right

disk == <<fence, files, markers, log>>
local == <<reclaimed, ctx, first, cur, pos, mem>>
history == <<owed, strayed>>
vars == <<disk, holder, crashed, nextGen, pc, op, local, acked, history>>

Retirement == [owner : Runtimes, upto : 0..MaxEvents]
Lease == [owner : Runtimes \cup {Nobody}, hb : 0..MaxBeats, retired : SUBSET Retirement]
Missing == [owner |-> Nobody, hb |-> 0, retired |-> {}]
Fence == [gen : 0..MaxGen, src : {"legacy", "epoch"}]
NoFence == [gen |-> 0, src |-> "legacy"]
Ops == {"claim", "takeover", "append", "beat", "release", "retire"}
Labels == {"idle", "want", "prepare", "rotate", "claim", "create", "publish",
           "commit", "takeover", "cut", "replace", "append", "read", "write", "post",
           "beat", "rewrite", "release", "retire", "mark", "unlink",
           "return", "gone"}

TypeOK ==
    /\ fence \in Fence
    /\ files \in [1..MaxGen -> Lease]
    /\ markers \subseteq Retirement
    /\ log \in Seq(Runtimes) /\ Len(log) <= MaxEvents
    /\ holder \in Runtimes \cup {Nobody}
    /\ crashed \subseteq Runtimes
    /\ nextGen \in 1..(MaxGen + 1)
    /\ pc \in [Runtimes -> Labels]
    /\ op \in [Runtimes -> Ops]
    /\ reclaimed \in [Runtimes -> BOOLEAN]
    /\ ctx \in [Runtimes -> Fence]
    /\ cur \in [Runtimes -> Lease]
    /\ pos \in [Runtimes -> 0..MaxEvents]
    /\ mem \in [Runtimes -> Lease]
    /\ acked \subseteq 0..MaxEvents
    /\ first \in [Runtimes -> BOOLEAN]
    /\ owed \in BOOLEAN
    /\ strayed \subseteq Runtimes

Init ==
    /\ fence = NoFence
    /\ files = [g \in 1..MaxGen |-> Missing]
    /\ markers = {}
    /\ log = <<>>
    /\ holder = Nobody
    /\ crashed = {}
    /\ nextGen = 1
    /\ pc = [r \in Runtimes |-> "idle"]
    /\ op = [r \in Runtimes |-> "claim"]
    /\ reclaimed = [r \in Runtimes |-> FALSE]
    /\ ctx = [r \in Runtimes |-> NoFence]
    /\ cur = [r \in Runtimes |-> Missing]
    /\ pos = [r \in Runtimes |-> 0]
    /\ mem = [r \in Runtimes |-> Missing]
    /\ acked = {}
    /\ first = [r \in Runtimes |-> FALSE]
    /\ owed = FALSE
    /\ strayed = {}

-----------------------------------------------------------------------------
(* What the files say *)

\* runtimeFenceLeaseTarget and readLeaseRecordAt.
LeaseAt(f) == IF f.src = "epoch" /\ f.gen > 0 THEN files[f.gen] ELSE Missing

\* mergeRetirements: the markers and the selected lease's retired_owners.
Retirements == markers \cup LeaseAt(fence).retired

RetiredIn(r, R) == \E t \in R : t.owner = r

\* MUTANT of AuthoritativeIn: replay applies no cutoff.
AuthoritativeAlways(n, R) == TRUE

\* eventIsAuthoritative
AuthoritativeIn(n, R) == \A t \in R : t.owner = log[n] => n <= t.upto

HasLease(r) == mem[r].owner = r
At(r, label) == pc[r] = label /\ r \notin crashed
Goto(r, label) == pc' = [pc EXCEPT ![r] = label]

\* The finally block: unlink the own token, if a reclaimer has left it.
Unlock(r) == holder' = IF holder = r THEN Nobody ELSE holder

\* The call throws. A claimant that wrote nothing may try again with a new
\* owner id; one that may have left its id on disk does not use it again.
Raise(r, label) == Unlock(r) /\ Goto(r, label)

-----------------------------------------------------------------------------
(* The lock and the fence: withLeaseMutationLock, prepareMutationFence *)

\* A call begins. takeoverStale and retireDeadRuntimeLease are given the owner
\* and the heartbeat that their caller observed.
Begin(r, o) ==
    /\ At(r, "idle")
    /\ IF HasLease(r) THEN o \in {"append", "beat", "release"}
                      ELSE o \in {"claim", "takeover", "retire"}
    /\ o \in {"takeover", "retire"} => LeaseAt(fence).owner # Nobody
    /\ o = "beat" => mem[r].hb < MaxBeats
    /\ op' = [op EXCEPT ![r] = o]
    /\ cur' = [cur EXCEPT ![r] = IF o \in {"takeover", "retire"} THEN LeaseAt(fence)
                                 ELSE Missing]
    /\ reclaimed' = [reclaimed EXCEPT ![r] = FALSE]
    /\ Goto(r, "want")
    /\ UNCHANGED <<disk, holder, crashed, nextGen, ctx, first, pos, mem, acked, history>>

Acquire(r) ==
    /\ At(r, "want")
    /\ holder = Nobody
    /\ holder' = r
    /\ Goto(r, "prepare")
    /\ UNCHANGED <<disk, crashed, nextGen, op, local, acked, history>>

\* The holder's token is 30 s old: remove it, and contend again.
Reclaim(r) ==
    /\ At(r, "want")
    /\ holder \in crashed \cup Pausable
    /\ holder' = Nobody
    /\ reclaimed' = [reclaimed EXCEPT ![r] = TRUE]
    /\ owed' = TRUE
    /\ UNCHANGED <<disk, crashed, nextGen, pc, op, ctx, first, cur, pos, mem,
                   acked, strayed>>

\* RUN_CLAIM_IN_PROGRESS
Timeout(r) ==
    /\ At(r, "want")
    /\ holder # Nobody
    /\ Goto(r, "idle")
    /\ UNCHANGED <<disk, holder, crashed, nextGen, op, local, acked, history>>

\* Without a reclaim the call works under the fence it reads.
UseFence(r) ==
    /\ At(r, "prepare") /\ ~reclaimed[r]
    /\ ctx' = [ctx EXCEPT ![r] = fence]
    /\ first' = [first EXCEPT ![r] = (fence = NoFence)]
    /\ strayed' = IF holder # r \/ owed THEN strayed \cup {r} ELSE strayed
    /\ Goto(r, op[r])
    /\ UNCHANGED <<disk, holder, crashed, nextGen, op, reclaimed, cur, pos, mem,
                   acked, owed>>

\* After a reclaim: copy the lease to the file of a new generation, ...
CopyEpoch(r) ==
    /\ At(r, "prepare") /\ reclaimed[r]
    /\ nextGen <= MaxGen
    /\ ctx' = [ctx EXCEPT ![r] = [gen |-> nextGen, src |-> fence.src]]
    /\ first' = [first EXCEPT ![r] = (fence = NoFence)]
    /\ files' = [files EXCEPT ![nextGen] = LeaseAt(fence)]
    /\ nextGen' = nextGen + 1
    /\ Goto(r, "rotate")
    /\ UNCHANGED <<fence, markers, log, holder, crashed, op, reclaimed, cur, pos,
                   mem, acked, history>>

\* ... then publish the fence: linked exclusively if there was none.
Rotate(r) ==
    /\ At(r, "rotate")
    /\ IF first[r] /\ fence # NoFence
       THEN Raise(r, "idle") /\ UNCHANGED <<fence, first, history>>    \* EEXIST
       ELSE /\ fence' = ctx[r]
            /\ first' = [first EXCEPT ![r] = FALSE]
            /\ owed' = FALSE
            /\ strayed' = IF holder # r THEN strayed \cup {r} ELSE strayed
            /\ Goto(r, op[r])
            /\ UNCHANGED holder
    /\ UNCHANGED <<files, markers, log, crashed, nextGen, op, reclaimed, ctx, cur,
                   pos, mem, acked>>

\* MUTANT of Return: success without reading the fence again.
ReturnUnchecked(r) ==
    /\ At(r, "return")
    /\ Unlock(r)
    /\ acked' = IF op[r] = "append" THEN acked \cup {pos[r]} ELSE acked
    /\ mem' = [mem EXCEPT ![r] = IF op[r] \in {"claim", "takeover"} THEN cur[r] ELSE @]
    /\ Goto(r, IF op[r] = "release" THEN "gone" ELSE "idle")
    /\ cur' = [cur EXCEPT ![r] = Missing]
    /\ pos' = [pos EXCEPT ![r] = 0]
    /\ UNCHANGED <<disk, crashed, nextGen, op, reclaimed, ctx, first, history>>

\* The operation resolved: success is reported only under an unchanged fence,
\* and reaches the caller after the lock is released. The call's locals end.
Return(r) ==
    /\ At(r, "return")
    /\ Unlock(r)
    /\ IF fence = ctx[r]
       THEN /\ acked' = IF op[r] = "append" THEN acked \cup {pos[r]} ELSE acked
            /\ mem' = [mem EXCEPT ![r] = IF op[r] \in {"claim", "takeover"} THEN cur[r]
                                         ELSE @]
            /\ Goto(r, IF op[r] = "release" THEN "gone" ELSE "idle")
       ELSE /\ Goto(r, IF op[r] \in {"append", "beat", "retire"} THEN "idle" ELSE "gone")
            /\ UNCHANGED <<acked, mem>>                 \* RUNTIME_MUTATION_FENCED
    /\ cur' = [cur EXCEPT ![r] = Missing]
    /\ pos' = [pos EXCEPT ![r] = 0]
    /\ UNCHANGED <<disk, crashed, nextGen, op, reclaimed, ctx, first, history>>

\* A process dies; one that has neither a lease nor a call leaves no trace.
Crash(r) ==
    /\ r \notin crashed
    /\ pc[r] # "gone" /\ (pc[r] = "idle" => HasLease(r))
    /\ crashed' = crashed \cup {r}
    /\ UNCHANGED <<disk, holder, nextGen, pc, op, local, acked, history>>

-----------------------------------------------------------------------------
(* RuntimeLease.claim *)

ClaimRead(r) ==
    /\ At(r, "claim")
    /\ IF LeaseAt(ctx[r]).owner # Nobody
       THEN Raise(r, "idle")        \* RUN_ALREADY_ACTIVE, RUN_STALE_REQUIRES_TAKEOVER
       ELSE Goto(r, "create") /\ UNCHANGED holder
    /\ UNCHANGED <<disk, crashed, nextGen, op, local, acked, history>>

\* createExclusiveLease under an epoch fence.
ClaimCreate(r) ==
    /\ At(r, "create") /\ ctx[r].src = "epoch"
    /\ LET fresh == [owner |-> r, hb |-> 0, retired |-> {}]
       IN  IF files[ctx[r].gen].owner # Nobody
           THEN Raise(r, "idle") /\ UNCHANGED <<files, cur>>
           ELSE /\ files' = [files EXCEPT ![ctx[r].gen] = fresh]
                /\ cur' = [cur EXCEPT ![r] = fresh]
                /\ Goto(r, "return")
                /\ UNCHANGED holder
    /\ UNCHANGED <<fence, markers, log, crashed, nextGen, op, reclaimed, ctx, first,
                   pos, mem, acked, history>>

\* commitLegacyLeaseReplacement: write the epoch file, of a new generation
\* unless a rotation has drawn one, ...
ClaimMigrate(r) ==
    /\ At(r, "create") /\ ctx[r].src = "legacy"
    /\ first[r] => nextGen <= MaxGen
    /\ LET fresh == [owner |-> r, hb |-> 0, retired |-> {}]
           gen   == IF first[r] THEN nextGen ELSE ctx[r].gen
       IN  /\ files' = [files EXCEPT ![gen] = fresh]
           /\ cur' = [cur EXCEPT ![r] = fresh]
           /\ ctx' = [ctx EXCEPT ![r].gen = gen]
    /\ nextGen' = IF first[r] THEN nextGen + 1 ELSE nextGen
    /\ Goto(r, "publish")
    /\ UNCHANGED <<fence, markers, log, holder, crashed, op, reclaimed, first, pos,
                   mem, acked, history>>

EpochOf(f) == [f EXCEPT !.src = "epoch"]

\* ... then link the first fence exclusively, or check the legacy fence ...
PublishFence(r) ==
    /\ At(r, "publish")
    /\ \/ /\ first[r] /\ fence = NoFence
          /\ fence' = EpochOf(ctx[r])
          /\ ctx' = [ctx EXCEPT ![r] = EpochOf(@)]
          /\ Goto(r, "return")
          /\ UNCHANGED holder
       \/ /\ ~first[r] /\ fence = ctx[r]
          /\ Goto(r, "commit")
          /\ UNCHANGED <<fence, ctx, holder>>
       \/ /\ fence # IF first[r] THEN NoFence ELSE ctx[r]
          /\ Raise(r, "gone")                            \* RUNTIME_MUTATION_FENCED
          /\ UNCHANGED <<fence, ctx>>
    /\ UNCHANGED <<files, markers, log, crashed, nextGen, op, reclaimed, first, cur,
                   pos, mem, acked, history>>

\* ... and replace it.
CommitFence(r) ==
    /\ At(r, "commit")
    /\ fence' = EpochOf(ctx[r])
    /\ ctx' = [ctx EXCEPT ![r] = EpochOf(@)]
    /\ strayed' = IF holder # r THEN strayed \cup {r} ELSE strayed
    /\ Goto(r, "return")
    /\ UNCHANGED <<files, markers, log, holder, crashed, nextGen, op, reclaimed,
                   first, cur, pos, mem, acked, owed>>

-----------------------------------------------------------------------------
(* RuntimeLease.takeoverStale *)

\* A heartbeat over 20 s old: its owner is dead or late.
StaleOwner(o) == o \in crashed \cup Stallable

\* MUTANT of TakeoverRead: takes over whatever it reads, a released lease too.
TakeoverReadUnchecked(r) ==
    /\ At(r, "takeover")
    /\ cur' = [cur EXCEPT ![r] = LeaseAt(ctx[r])]
    /\ Goto(r, "cut")
    /\ UNCHANGED <<disk, holder, crashed, nextGen, op, reclaimed, ctx, first, pos, mem,
                   acked, history>>

TakeoverRead(r) ==
    /\ At(r, "takeover")
    /\ LET current == LeaseAt(ctx[r])
       IN  IF /\ current.owner = cur[r].owner
              /\ current.hb = cur[r].hb
              /\ StaleOwner(current.owner)
           THEN /\ cur' = [cur EXCEPT ![r] = current]
                /\ Goto(r, "cut")
                /\ UNCHANGED holder
           ELSE Raise(r, "idle") /\ UNCHANGED cur
                       \* RUNTIME_TAKEOVER_RACE, RUNTIME_TAKEOVER_ACTIVE_REFUSED
    /\ UNCHANGED <<disk, crashed, nextGen, op, reclaimed, ctx, first, pos, mem,
                   acked, history>>

\* MUTANT of TakeoverCut: the index of the last event, not its sequence.
TakeoverCutShort(r) ==
    /\ At(r, "cut")
    /\ pos' = [pos EXCEPT ![r] = IF log = <<>> THEN 0 ELSE Len(log) - 1]
    /\ Goto(r, "replace")
    /\ UNCHANGED <<disk, holder, crashed, nextGen, op, reclaimed, ctx, first, cur,
                   mem, acked, history>>

\* events.at(-1)?.sequence ?? 0
TakeoverCut(r) ==
    /\ At(r, "cut")
    /\ pos' = [pos EXCEPT ![r] = Len(log)]
    /\ Goto(r, "replace")
    /\ UNCHANGED <<disk, holder, crashed, nextGen, op, reclaimed, ctx, first, cur,
                   mem, acked, history>>

\* MUTANT of Successor: the replaced owner is not retired.
SuccessorUnmarked(r) == [owner |-> r, hb |-> 0, retired |-> cur[r].retired]

\* The lease that replaces cur[r] carries its retirements and its owner's.
Successor(r) ==
    [owner |-> r, hb |-> 0,
     retired |-> cur[r].retired \cup {[owner |-> cur[r].owner, upto |-> pos[r]]}]

TakeoverReplace(r) ==
    /\ At(r, "replace")
    /\ files' = [files EXCEPT ![ctx[r].gen] = Successor(r)]
    /\ cur' = [cur EXCEPT ![r] = Successor(r)]
    /\ Goto(r, "return")
    /\ UNCHANGED <<fence, markers, log, holder, crashed, nextGen, op, reclaimed, ctx,
                   first, pos, mem, acked, history>>

-----------------------------------------------------------------------------
(* RunStore.append by the owner *)

\* #runtimeWriteEvidence
MayWrite(r) == ~RetiredIn(r, Retirements) /\ LeaseAt(fence).owner = r

\* MUTANT of AppendCheck: appends without reading who owns the run.
AppendCheckSkipped(r) ==
    /\ At(r, "append")
    /\ Goto(r, "read")
    /\ UNCHANGED <<disk, holder, crashed, nextGen, op, local, acked, history>>

AppendCheck(r) ==
    /\ At(r, "append")
    /\ IF MayWrite(r) THEN Goto(r, "read") /\ UNCHANGED holder
                      ELSE Raise(r, "idle")
    /\ UNCHANGED <<disk, crashed, nextGen, op, local, acked, history>>

AppendRead(r) ==
    /\ At(r, "read")
    /\ Len(log) < MaxEvents
    /\ pos' = [pos EXCEPT ![r] = Len(log) + 1]
    /\ Goto(r, "write")
    /\ UNCHANGED <<disk, holder, crashed, nextGen, op, reclaimed, ctx, first, cur,
                   mem, acked, history>>

\* The segment is linked exclusively; EVENT_SEQUENCE_CONFLICT tries again.
AppendWrite(r) ==
    /\ At(r, "write")
    /\ \/ pos[r] = Len(log) + 1 /\ log' = Append(log, r) /\ Goto(r, "post")
       \/ pos[r] # Len(log) + 1 /\ Goto(r, "append") /\ UNCHANGED log
    /\ UNCHANGED <<fence, files, markers, holder, crashed, nextGen, op, local, acked,
                   history>>

AppendPost(r) ==
    /\ At(r, "post")
    /\ IF MayWrite(r) THEN Goto(r, "return") /\ UNCHANGED holder
                      ELSE Raise(r, "idle")
    /\ UNCHANGED <<disk, crashed, nextGen, op, local, acked, history>>

-----------------------------------------------------------------------------
(* RuntimeLease.heartbeat, release, and retireDeadRuntimeLease *)

\* MUTANT of BeatRead: writes the heartbeat without reading whose lease it is.
BeatReadUnchecked(r) ==
    /\ At(r, "beat")
    /\ Goto(r, "rewrite")
    /\ UNCHANGED <<disk, holder, crashed, nextGen, op, local, acked, history>>

BeatRead(r) ==
    /\ At(r, "beat")
    /\ IF LeaseAt(ctx[r]).owner = r
       THEN Goto(r, "rewrite") /\ UNCHANGED holder
       ELSE Raise(r, "idle")                             \* RUNTIME_LEASE_LOST
    /\ UNCHANGED <<disk, crashed, nextGen, op, local, acked, history>>

\* The in-memory record is written back, not the one just read.
BeatWrite(r) ==
    /\ At(r, "rewrite")
    /\ mem[r].hb < MaxBeats
    /\ mem' = [mem EXCEPT ![r].hb = @ + 1]
    /\ files' = [files EXCEPT ![ctx[r].gen] = mem'[r]]
    /\ Goto(r, "return")
    /\ UNCHANGED <<fence, markers, log, holder, crashed, nextGen, op, reclaimed, ctx,
                   first, cur, pos, acked, history>>

ReleaseRead(r) ==
    /\ At(r, "release")
    /\ cur' = [cur EXCEPT ![r] = LeaseAt(ctx[r])]
    /\ Goto(r, IF LeaseAt(ctx[r]).owner = r THEN "mark" ELSE "return")
    /\ UNCHANGED <<disk, holder, crashed, nextGen, op, reclaimed, ctx, first, pos,
                   mem, acked, history>>

RetireRead(r) ==
    /\ At(r, "retire")
    /\ cur' = [cur EXCEPT ![r] = LeaseAt(ctx[r])]
    /\ Goto(r, IF LeaseAt(ctx[r]).owner = cur[r].owner /\ cur[r].owner \in crashed
               THEN "mark" ELSE "return")
    /\ UNCHANGED <<disk, holder, crashed, nextGen, op, reclaimed, ctx, first, pos,
                   mem, acked, history>>

\* MUTANT of Mark: the lease is unlinked before its cutoffs are mirrored.
MarkNothing(r) ==
    /\ At(r, "mark")
    /\ Goto(r, "unlink")
    /\ UNCHANGED <<disk, holder, crashed, nextGen, op, local, acked, history>>

\* persistRuntimeOwnerRetirements, one marker file at a time, ...
Mark(r) ==
    /\ At(r, "mark")
    /\ \/ /\ \E t \in cur[r].retired \ markers : markers' = markers \cup {t}
          /\ UNCHANGED pc
       \/ /\ cur[r].retired \subseteq markers
          /\ Goto(r, "unlink")
          /\ UNCHANGED markers
    /\ UNCHANGED <<fence, files, log, holder, crashed, nextGen, op, local, acked, history>>

\* ... then unlink the lease.
Unlink(r) ==
    /\ At(r, "unlink")
    /\ files' = [files EXCEPT ![ctx[r].gen] = Missing]
    /\ Goto(r, "return")
    /\ UNCHANGED <<fence, markers, log, holder, crashed, nextGen, op, local, acked,
                   history>>

-----------------------------------------------------------------------------
LockStep(r) ==
    \/ Acquire(r) \/ Reclaim(r) \/ Timeout(r)
    \/ UseFence(r) \/ CopyEpoch(r) \/ Rotate(r) \/ Return(r)

ClaimStep(r) ==
    ClaimRead(r) \/ ClaimCreate(r) \/ ClaimMigrate(r) \/ PublishFence(r) \/ CommitFence(r)

TakeoverStep(r) == TakeoverRead(r) \/ TakeoverCut(r) \/ TakeoverReplace(r)

AppendStep(r) == AppendCheck(r) \/ AppendRead(r) \/ AppendWrite(r) \/ AppendPost(r)

UpkeepStep(r) ==
    BeatRead(r) \/ BeatWrite(r) \/ ReleaseRead(r) \/ RetireRead(r) \/ Mark(r) \/ Unlink(r)

Next == \E r \in Runtimes :
    \/ \E o \in Ops : Begin(r, o)
    \/ LockStep(r) \/ ClaimStep(r) \/ TakeoverStep(r) \/ AppendStep(r) \/ UpkeepStep(r)
    \/ Crash(r)

Spec == Init /\ [][Next]_vars

-----------------------------------------------------------------------------
(* Properties *)

Authoritative(n) == AuthoritativeIn(n, Retirements)

\* An event whose append() returned to the controller is never excluded by a
\* cutoff that a later takeover, release or migration leaves on disk.
AckedStaysAuthoritative == \A n \in acked : Authoritative(n)

\* The history a run replays is a succession of owners: the authoritative
\* events of one owner have none of another owner's between them.
OneOwnerAtATime ==
    \A i, j, k \in 1..Len(log) :
        /\ i < j /\ j < k /\ log[i] = log[k]
        /\ Authoritative(i) /\ Authoritative(j) /\ Authoritative(k)
        => log[j] = log[i]

\* A process that was given the lease, and has not been retired by a
\* takeover, is the owner that the selected lease names, until it releases.
OwnerKnowsIt ==
    \A r \in Runtimes \ crashed :
        /\ HasLease(r) /\ pc[r] # "gone"
        /\ ~(pc[r] = "return" /\ op[r] = "release")
        /\ ~RetiredIn(r, Retirements)
        => LeaseAt(fence).owner = r

\* No step forgets a cutoff: it moves from the lease to a marker before the
\* lease is unlinked, and is copied to a new epoch before the fence selects it.
CutoffsNeverForgotten == [][Retirements \subseteq Retirements']_vars

\* The runtimes that will append no more, dead or not: retired by a cutoff, or
\* past the file operations of a release, or with a failed claim or takeover.
Past == {r \in Runtimes :
    \/ r \in crashed
    \/ RetiredIn(r, Retirements)
    \/ pc[r] = "gone"
    \/ pc[r] = "return" /\ op[r] = "release"}

\* The lease, the fence and the event segments together keep the promise of
\* OwnedLog: each step of the code is one of its actions, or changes none of
\* the log, the cutoffs and the owner.
Abstract == INSTANCE OwnedLog WITH
    Owners <- Runtimes,
    owner <- LeaseAt(fence).owner,
    past <- Past,
    cutoffs <- Retirements
ImplementsOwnedLog == Abstract!Spec

\* When processes may be suspended inside a call, both still hold as long as
\* none strayed: it neither read nor set the fence after its token was removed,
\* nor read it while the rotation of another call was owed.
AckedUnlessStrayed == strayed = {} => AckedStaysAuthoritative
OneOwnerUnlessStrayed == strayed = {} => OneOwnerAtATime
=============================================================================
