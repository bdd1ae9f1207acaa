---------------------------- MODULE MutationLock ----------------------------
(***************************************************************************)
(* The mutation lock of one run (withLeaseMutationLock in                  *)
(* src/state/runtime-lease.ts): a directory made with mkdir, one uniquely  *)
(* named owner token inside it, reclaiming of stale evidence by any        *)
(* contender, and a fence whose generation is rotated by a contender that  *)
(* reclaimed.  One actor is one CALL of the function, from any process;    *)
(* every step is one file-system call, so every interleaving that separate *)
(* processes can produce is a behaviour.                                   *)
(*                                                                         *)
(* Simplifications: the 30 s age of a token or of the directory is the     *)
(* predicate MayLookStale (a dead or a suspended call does not refresh its *)
(* evidence); reading and copying the lease are left to RuntimeLease; disk *)
(* errors other than EEXIST, ENOENT and ENOTEMPTY, and the removal of the  *)
(* whole run directory, do not happen.                                     *)
(***************************************************************************)
EXTENDS Naturals, FiniteSets

CONSTANTS
    Calls,      \* calls of withLeaseMutationLock; each has its own random token
    Pausable,   \* the calls whose process may be suspended for over 30 s
    NoFence     \* the fence file does not exist / undefined generation

ASSUME CallsAssumption == Pausable \subseteq Calls /\ NoFence \notin Calls

VARIABLES
    dir,        \* does <run>/runtime-lease.lock exist?
    tokens,     \* the calls whose owner token is in it
    touched,    \* the call that last changed its entries (its mtime)
    fence,      \* generation of the fence file: the call that wrote it
    pc,         \* the file-system call each call performs next
    seen,       \* `entries`: the names the call last read from the directory
    reclaimed,  \* the calls whose local `reclaimed` is true
    current,    \* `currentFence` that prepareMutationFence read
    ctx,        \* context.generation
    crashed,    \* the calls whose process died
    undercut,   \* history: calls whose fresh directory another call removed
    strayed     \* history: calls that read or set the fence without the right

vars == <<dir, tokens, touched, fence, pc, seen, reclaimed, current, ctx,
          crashed, undercut, strayed>>
disk == <<dir, tokens, touched>>
local == <<seen, reclaimed, current, ctx>>
history == <<undercut, strayed>>

Finished == {c \in Calls : pc[c] = "done"}

\* Nobody refreshes the evidence of these calls: utimes needs a live, running
\* process that holds the lock.
MayLookStale == crashed \cup Pausable \cup Finished

\* The generation a call may write: randomUUID, drawn at most once per call.
Generation(c) == c

TypeOK ==
    /\ dir \in BOOLEAN
    /\ tokens \subseteq Calls
    /\ tokens # {} => dir
    /\ touched \in Calls \cup {NoFence}
    /\ fence \in Calls \cup {NoFence}
    /\ pc \in [Calls -> {"mkdir", "token", "readdir", "stat", "rmdir", "unlink",
                         "sweep", "fence", "rotate", "operate", "final",
                         "free", "raise", "clear", "done"}]
    /\ seen \in [Calls -> SUBSET Calls]
    /\ reclaimed \subseteq Calls
    /\ current \in [Calls -> Calls \cup {NoFence}]
    /\ ctx \in [Calls -> Calls \cup {NoFence}]
    /\ crashed \subseteq Calls
    /\ undercut \subseteq Calls
    /\ strayed \subseteq Calls

Init ==
    /\ dir = FALSE
    /\ tokens = {}
    /\ touched = NoFence
    /\ fence = NoFence
    /\ pc = [c \in Calls |-> "mkdir"]
    /\ seen = [c \in Calls |-> {}]
    /\ reclaimed = {}
    /\ current = [c \in Calls |-> NoFence]
    /\ ctx = [c \in Calls |-> NoFence]
    /\ crashed = {}
    /\ undercut = {}
    /\ strayed = {}

At(c, label) == pc[c] = label /\ c \notin crashed
Goto(c, label) == pc' = [pc EXCEPT ![c] = label]

\* MUTANT of Rmdir: a recursive removal.
RmdirForced ==
    /\ dir' = FALSE
    /\ UNCHANGED undercut

\* rmdir removes the directory at the path if it is empty, whoever made it.
\* The calls between their mkdir and their open then lose it.
Rmdir ==
    /\ dir' = (dir /\ tokens # {})
    /\ undercut' = IF dir /\ tokens = {}
                   THEN undercut \cup {d \in Calls : At(d, "token")}
                   ELSE undercut

\* A call that removed stale evidence has not rotated the fence, and perhaps
\* never will.
RotationOwed ==
    \E d \in Calls : (d \in reclaimed \/ pc[d] = "sweep") /\ ctx[d] # Generation(d)

\* A call reads the fence by right while its token is in the directory and no
\* rotation is owed, and sets it by right while its token is there.
Stray(c) == strayed' = strayed \cup {c}

-----------------------------------------------------------------------------
(* Acquiring *)

\* MUTANT of Mkdir: a recursive mkdir, which never reports EEXIST.
MkdirRecursive(c) ==
    /\ At(c, "mkdir")
    /\ dir' = TRUE /\ touched' = c
    /\ Goto(c, "token")
    /\ UNCHANGED <<tokens, fence, local, crashed, history>>

Mkdir(c) ==
    /\ At(c, "mkdir")
    /\ \/ ~dir /\ dir' = TRUE /\ touched' = c /\ Goto(c, "token")
       \/ dir /\ Goto(c, "readdir") /\ UNCHANGED <<dir, touched>>    \* EEXIST
    /\ UNCHANGED <<tokens, fence, local, crashed, history>>

\* open(ownerPath, "wx"): the path only has to exist, whoever made it.
CreateToken(c) ==
    /\ At(c, "token")
    /\ \/ /\ dir
          /\ tokens' = tokens \cup {c}
          /\ touched' = c
          /\ Goto(c, "fence")
       \/ ~dir /\ Goto(c, "mkdir") /\ UNCHANGED <<tokens, touched>>  \* ENOENT
    /\ UNCHANGED <<dir, fence, local, crashed, history>>

Readdir(c) ==
    /\ At(c, "readdir")
    /\ seen' = [seen EXCEPT ![c] = tokens]
    /\ Goto(c, "stat")
    /\ UNCHANGED <<disk, fence, reclaimed, current, ctx, crashed, history>>

\* MUTANT of StatStale: any evidence is reclaimed, however fresh.
StatStaleAnyAge(c) ==
    /\ At(c, "stat")
    /\ \/ seen[c] = {} /\ dir /\ Goto(c, "rmdir")
       \/ \E q \in tokens : seen[c] = {q} /\ Goto(c, "unlink")
    /\ UNCHANGED <<disk, fence, local, crashed, history>>

\* MUTANT of StatStale: an empty directory is never reclaimed.
StatStaleTokenOnly(c) ==
    /\ At(c, "stat")
    /\ \E q \in tokens \cap MayLookStale : seen[c] = {q} /\ Goto(c, "unlink")
    /\ UNCHANGED <<disk, fence, local, crashed, history>>

\* The evidence still exists and is old, and there is at most one token.
StatStale(c) ==
    /\ At(c, "stat")
    /\ \/ seen[c] = {} /\ dir /\ touched \in MayLookStale /\ Goto(c, "rmdir")
       \/ \E q \in tokens \cap MayLookStale : seen[c] = {q} /\ Goto(c, "unlink")
    /\ UNCHANGED <<disk, fence, local, crashed, history>>

\* The evidence is fresh, vanished, or of two calls: wait and try again.
StatFresh(c) ==
    /\ At(c, "stat")
    /\ Goto(c, "mkdir")
    /\ UNCHANGED <<disk, fence, local, crashed, history>>

\* rmdir of the directory seen empty; ENOENT and ENOTEMPTY are "not removed".
RmdirStale(c) ==
    /\ At(c, "rmdir")
    /\ Rmdir
    /\ reclaimed' = IF dir /\ tokens = {} THEN reclaimed \cup {c} ELSE reclaimed
    /\ Goto(c, "mkdir")
    /\ UNCHANGED <<tokens, touched, fence, seen, current, ctx, crashed, strayed>>

UnlinkStale(c) ==
    /\ At(c, "unlink")
    /\ \/ /\ seen[c] \subseteq tokens
          /\ tokens' = tokens \ seen[c]
          /\ touched' = c
          /\ Goto(c, "sweep")
       \/ ~(seen[c] \subseteq tokens) /\ Goto(c, "mkdir") /\ UNCHANGED <<tokens, touched>>
    /\ UNCHANGED <<dir, fence, local, crashed, history>>

\* The rmdir that follows, whose ENOENT and ENOTEMPTY are ignored.
Sweep(c) ==
    /\ At(c, "sweep")
    /\ Rmdir
    /\ reclaimed' = reclaimed \cup {c}
    /\ Goto(c, "mkdir")
    /\ UNCHANGED <<tokens, touched, fence, seen, current, ctx, crashed, strayed>>

\* RUN_CLAIM_IN_PROGRESS: the 10 s deadline passed at one of the two places
\* where the loop tests it.
Timeout(c) ==
    /\ At(c, "stat") \/ (At(c, "token") /\ ~dir)
    /\ Goto(c, "done")
    /\ UNCHANGED <<disk, fence, local, crashed, history>>

-----------------------------------------------------------------------------
(* Inside: prepareMutationFence, the operation, the last fence check *)

ReadFence(c) ==
    /\ At(c, "fence")
    /\ current' = [current EXCEPT ![c] = fence]
    /\ IF c \in reclaimed
       THEN Goto(c, "rotate") /\ UNCHANGED <<ctx, strayed>>
       ELSE /\ Goto(c, "operate")
            /\ ctx' = [ctx EXCEPT ![c] = fence]
            /\ IF c \in tokens /\ ~RotationOwed THEN UNCHANGED strayed ELSE Stray(c)
    /\ UNCHANGED <<disk, fence, seen, reclaimed, crashed, undercut>>

\* MUTANT of Rotate: publishes the generation it read instead of a new one.
RotateInPlace(c) ==
    /\ At(c, "rotate")
    /\ fence' = current[c]
    /\ ctx' = [ctx EXCEPT ![c] = current[c]]
    /\ IF c \in tokens THEN UNCHANGED strayed ELSE Stray(c)
    /\ Goto(c, "operate")
    /\ UNCHANGED <<disk, seen, reclaimed, current, crashed, undercut>>

\* The first fence is linked exclusively, a later one replaces the file.
Rotate(c) ==
    /\ At(c, "rotate")
    /\ \/ /\ current[c] = NoFence => fence = NoFence
          /\ fence' = Generation(c)
          /\ ctx' = [ctx EXCEPT ![c] = Generation(c)]
          /\ IF c \in tokens THEN UNCHANGED strayed ELSE Stray(c)
          /\ Goto(c, "operate")
       \/ /\ current[c] = NoFence /\ fence # NoFence                 \* EEXIST
          /\ Goto(c, "raise")
          /\ UNCHANGED <<fence, ctx, strayed>>
    /\ UNCHANGED <<disk, seen, reclaimed, current, crashed, undercut>>

\* operation(context) resolves, or throws.
Operate(c) ==
    /\ At(c, "operate")
    /\ Goto(c, "final") \/ Goto(c, "raise")
    /\ UNCHANGED <<disk, fence, local, crashed, history>>

\* MUTANT of FinalCheck: success without reading the fence again.
FinalCheckSkipped(c) ==
    /\ At(c, "final")
    /\ Goto(c, "free")
    /\ UNCHANGED <<disk, fence, local, crashed, history>>

\* Success is reported only if the fence is still the context's.
FinalCheck(c) ==
    /\ At(c, "final")
    /\ Goto(c, IF fence = ctx[c] THEN "free" ELSE "raise")
    /\ UNCHANGED <<disk, fence, local, crashed, history>>

\* finally: unlink the own token.  "raise" is the path of an exception.
UnlinkOwn(c) ==
    /\ At(c, "free") \/ At(c, "raise")
    /\ IF c \in tokens
       THEN tokens' = tokens \ {c} /\ touched' = c /\ Goto(c, "clear")
       ELSE Goto(c, "done") /\ UNCHANGED <<tokens, touched>>
    /\ UNCHANGED <<dir, fence, local, crashed, history>>

\* rmdir only after the own token was removed; ENOENT, ENOTEMPTY ignored.
RmdirOwn(c) ==
    /\ At(c, "clear")
    /\ Rmdir
    /\ Goto(c, "done")
    /\ UNCHANGED <<tokens, touched, fence, local, crashed, strayed>>

Crash(c) ==
    /\ c \notin crashed \cup Finished
    /\ crashed' = crashed \cup {c}
    /\ UNCHANGED <<disk, fence, pc, local, history>>

Step(c) ==
    \/ Mkdir(c) \/ CreateToken(c) \/ Readdir(c)
    \/ StatStale(c) \/ StatFresh(c)
    \/ RmdirStale(c) \/ UnlinkStale(c) \/ Sweep(c)
    \/ ReadFence(c) \/ Rotate(c) \/ Operate(c) \/ FinalCheck(c)
    \/ UnlinkOwn(c) \/ RmdirOwn(c)

Next == \E c \in Calls : Step(c) \/ Timeout(c) \/ Crash(c)

\* The scheduler lets every live call go on, and old evidence stays old, so
\* that a call that keeps looking finally sees it as stale.  No call is
\* forced to meet its deadline or to crash.
Fairness == \A c \in Calls : WF_vars(Step(c)) /\ SF_vars(StatStale(c))

Spec == Init /\ [][Next]_vars
FairSpec == Spec /\ Fairness

-----------------------------------------------------------------------------
(* Properties *)

Operating == {c \in Calls \ crashed : pc[c] \in {"operate", "final"}}

\* "Serializes one authoritative state mutation with lease claim, heartbeat,
\* release, and takeover" (the comment of withRuntimeLeaseMutation): live
\* calls run their operations one at a time.
Serialized == \A c, d \in Operating : c = d

\* When no process is suspended, whatever crashes, two live calls operate at
\* the same time only after some rmdir removed the directory that another
\* live call had just made, that is through the window between the check of
\* an empty stale directory and its removal.
SerializedUnlessUndercut == undercut = {} => Serialized

\* The reclaimer gives up when it reads two tokens, so two tokens of dead
\* calls lock the run out for good: outside the same window there is never
\* a second token.
OneTokenUnlessUndercut == undercut = {} => Cardinality(tokens) <= 1

\* "If a mutation lock is abandoned, recovery rotates the fence before reuse"
\* (docs/state-and-recovery.md:75): live calls that overlap, because one was
\* suspended and lost its token, hold different generations, so that the
\* final check lets only the newest succeed.
GenerationsDiffer == \A c, d \in Operating : ctx[c] = ctx[d] => c = d

\* The fence does keep overlapping calls apart unless one of them strayed: it
\* read or set the fence after its token was removed, or read it while the
\* rotation of another call that had reclaimed the lock was still owed.
GenerationsDifferUnlessStrayed ==
    undercut = {} /\ strayed = {} => GenerationsDiffer

\* When a call passes its final check, and so reports success, every other
\* live call that is inside an operation is fenced off and will fail.
OnlyNewestSucceeds ==
    [][\A c, d \in Calls :
         /\ pc[c] = "final" /\ pc'[c] = "free"
         /\ c # d /\ d \in Operating
         /\ undercut = {} /\ strayed = {}
         => ctx[d] # fence]_vars

\* Every call finally returns or dies with its process: no crash of another
\* call, at any step, leaves evidence that nobody can reclaim.
EveryCallReturns == \A c \in Calls : <>(c \in Finished \cup crashed \/ undercut # {})
=============================================================================
