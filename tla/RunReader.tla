----------------------------- MODULE RunReader -----------------------------
(***************************************************************************)
(* RunStore.load beside the runtimes of RuntimeLease: a reader that takes  *)
(* no lock reads the event log, and then the retirement cutoffs with the   *)
(* double reads of readRetirementLeaseSnapshot (src/state/runtime-lease.ts)*)
(* and readStableRuntimeOwnerRetirementCutoffs (runtime-retirement.ts),    *)
(* while claims, takeovers, releases and rotations go on.                  *)
(*                                                                         *)
(* Simplifications: the bounds on the attempts (4 and 8, then an UNSTABLE  *)
(* error) are left out, so the reader tries again as often as it must;     *)
(* marker files are immutable, so that their listing decides what is read; *)
(* a lease that does not parse is not modelled.                            *)
(***************************************************************************)
EXTENDS RuntimeLease

VARIABLES
    rpc,        \* the file the reader reads next, or "done"
    phase,      \* which lease snapshot of an attempt: before, after, settle
    rfence,     \* the fence read first in a snapshot
    rlease,     \* the lease read under it
    before,     \* the snapshot to compare with
    listed,     \* the markers listed
    known,      \* history: the cutoffs on disk when the events were read
    cutoffs     \* the cutoffs of the result

reader == <<rpc, phase, rfence, rlease, before, listed, known, cutoffs>>

\* runtimeFenceAuthorityIdentity, owner and retirements; not the heartbeat.
Identity(f, lease) == [fence |-> f, owner |-> lease.owner, retired |-> lease.retired]

ReaderTypeOK ==
    /\ rpc \in {"events", "fence", "lease", "again", "markers", "done"}
    /\ phase \in {"before", "after", "settle"}
    /\ rfence \in Fence
    /\ rlease \in Lease
    /\ listed \subseteq Retirement
    /\ known \subseteq Retirement
    /\ cutoffs \subseteq Retirement

ReaderInit ==
    /\ Init
    /\ rpc = "events"
    /\ phase = "before"
    /\ rfence = NoFence
    /\ rlease = Missing
    /\ before = Identity(NoFence, Missing)
    /\ listed = {}
    /\ known = {}
    /\ cutoffs = {}

ReadEvents ==
    /\ rpc = "events"
    /\ known' = Retirements
    /\ rpc' = "fence"
    /\ UNCHANGED <<phase, rfence, rlease, before, listed, cutoffs>>

ReadFenceFirst ==
    /\ rpc = "fence"
    /\ rfence' = fence
    /\ rpc' = "lease"
    /\ UNCHANGED <<phase, rlease, before, listed, known, cutoffs>>

ReadLease ==
    /\ rpc = "lease"
    /\ rlease' = LeaseAt(rfence)
    /\ rpc' = "again"
    /\ UNCHANGED <<phase, rfence, before, listed, known, cutoffs>>

\* The fence changed while the lease was read: take the snapshot again.
FenceMoved ==
    /\ rpc = "again" /\ fence # rfence
    /\ rpc' = "fence"
    /\ UNCHANGED <<phase, rfence, rlease, before, listed, known, cutoffs>>

Snapshot == Identity(rfence, rlease)

\* The first snapshot of an attempt; the markers come next.
SnapshotBefore ==
    /\ rpc = "again" /\ fence = rfence /\ phase = "before"
    /\ before' = Snapshot
    /\ rpc' = "markers"
    /\ UNCHANGED <<phase, rfence, rlease, listed, known, cutoffs>>

\* MUTANT of SnapshotAfter: a lease that is gone needs no second listing.
SnapshotAfterHasty ==
    /\ rpc = "again" /\ fence = rfence /\ phase = "after"
    /\ \/ /\ Snapshot = before \/ rlease.owner = Nobody
          /\ cutoffs' = listed \cup rlease.retired
          /\ rpc' = "done"
          /\ UNCHANGED phase
       \/ /\ Snapshot # before /\ rlease.owner # Nobody
          /\ phase' = "before"
          /\ rpc' = "fence"
          /\ UNCHANGED cutoffs
    /\ UNCHANGED <<rfence, rlease, before, listed, known>>

\* The second: nothing moved, or the lease is gone and its markers may have
\* been written after the listing, or another attempt begins.
SnapshotAfter ==
    /\ rpc = "again" /\ fence = rfence /\ phase = "after"
    /\ \/ /\ Snapshot = before
          /\ cutoffs' = listed \cup rlease.retired
          /\ rpc' = "done"
          /\ UNCHANGED <<phase, before>>
       \/ /\ Snapshot # before /\ rlease.owner = Nobody
          /\ before' = Snapshot
          /\ phase' = "settle"
          /\ rpc' = "markers"
          /\ UNCHANGED cutoffs
       \/ /\ Snapshot # before /\ rlease.owner # Nobody
          /\ phase' = "before"
          /\ rpc' = "fence"
          /\ UNCHANGED <<before, cutoffs>>
    /\ UNCHANGED <<rfence, rlease, listed, known>>

\* The third, after the markers were listed again.
SnapshotSettle ==
    /\ rpc = "again" /\ fence = rfence /\ phase = "settle"
    /\ \/ Snapshot = before /\ cutoffs' = listed /\ rpc' = "done" /\ UNCHANGED phase
       \/ Snapshot # before /\ phase' = "before" /\ rpc' = "fence" /\ UNCHANGED cutoffs
    /\ UNCHANGED <<rfence, rlease, before, listed, known>>

\* MUTANT of ListMarkers: takes a name that is no marker for one.
ListMarkersUnfiltered ==
    /\ rpc = "markers"
    /\ listed' = markers \cup {Nobody}
    /\ phase' = IF phase = "before" THEN "after" ELSE phase
    /\ rpc' = "fence"
    /\ UNCHANGED <<rfence, rlease, before, known, cutoffs>>

ListMarkers ==
    /\ rpc = "markers"
    /\ listed' = markers
    /\ phase' = IF phase = "before" THEN "after" ELSE phase
    /\ rpc' = "fence"
    /\ UNCHANGED <<rfence, rlease, before, known, cutoffs>>

ReaderStep ==
    \/ ReadEvents \/ ReadFenceFirst \/ ReadLease \/ FenceMoved
    \/ SnapshotBefore \/ SnapshotAfter \/ SnapshotSettle \/ ListMarkers

ReaderNext ==
    \/ ReaderStep /\ UNCHANGED vars
    \/ Next /\ UNCHANGED reader

ReaderSpec == ReaderInit /\ [][ReaderNext]_<<vars, reader>>

\* A load that returns knows every cutoff that was on disk when it read the
\* events, whatever was released, taken over or rotated meanwhile, so that it
\* replays no event that was excluded then.
LoadKnowsEveryCutoff == rpc = "done" => known \subseteq cutoffs

\* It invents none: each cutoff it applies is on disk for later readers too.
LoadedCutoffsAreDurable == rpc = "done" => cutoffs \subseteq Retirements
=============================================================================
