------------------------------ MODULE HostLane ------------------------------
(***************************************************************************)
(* The Claude Desktop lane: daemons (scripts/claude-desktop-lane.ts) that  *)
(* take turns by a lock file (src/browser/claude-desktop/lane-lock.ts)     *)
(* and ask for browser actions through a directory                         *)
(* (file-bridge.ts); a host claims a request by renaming it, acts and      *)
(* answers (host-mailbox.ts); the lane repeats a request that nobody       *)
(* claimed (lane-runner.ts).                                               *)
(*                                                                         *)
(* Simplifications: a daemon asks for one action after the other, as the   *)
(* browser adapter does; malformed requests, the order in which requests   *)
(* are claimed and the phase noted in a claimed request are left out; a    *)
(* process id is not used again.                                           *)
(***************************************************************************)
EXTENDS Naturals

CONSTANTS
    Daemons,     \* processes of the lane, each starts once
    Hosts,       \* processes that act on requests
    Requests,    \* request ids, in the order they are made
    MaxRetries,  \* maxUnclaimedTimeoutRetries
    MaxCrashes   \* bound: daemons and hosts that crash, between them

Nobody == "nobody"
NoRequest == 0

ASSUME LaneAssumption ==
    /\ Nobody \notin Daemons /\ Requests \subseteq Nat \ {NoRequest}
    /\ MaxRetries \in Nat /\ MaxCrashes \in Nat

VARIABLES
    lock,      \* lane.lock: the daemon that created it, or nobody
    written,   \* whether its contents are written; they name the creator
    daemon,    \* [Daemons -> where main is]
    signal,    \* [Daemons -> where the handler of SIGTERM and SIGINT is]
    found,     \* [Daemons -> the owner it read in the lock file, or nobody]
    undercut,  \* whether somebody removed a lock that it had not read (history)
    place,     \* [Requests -> the directory of the request file]
    answer,    \* [Requests -> BOOLEAN]: whether a response file is there
    call,      \* [Requests -> where the call is]
    claimed,   \* [Requests -> BOOLEAN]: claimedAt is set
    by,        \* [Requests -> the daemon that called]
    of,        \* [Requests -> the first request for the same action]
    last,      \* [Daemons -> the last request, or none]
    retries,   \* [Daemons -> how often in a row nobody claimed]
    late,      \* the requests whose expiresAt has passed
    host,      \* [Hosts -> where the host is]
    hold,      \* [Hosts -> the request it works on, or none]
    acted,     \* [Requests -> how often a host acted on it (history)]
    crashes    \* crashes so far

lockVars == <<lock, written, found, undercut>>
daemonVars == <<daemon, signal, last, retries>>
fileVars == <<place, answer>>
callVars == <<call, claimed, by, of>>
hostVars == <<host, hold, acted>>
laneVars == <<lockVars, daemonVars, fileVars, callVars, late, hostVars, crashes>>

Polling == {"response", "inflight", "request", "deadline", "withdraw"}

LaneTypeOK ==
    /\ lock \in Daemons \cup {Nobody} /\ written \in BOOLEAN /\ undercut \in BOOLEAN
    /\ found \in [Daemons -> Daemons \cup {Nobody}]
    /\ daemon \in [Daemons -> {"off", "create", "write", "read", "remove", "sweep", "work",
                               "release", "erase", "done", "gone"}]
    /\ signal \in [Daemons -> {"none", "release", "erase", "exit"}]
    /\ place \in [Requests -> {"none", "requests", "inflight", "expired"}]
    /\ answer \in [Requests -> BOOLEAN]
    /\ call \in [Requests -> {"none", "returned", "unclaimed", "unknown"} \cup Polling]
    /\ claimed \in [Requests -> BOOLEAN]
    /\ by \in [Requests -> Daemons \cup {Nobody}] /\ of \in [Requests -> Requests \cup {NoRequest}]
    /\ last \in [Daemons -> Requests \cup {NoRequest}] /\ retries \in [Daemons -> 0..MaxRetries]
    /\ late \subseteq Requests
    /\ host \in [Hosts -> {"idle", "expire", "claim", "act", "respond"}]
    /\ hold \in [Hosts -> Requests \cup {NoRequest}]
    /\ acted \in [Requests -> Nat]
    /\ crashes \in 0..MaxCrashes

LaneInit ==
    /\ lock = Nobody /\ written = FALSE /\ undercut = FALSE
    /\ found = [d \in Daemons |-> Nobody]
    /\ daemon = [d \in Daemons |-> "off"] /\ signal = [d \in Daemons |-> "none"]
    /\ place = [r \in Requests |-> "none"] /\ answer = [r \in Requests |-> FALSE]
    /\ call = [r \in Requests |-> "none"] /\ claimed = [r \in Requests |-> FALSE]
    /\ by = [r \in Requests |-> Nobody] /\ of = [r \in Requests |-> NoRequest]
    /\ last = [d \in Daemons |-> NoRequest] /\ retries = [d \in Daemons |-> 0]
    /\ late = {}
    /\ host = [h \in Hosts |-> "idle"] /\ hold = [h \in Hosts |-> NoRequest]
    /\ acted = [r \in Requests |-> 0]
    /\ crashes = 0

Alive(d) == daemon[d] \notin {"off", "gone"}
Goes(d, pc) == daemon' = [daemon EXCEPT ![d] = pc]

-----------------------------------------------------------------------------
(* The lock file                                                           *)

\* An exclusive creation makes an empty file first.
Create(d) ==
    /\ daemon[d] \in {"off", "create"}
    /\ IF lock = Nobody
       THEN lock' = d /\ written' = FALSE /\ Goes(d, "write")
       ELSE UNCHANGED <<lock, written>> /\ Goes(d, "read")
    /\ UNCHANGED <<found, undercut, signal, last, retries, fileVars, callVars, late, hostVars, crashes>>

\* The contents go into the file that was created, even if it was removed.
WriteLock(d) ==
    /\ daemon[d] = "write"
    /\ written' = (written \/ lock = d)
    /\ Goes(d, "sweep")
    /\ UNCHANGED <<lock, found, undercut, signal, last, retries, fileVars, callVars, late, hostVars, crashes>>

\* MUTANT of Replaceable: an owner that is alive is replaced as well
ReplaceableAlways == TRUE

\* The lock of a dead owner, or one that cannot be parsed, is to be replaced.
Replaceable == ~written \/ ~Alive(lock)

\* A lock that is gone by now, or that names a live owner, ends the daemon.
ReadLock(d) ==
    /\ daemon[d] = "read"
    /\ found' = [found EXCEPT ![d] = IF written THEN lock ELSE Nobody]
    /\ Goes(d, IF lock # Nobody /\ Replaceable THEN "remove" ELSE "gone")
    /\ UNCHANGED <<lock, written, undercut, signal, last, retries, fileVars, callVars, late, hostVars, crashes>>

\* rm removes whatever is there now, not only the lock that was read.
Removes(owner) ==
    /\ lock' = Nobody /\ written' = FALSE
    /\ undercut' = (undercut \/ lock \notin {Nobody, owner})

RemoveLock(d) ==
    /\ daemon[d] = "remove"
    /\ Removes(found[d]) /\ Goes(d, "create")
    /\ found' = [found EXCEPT ![d] = Nobody]
    /\ UNCHANGED <<signal, last, retries, fileVars, callVars, late, hostVars, crashes>>

\* expirePendingRequests: what an earlier daemon left unclaimed is withdrawn.
Sweep(d) ==
    /\ daemon[d] = "sweep"
    /\ place' = [r \in Requests |-> IF place[r] = "requests" THEN "expired" ELSE place[r]]
    /\ Goes(d, "work")
    /\ UNCHANGED <<lockVars, signal, last, retries, answer, callVars, late, hostVars, crashes>>

\* The end of main: the handler is off, and the lock is released if it is its own.
ReadOwn(d) ==
    /\ daemon[d] = "release"
    /\ Goes(d, IF lock = d /\ written THEN "erase" ELSE "done")
    /\ UNCHANGED <<lockVars, signal, last, retries, fileVars, callVars, late, hostVars, crashes>>

EraseOwn(d) ==
    /\ daemon[d] = "erase"
    /\ Removes(d) /\ Goes(d, "done")
    /\ UNCHANGED <<found, signal, last, retries, fileVars, callVars, late, hostVars, crashes>>

Leave(d) ==
    /\ daemon[d] = "done" /\ signal[d] = "none"
    /\ Goes(d, "gone")
    /\ UNCHANGED <<lockVars, signal, last, retries, fileVars, callVars, late, hostVars, crashes>>

\* A signal: the handler releases the lock as well, while main goes on, and exits.
Signal(d) ==
    /\ signal[d] = "none" /\ daemon[d] \in {"sweep", "work"}
    /\ signal' = [signal EXCEPT ![d] = "release"]
    /\ UNCHANGED <<lockVars, daemon, last, retries, fileVars, callVars, late, hostVars, crashes>>

SignalReads(d) ==
    /\ signal[d] = "release" /\ Alive(d)
    /\ signal' = [signal EXCEPT ![d] = IF lock = d /\ written THEN "erase" ELSE "exit"]
    /\ UNCHANGED <<lockVars, daemon, last, retries, fileVars, callVars, late, hostVars, crashes>>

SignalErases(d) ==
    /\ signal[d] = "erase" /\ Alive(d)
    /\ Removes(d) /\ signal' = [signal EXCEPT ![d] = "exit"]
    /\ UNCHANGED <<found, daemon, last, retries, fileVars, callVars, late, hostVars, crashes>>

SignalExits(d) ==
    /\ signal[d] = "exit" /\ Alive(d)
    /\ Goes(d, "gone")
    /\ UNCHANGED <<lockVars, signal, last, retries, fileVars, callVars, late, hostVars, crashes>>

CrashDaemon(d) ==
    /\ Alive(d) /\ crashes < MaxCrashes
    /\ crashes' = crashes + 1
    /\ Goes(d, "gone")
    /\ UNCHANGED <<lockVars, signal, last, retries, fileVars, callVars, late, hostVars>>

-----------------------------------------------------------------------------
(* A call of the bridge                                                    *)

\* What became of the last call of a daemon
LastCall(d) == IF last[d] = NoRequest THEN "returned" ELSE call[last[d]]

\* The next request: for a new action, or once more for one that nobody claimed.
Publish(d, r) ==
    /\ daemon[d] = "work"
    /\ call[r] = "none" /\ \A s \in Requests : s < r => call[s] # "none"
    /\ \/ /\ LastCall(d) = "returned"
          /\ of' = [of EXCEPT ![r] = r] /\ retries' = [retries EXCEPT ![d] = 0]
       \/ /\ LastCall(d) = "unclaimed" /\ retries[d] < MaxRetries
          /\ of' = [of EXCEPT ![r] = of[last[d]]] /\ retries' = [retries EXCEPT ![d] = @ + 1]
    /\ place' = [place EXCEPT ![r] = "requests"]
    /\ call' = [call EXCEPT ![r] = "response"]
    /\ by' = [by EXCEPT ![r] = d]
    /\ last' = [last EXCEPT ![d] = r]
    /\ UNCHANGED <<lockVars, daemon, signal, answer, claimed, late, hostVars, crashes>>

\* The run is over, or the error of the last call ends the lane.
EndLane(d) ==
    /\ daemon[d] = "work"
    /\ LastCall(d) \notin Polling
    /\ Goes(d, "release")
    /\ UNCHANGED <<lockVars, signal, last, retries, fileVars, callVars, late, hostVars, crashes>>

Calling(r, pc) == call[r] = pc /\ daemon[by[r]] = "work"
Turns(r, pc) == call' = [call EXCEPT ![r] = pc]
Claimed(r) == claimed' = [claimed EXCEPT ![r] = TRUE]

\* A response ends the call and removes the files.
ReadResponse(r) ==
    /\ Calling(r, "response")
    /\ IF answer[r]
       THEN /\ answer' = [answer EXCEPT ![r] = FALSE]
            /\ place' = [place EXCEPT ![r] = IF @ = "expired" THEN @ ELSE "none"]
            /\ Turns(r, "returned")
       ELSE UNCHANGED fileVars /\ Turns(r, "inflight")
    /\ UNCHANGED <<lockVars, daemonVars, claimed, by, of, late, hostVars, crashes>>

ReadInflight(r) ==
    /\ Calling(r, "inflight")
    /\ IF place[r] = "inflight" THEN Claimed(r) /\ Turns(r, "deadline")
       ELSE UNCHANGED claimed /\ Turns(r, IF claimed[r] THEN "deadline" ELSE "request")
    /\ UNCHANGED <<lockVars, daemonVars, fileVars, by, of, late, hostVars, crashes>>

\* A request that disappeared counts as claimed.
ReadRequest(r) ==
    /\ Calling(r, "request")
    /\ IF place[r] = "requests" THEN UNCHANGED claimed ELSE Claimed(r)
    /\ Turns(r, "deadline")
    /\ UNCHANGED <<lockVars, daemonVars, fileVars, by, of, late, hostVars, crashes>>

\* The budget of a claimed request is another one than that of its request.
Deadline(r) ==
    /\ Calling(r, "deadline")
    /\ \/ Turns(r, "response")
       \/ claimed[r] /\ Turns(r, "unknown")
       \/ ~claimed[r] /\ r \in late /\ Turns(r, "withdraw")
    /\ UNCHANGED <<lockVars, daemonVars, fileVars, claimed, by, of, late, hostVars, crashes>>

\* MUTANT of Withdrawable: the last look decides, not the rename
WithdrawableUnseen(r) == ~claimed[r]

\* The rename succeeds only while the request file is in its place.
Withdrawable(r) == place[r] = "requests"

\* The rename decides between the bridge and a host.
Withdraw(r) ==
    /\ Calling(r, "withdraw")
    /\ IF Withdrawable(r)
       THEN /\ place' = [place EXCEPT ![r] = IF @ = "requests" THEN "expired" ELSE @]
            /\ Turns(r, "unclaimed") /\ UNCHANGED claimed
       ELSE Claimed(r) /\ Turns(r, "response") /\ UNCHANGED place
    /\ UNCHANGED <<lockVars, daemonVars, answer, by, of, late, hostVars, crashes>>

Expire(r) ==
    /\ call[r] # "none" /\ r \notin late
    /\ late' = late \cup {r}
    /\ UNCHANGED <<lockVars, daemonVars, fileVars, callVars, hostVars, crashes>>

-----------------------------------------------------------------------------
(* A host                                                                  *)

Turn(h, pc) == host' = [host EXCEPT ![h] = pc]

\* claimNextHostMailboxRequest reads a request and looks at the clock.
Peek(h, r) ==
    /\ host[h] = "idle" /\ place[r] = "requests"
    /\ hold' = [hold EXCEPT ![h] = r]
    /\ Turn(h, IF r \in late THEN "expire" ELSE "claim")
    /\ UNCHANGED <<lockVars, daemonVars, fileVars, callVars, late, acted, crashes>>

\* An expired request is moved away, if it is still there.
HostExpires(h) ==
    /\ host[h] = "expire"
    /\ place' = [place EXCEPT ![hold[h]] = IF @ = "requests" THEN "expired" ELSE @]
    /\ Turn(h, "idle")
    /\ UNCHANGED <<lockVars, daemonVars, answer, callVars, late, hold, acted, crashes>>

\* The rename claims it; a host that comes too late goes on to the next one.
Claim(h) ==
    /\ host[h] = "claim"
    /\ IF place[hold[h]] = "requests"
       THEN place' = [place EXCEPT ![hold[h]] = "inflight"] /\ Turn(h, "act")
       ELSE UNCHANGED place /\ Turn(h, "idle")
    /\ UNCHANGED <<lockVars, daemonVars, answer, callVars, late, hold, acted, crashes>>

Act(h) ==
    /\ host[h] = "act"
    /\ acted' = [acted EXCEPT ![hold[h]] = @ + 1]
    /\ Turn(h, "respond")
    /\ UNCHANGED <<lockVars, daemonVars, fileVars, callVars, late, hold, crashes>>

\* publishHostMailboxResponse
Respond(h) ==
    /\ host[h] = "respond"
    /\ answer' = [answer EXCEPT ![hold[h]] = @ \/ place[hold[h]] = "inflight"]
    /\ Turn(h, "idle")
    /\ UNCHANGED <<lockVars, daemonVars, place, callVars, late, hold, acted, crashes>>

CrashHost(h) ==
    /\ host[h] # "idle" /\ crashes < MaxCrashes
    /\ crashes' = crashes + 1
    /\ Turn(h, "idle")
    /\ UNCHANGED <<lockVars, daemonVars, fileVars, callVars, late, hold, acted>>

-----------------------------------------------------------------------------

DaemonStep(d) ==
    \/ Create(d) \/ WriteLock(d) \/ ReadLock(d) \/ RemoveLock(d) \/ Sweep(d)
    \/ ReadOwn(d) \/ EraseOwn(d) \/ Leave(d) \/ EndLane(d)
    \/ Signal(d) \/ SignalReads(d) \/ SignalErases(d) \/ SignalExits(d) \/ CrashDaemon(d)
    \/ \E r \in Requests : Publish(d, r)

CallStep(r) ==
    ReadResponse(r) \/ ReadInflight(r) \/ ReadRequest(r) \/ Deadline(r) \/ Withdraw(r) \/ Expire(r)

HostStep(h) ==
    HostExpires(h) \/ Claim(h) \/ Act(h) \/ Respond(h) \/ CrashHost(h) \/ \E r \in Requests : Peek(h, r)

LaneNext ==
    \/ \E d \in Daemons : DaemonStep(d)
    \/ \E r \in Requests : CallStep(r)
    \/ \E h \in Hosts : HostStep(h)

LaneSpec == LaneInit /\ [][LaneNext]_laneVars

-----------------------------------------------------------------------------
(* Properties                                                              *)

\* No browser action happens twice: a request is acted on once, and when a lane
\* repeats a request because nobody had claimed it, no host has acted on it or
\* ever will, whichever way withdrawal, expiry and claim interleave, and whoever
\* crashes (the renames of file-bridge.ts and host-mailbox.ts, the retry of
\* lane-runner.ts).
ActionOnce ==
    \A r, s \in Requests :
        /\ acted[r] <= 1
        /\ r # s /\ of[r] = of[s] => acted[r] = 0 \/ acted[s] = 0

Serving(d) == daemon[d] \in {"sweep", "work"} /\ signal[d] # "exit"

\* Two daemons serve at once only after an rm that met another lock than the one
\* it was meant for: a lock whose contents were not written when it was read, one
\* that replaced the dead one in the meantime, or the next daemon's at the second
\* release of its predecessor (acquireClaudeDesktopLaneLock).
OneDaemonUnlessUndercut ==
    undercut \/ \A c, d \in Daemons : Serving(c) /\ Serving(d) => c = d
=============================================================================
