----------------------------- MODULE MCServices -----------------------------
(***************************************************************************)
(* Two components that share nothing, each on its own instances: the jobs  *)
(* of a run and the Claude Desktop lane.  An initial state picks one       *)
(* instance; the other component rests.                                    *)
(***************************************************************************)
EXTENDS JobDispatch, HostLane

VARIABLE plan  \* the instance

vars == <<jobVars, laneVars, plan>>

Dispatch(jobs) == [action |-> "dispatch", jobs |-> jobs]
Plainly(action) == [action |-> action, jobs |-> <<>>]

\* commands, the round limit, how many faults, and jobs somebody may cancel
Instance(commands, rounds, faults, asks) ==
    [part |-> "jobs", commands |-> commands, rounds |-> rounds, faults |-> faults, asks |-> asks]

\* daemons, the ones that get a signal, hosts, requests, and how many crashes
Lane(daemons, signals, hosts, requests_, crashes_) ==
    [part |-> "lane", daemons |-> daemons, signals |-> signals, hosts |-> hosts,
     requests |-> requests_, crashes |-> crashes_]

\* w is work; the others are advice, b in the background, a and b in one lane
Runs == {
    Instance({Dispatch(<<"c", "b">>), Dispatch(<<"b", "w">>), Dispatch(<<"b", "a">>),
         Dispatch(<<"c">>), Plainly("complete")}, 3, 0, {}),
    Instance({Dispatch(<<"b">>), Dispatch(<<"w">>), Plainly("complete")}, 2, 1, {}),
    Instance({Dispatch(<<"w", "a">>), Plainly("inspect"), Plainly("complete")}, 2, 1, {}),
    Instance({Dispatch(<<"b", "a">>), Plainly("wait")}, 2, 1, {}),
    Instance({Dispatch(<<"w">>), Plainly("complete")}, 2, 2, {"w"}),
    Instance({Dispatch(<<"b">>), Plainly("wait")}, 2, 2, {"b"}) }

Lanes == {
    Lane({"d1", "d2", "d3"}, {"d1"}, {}, {}, 0),
    Lane({"d1", "d2", "d3"}, {}, {}, {}, 1),
    Lane({"d1", "d2"}, {"d1", "d2"}, {}, {}, 1),
    Lane({"d1"}, {}, {"h1", "h2"}, {1, 2}, 1),
    Lane({"d1", "d2"}, {}, {"h1"}, {1}, 1) }

MCCommands == UNION {p.commands : p \in Runs}
MCLane == [a |-> "l1", b |-> "l1", c |-> "l2", w |-> "l2"]

Init ==
    /\ JobsInit /\ LaneInit
    /\ \/ plan \in Runs /\ left = plan.faults
       \/ plan \in Lanes /\ left = 0

NextJobs ==
    /\ plan.part = "jobs" /\ JobsNext
    /\ log'.command \in plan.commands \cup {NoCommand} /\ log'.used <= plan.rounds
    /\ requests'.jobs \subseteq plan.asks
    /\ UNCHANGED <<laneVars, plan>>

NextLane ==
    /\ plan.part = "lane" /\ LaneNext
    /\ \A d \in Daemons : (d \notin plan.daemons => daemon'[d] = "off")
                          /\ (d \notin plan.signals => signal'[d] = "none")
    /\ \A h \in Hosts \ plan.hosts : host'[h] = "idle"
    /\ \A r \in Requests \ plan.requests : call'[r] = "none"
    /\ crashes' <= plan.crashes
    /\ UNCHANGED <<jobVars, plan>>

Next == NextJobs \/ NextLane

FairSpec == Init /\ [][Next]_vars /\ JobsFairness

\* Both components keep their types; a job is spawned at most once
\* (JobSupervisor), and a daemon repeats a request at most MaxRetries times.
ServicesTypeOK == JobsTypeOK /\ LaneTypeOK
=============================================================================
