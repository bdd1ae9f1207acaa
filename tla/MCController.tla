---------------------------- MODULE MCController ----------------------------
(***************************************************************************)
(* The plans of faults for the runs of ControllerHandoff.  A plan is a     *)
(* group of faults that one recovery of the code deals with and how many   *)
(* of them one behaviour may have, in any order and combination.           *)
(***************************************************************************)
EXTENDS ControllerHandoff

\* the click and what the page makes of the message
Sending == {"noclick", "stray", "preclick", "clickerror", "unreadable", "target", "vanish", "reload", "tab", "prompt", "crash"}

\* failures that the page shows in place of the answer
Failing == {"failed", "timeout", "late", "oldadapter", "crash"}

\* answers that are no command, and the rounds and conversations that follow
Turning == {"bad", "noclick", "slow", "rotate", "open", "news", "archive", "stagnation", "crash"}

MCPlans == {[faults |-> Sending, left |-> 2],
            [faults |-> Failing, left |-> 2],
            [faults |-> Turning, left |-> 2],
            [faults |-> {"timeout", "oldadapter"}, left |-> 4],
            [faults |-> {"noclick", "unreadable", "scan"}, left |-> 5],
            [faults |-> {"noclick", "clickerror", "operator"}, left |-> 2]}

\* a prompt that was not sent, and then differs from the one on record
FrozenPlans == {[faults |-> {"noclick", "prompt"}, left |-> 2]}
=======================================
