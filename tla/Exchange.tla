------------------------------ MODULE Exchange ------------------------------
(***************************************************************************)
(* What the controller loop promises about the exchange with the           *)
(* controller, whatever crashes and fails on the way: in a conversation it *)
(* asks nothing while a message of a round that has no command yet waits   *)
(* for its answer or has a good one; it asks no round before the one below *)
(* has its command; and every command is the answer to a message of its    *)
(* own.  An answer that comes late, after a failure was taken for it, may  *)
(* still be used and does not keep anything from being asked.              *)
(***************************************************************************)
EXTENDS Integers, Sequences, FiniteSets

CONSTANTS MaxGen, MaxRounds

VARIABLES
    talks,      \* conversation -> its messages, each [round, ans]
    accepted    \* the rounds of the commands, in the order of their acceptance

vars == <<talks, accepted>>

Conversations == 1..MaxGen
Accepted(round) == {n \in DOMAIN accepted : accepted[n] = round}
Answers(g, round) == {i \in DOMAIN talks[g] : talks[g][i].round = round /\ talks[g][i].ans \in {"good", "late"}}
AllAnswers(round) == UNION {{<<g, i>> : i \in Answers(g, round)} : g \in Conversations}
Open(g) == {i \in DOMAIN talks[g] : talks[g][i].ans \in {"none", "good"} /\ Accepted(talks[g][i].round) = {}}

Init == talks = [g \in Conversations |-> <<>>] /\ accepted = <<>>

Ask(g, round) ==
    /\ Open(g) = {}
    /\ round = 1 \/ Accepted(round - 1) # {}
    /\ talks' = [talks EXCEPT ![g] = Append(@, [round |-> round, ans |-> "none"])]
    /\ UNCHANGED accepted

\* The last message is answered, retried after a delivery timeout or taken back.
Answer(g) ==
    /\ talks[g] # <<>>
    /\ LET last == Len(talks[g])
       IN \/ /\ talks[g][last].ans \in {"none", "timeout"}
             /\ \E ans \in {"none", "good", "bad", "failed", "timeout", "late"} :
                    talks' = [talks EXCEPT ![g][last].ans = ans]
          \/ /\ talks[g][last].ans = "none"
             /\ talks' = [talks EXCEPT ![g] = SubSeq(@, 1, last - 1)]
    /\ UNCHANGED accepted

Accept(round) ==
    /\ Cardinality(Accepted(round)) < Cardinality(AllAnswers(round))
    /\ accepted' = Append(accepted, round)
    /\ UNCHANGED talks

Next ==
    \/ \E g \in Conversations : Answer(g) \/ \E round \in 1..MaxRounds : Ask(g, round)
    \/ \E round \in 1..MaxRounds : Accept(round)

Spec == Init /\ [][Next]_vars
=============================================================================
