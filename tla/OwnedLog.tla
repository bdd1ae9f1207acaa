------------------------------ MODULE OwnedLog ------------------------------
(***************************************************************************)
(* What the runtime lease promises: an event log with one owner at a time. *)
(* An owner appends until it leaves, by releasing, by dying or by being    *)
(* taken over; a takeover closes its share of the log with a cutoff, which *)
(* replay obeys for good.  There are no files, no lock and no fence here.  *)
(***************************************************************************)
EXTENDS Naturals, Sequences, TLAPS

CONSTANTS
    Owners,
    Nobody      \* not an owner

VARIABLES
    owner,      \* who may append
    past,       \* the owners that append no more
    cutoffs,    \* [owner, upto]: replay skips what owner wrote after upto
    log         \* the owner of each event

vars == <<owner, past, cutoffs, log>>

Init ==
    /\ owner = Nobody
    /\ past = {}
    /\ cutoffs = {}
    /\ log = <<>>

\* An owner that is not used up gets the free log.
Grant(o) ==
    /\ owner = Nobody /\ o \notin past
    /\ owner' = o
    /\ UNCHANGED <<past, cutoffs, log>>

\* It takes the log over from another, whose events so far are kept.
TakeOver(o) ==
    /\ owner \in Owners /\ o \notin past \cup {owner}
    /\ owner' = o
    /\ past' = past \cup {owner}
    /\ cutoffs' = cutoffs \cup {[owner |-> owner, upto |-> Len(log)]}
    /\ UNCHANGED log

Write(o) ==
    /\ owner = o /\ o \notin past
    /\ log' = Append(log, o)
    /\ UNCHANGED <<owner, past, cutoffs>>

\* A process dies or gives up, whether or not it owns the log.
Leave(o) ==
    /\ past' = past \cup {o}
    /\ UNCHANGED <<owner, cutoffs, log>>

\* The lease of an owner that leaves, or has left, is removed.
Drop(o) ==
    /\ owner = o
    /\ owner' = Nobody
    /\ past' = past \cup {o}
    /\ UNCHANGED <<cutoffs, log>>

Next == \E o \in Owners : Grant(o) \/ TakeOver(o) \/ Write(o) \/ Leave(o) \/ Drop(o)

Spec == Init /\ [][Next]_vars

-----------------------------------------------------------------------------
TypeOK ==
    /\ owner \in Owners \cup {Nobody}
    /\ past \subseteq Owners
    /\ cutoffs \subseteq [owner : Owners, upto : Nat]
    /\ log \in Seq(Owners)

\* The events of one owner have none of another's between them.
Contiguous ==
    \A i, j, k \in 1..Len(log) : i < j /\ j < k /\ log[i] = log[k] => log[j] = log[i]

\* Replay skips nothing: no owner wrote after its cutoff.
NothingSkipped ==
    \A t \in cutoffs : \A n \in 1..Len(log) : log[n] = t.owner => n <= t.upto

-----------------------------------------------------------------------------
\* Who wrote so far is the owner, or writes no more; and the events of an
\* owner come after those of owners that write no more.
InOrder ==
    /\ \A t \in cutoffs : t.owner \in past
    /\ \A n \in 1..Len(log) : log[n] \in past \cup {owner}
    /\ \A i, j \in 1..Len(log) : i < j => log[i] = log[j] \/ log[i] \in past

Inv == TypeOK /\ InOrder /\ Contiguous /\ NothingSkipped

LEMMA InitInv == Init => Inv
  BY DEF Init, Inv, TypeOK, InOrder, Contiguous, NothingSkipped

LEMMA NextInv ==
    ASSUME Nobody \notin Owners, Inv, [Next]_vars
    PROVE  Inv'
<1> USE DEF Inv, TypeOK
<1>1. CASE UNCHANGED vars
  BY <1>1 DEF vars, InOrder, Contiguous, NothingSkipped
<1>2. ASSUME NEW o \in Owners, Grant(o)
      PROVE  Inv'
  BY <1>2 DEF Grant, InOrder, Contiguous, NothingSkipped
<1>3. ASSUME NEW o \in Owners, TakeOver(o)
      PROVE  Inv'
  <2>1. [owner |-> owner, upto |-> Len(log)] \in [owner : Owners, upto : Nat]
    BY <1>3 DEF TakeOver
  <2>2. TypeOK'
    BY <1>3, <2>1 DEF TakeOver
  <2>3. InOrder' /\ Contiguous' /\ NothingSkipped'
    BY <1>3 DEF TakeOver, InOrder, Contiguous, NothingSkipped
  <2> QED
    BY <2>2, <2>3
<1>4. ASSUME NEW o \in Owners, Write(o)
      PROVE  Inv'
  <2>1. /\ log' \in Seq(Owners)
        /\ Len(log') = Len(log) + 1
        /\ \A n \in 1..Len(log) : log'[n] = log[n]
        /\ log'[Len(log) + 1] = o
    BY <1>4 DEF Write
  <2>2. owner = o /\ o \notin past /\ UNCHANGED <<owner, past, cutoffs>>
    BY <1>4 DEF Write
  <2>3. TypeOK' /\ InOrder'
    BY <2>1, <2>2 DEF InOrder
  <2>4. Contiguous'
    BY <2>1, <2>2 DEF InOrder, Contiguous
  <2>5. NothingSkipped'
    BY <2>1, <2>2 DEF InOrder, NothingSkipped
  <2> QED
    BY <2>3, <2>4, <2>5
<1>5. ASSUME NEW o \in Owners, Leave(o)
      PROVE  Inv'
  BY <1>5 DEF Leave, InOrder, Contiguous, NothingSkipped
<1>6. ASSUME NEW o \in Owners, Drop(o)
      PROVE  Inv'
  BY <1>6 DEF Drop, InOrder, Contiguous, NothingSkipped
<1> QED
  BY <1>1, <1>2, <1>3, <1>4, <1>5, <1>6 DEF Next

\* An owned log is a succession of owners, and no cutoff excludes an event.
THEOREM Promise ==
    ASSUME Nobody \notin Owners
    PROVE  Spec => [](Contiguous /\ NothingSkipped)
<1>1. Inv => Contiguous /\ NothingSkipped
  BY DEF Inv
<1>2. Inv /\ [Next]_vars => Inv'
  BY NextInv
<1> QED
  BY InitInv, <1>1, <1>2, PTL DEF Spec
=============================================================================
