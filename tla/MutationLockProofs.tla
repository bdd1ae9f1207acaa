------------------------- MODULE MutationLockProofs -------------------------
(***************************************************************************)
(* Proofs about MutationLock for every set of calls: type correctness, and *)
(* mutual exclusion of live calls when no process is suspended, for as     *)
(* long as no rmdir has removed another call's fresh directory.            *)
(***************************************************************************)
EXTENDS MutationLock, FiniteSetTheorems, TLAPS

\* The labels between the creation of the own token and its removal.
Holding == {"fence", "rotate", "operate", "final", "free", "raise"}

\* A token belongs to a call between these labels.
TokensAreHeld == \A c \in tokens : pc[c] \in Holding

\* A call that is about to unlink a stale token has seen that of a dead call.
VictimIsDead == \A c \in Calls : pc[c] = "unlink" => \E q \in crashed : seen[c] = {q}

\* A live holder's token is alone, and a live call that made the directory
\* has it to itself until it creates its token.
Alone ==
    /\ \A c \in Calls \ crashed : pc[c] \in Holding => tokens = {c}
    /\ \A c \in Calls \ crashed : pc[c] = "token" => dir /\ tokens = {}
    /\ \A c, d \in Calls \ crashed : pc[c] = "token" /\ pc[d] = "token" => c = d
    /\ \A c, d \in tokens : c = d

LockInv ==
    /\ TypeOK
    /\ TokensAreHeld
    /\ VictimIsDead
    /\ undercut = {} => Alone

-----------------------------------------------------------------------------
LEMMA NextTypeOK == ASSUME TypeOK, [Next]_vars PROVE TypeOK'
<1> USE CallsAssumption DEF TypeOK, At, Goto, Rmdir, disk, local, history, Generation
<1>1. CASE UNCHANGED vars
  BY <1>1 DEF vars
<1>2. ASSUME NEW c \in Calls, Step(c)  PROVE TypeOK'
  <2>1. CASE Mkdir(c)
    <3>1. CASE ~dir
      <4>1. dir' = TRUE /\ touched' = c /\ pc' = [pc EXCEPT ![c] = "token"]
        BY <2>1, <3>1, Zenon DEF Mkdir
      <4> QED
        BY <2>1, <4>1 DEF Mkdir
    <3>2. CASE dir
      BY <2>1, <3>2 DEF Mkdir
    <3> QED
      BY <3>1, <3>2
  <2>2. CASE CreateToken(c)
    BY <2>2 DEF CreateToken
  <2>3. CASE Readdir(c)
    BY <2>3 DEF Readdir
  <2>4. CASE StatStale(c)
    BY <2>4 DEF StatStale
  <2>5. CASE StatFresh(c)
    BY <2>5 DEF StatFresh
  <2>6. CASE RmdirStale(c)
    BY <2>6 DEF RmdirStale
  <2>7. CASE UnlinkStale(c)
    BY <2>7 DEF UnlinkStale
  <2>8. CASE Sweep(c)
    BY <2>8 DEF Sweep
  <2>9. CASE ReadFence(c)
    BY <2>9 DEF ReadFence, Stray
  <2>10. CASE Rotate(c)
    BY <2>10 DEF Rotate, Stray
  <2>11. CASE Operate(c)
    BY <2>11 DEF Operate
  <2>12. CASE FinalCheck(c)
    BY <2>12 DEF FinalCheck
  <2>13. CASE UnlinkOwn(c)
    BY <2>13 DEF UnlinkOwn
  <2>14. CASE RmdirOwn(c)
    BY <2>14 DEF RmdirOwn
  <2> QED
    BY <1>2, <2>1, <2>2, <2>3, <2>4, <2>5, <2>6, <2>7, <2>8, <2>9, <2>10, <2>11,
       <2>12, <2>13, <2>14 DEF Step
<1>3. ASSUME NEW c \in Calls, Timeout(c)  PROVE TypeOK'
  BY <1>3 DEF Timeout
<1>4. ASSUME NEW c \in Calls, Crash(c)  PROVE TypeOK'
  BY <1>4 DEF Crash
<1> QED
  BY <1>1, <1>2, <1>3, <1>4 DEF Next

\* Type correctness, for every set of calls: in particular a token exists only
\* inside an existing directory.
THEOREM TypeCorrect == Spec => []TypeOK
<1>1. Init => TypeOK
  BY CallsAssumption DEF Init, TypeOK
<1> QED
  BY <1>1, NextTypeOK, PTL DEF Spec

-----------------------------------------------------------------------------
(* Tokens and victims, whoever is suspended or dies. *)

LEMMA NextTokensAreHeld ==
    ASSUME TypeOK, TokensAreHeld, [Next]_vars PROVE TokensAreHeld'
<1> USE DEF TypeOK, TokensAreHeld, Holding, At, Goto, disk, local
<1>1. CASE UNCHANGED vars
  BY <1>1 DEF vars
<1>2. ASSUME NEW c \in Calls, Step(c)  PROVE TokensAreHeld'
  <2>1. CASE Mkdir(c)
    BY <2>1 DEF Mkdir
  <2>2. CASE CreateToken(c)
    BY <2>2 DEF CreateToken
  <2>3. CASE Readdir(c)
    BY <2>3 DEF Readdir
  <2>4. CASE StatStale(c)
    BY <2>4 DEF StatStale
  <2>5. CASE StatFresh(c)
    BY <2>5 DEF StatFresh
  <2>6. CASE RmdirStale(c)
    BY <2>6 DEF RmdirStale
  <2>7. CASE UnlinkStale(c)
    BY <2>7 DEF UnlinkStale
  <2>8. CASE Sweep(c)
    BY <2>8 DEF Sweep
  <2>9. CASE ReadFence(c)
    BY <2>9 DEF ReadFence
  <2>10. CASE Rotate(c)
    BY <2>10 DEF Rotate
  <2>11. CASE Operate(c)
    BY <2>11 DEF Operate
  <2>12. CASE FinalCheck(c)
    BY <2>12 DEF FinalCheck
  <2>13. CASE UnlinkOwn(c)
    BY <2>13 DEF UnlinkOwn
  <2>14. CASE RmdirOwn(c)
    BY <2>14 DEF RmdirOwn
  <2> QED
    BY <1>2, <2>1, <2>2, <2>3, <2>4, <2>5, <2>6, <2>7, <2>8, <2>9, <2>10, <2>11, <2>12, <2>13, <2>14 DEF Step
<1>3. ASSUME NEW c \in Calls, Timeout(c)  PROVE TokensAreHeld'
  BY <1>3 DEF Timeout
<1>4. ASSUME NEW c \in Calls, Crash(c)  PROVE TokensAreHeld'
  BY <1>4 DEF Crash
<1> QED
  BY <1>1, <1>2, <1>3, <1>4 DEF Next

\* A token that looks stale is a dead call's: the finished have none left.
LEMMA NextVictimIsDead ==
    ASSUME TypeOK, TokensAreHeld, VictimIsDead, Pausable = {}, [Next]_vars
    PROVE  VictimIsDead'
<1> USE DEF TypeOK, VictimIsDead, At, Goto, disk, local
<1>1. CASE UNCHANGED vars
  BY <1>1 DEF vars
<1>2. ASSUME NEW c \in Calls, Step(c)  PROVE VictimIsDead'
  <2>1. CASE Mkdir(c)
    BY <2>1 DEF Mkdir
  <2>2. CASE CreateToken(c)
    BY <2>2 DEF CreateToken
  <2>3. CASE Readdir(c)
    BY <2>3 DEF Readdir
  <2>4. CASE StatStale(c)
    <3>1. \A q \in tokens \cap MayLookStale : q \in crashed
      BY DEF TokensAreHeld, Holding, MayLookStale, Finished
    <3> QED
      BY <2>4, <3>1 DEF StatStale
  <2>5. CASE StatFresh(c)
    BY <2>5 DEF StatFresh
  <2>6. CASE RmdirStale(c)
    BY <2>6 DEF RmdirStale
  <2>7. CASE UnlinkStale(c)
    BY <2>7 DEF UnlinkStale
  <2>8. CASE Sweep(c)
    BY <2>8 DEF Sweep
  <2>9. CASE ReadFence(c)
    BY <2>9 DEF ReadFence
  <2>10. CASE Rotate(c)
    BY <2>10 DEF Rotate
  <2>11. CASE Operate(c)
    BY <2>11 DEF Operate
  <2>12. CASE FinalCheck(c)
    BY <2>12 DEF FinalCheck
  <2>13. CASE UnlinkOwn(c)
    BY <2>13 DEF UnlinkOwn
  <2>14. CASE RmdirOwn(c)
    BY <2>14 DEF RmdirOwn
  <2> QED
    BY <1>2, <2>1, <2>2, <2>3, <2>4, <2>5, <2>6, <2>7, <2>8, <2>9, <2>10, <2>11, <2>12, <2>13, <2>14 DEF Step
<1>3. ASSUME NEW c \in Calls, Timeout(c)  PROVE VictimIsDead'
  BY <1>3 DEF Timeout
<1>4. ASSUME NEW c \in Calls, Crash(c)  PROVE VictimIsDead'
  BY <1>4 DEF Crash
<1> QED
  BY <1>1, <1>2, <1>3, <1>4 DEF Next

-----------------------------------------------------------------------------
(* Exclusion *)

LEMMA NextAlone ==
    ASSUME TypeOK, TokensAreHeld, VictimIsDead, undercut = {} => Alone,
           undercut' = {}, [Next]_vars
    PROVE  Alone'
<1>1. undercut = {} /\ Alone
  BY DEF Next, Step, vars, disk, local, history, Mkdir, CreateToken, Readdir, StatStale,
     StatFresh, RmdirStale, Rmdir, UnlinkStale, Sweep, ReadFence, Rotate, Operate,
     FinalCheck, UnlinkOwn, RmdirOwn, Timeout, Crash, TypeOK
\* An rmdir that undercuts nobody leaves the directory of whoever needs it.
<1>a. ASSUME Rmdir  PROVE \A d \in Calls \ crashed : pc[d] = "token" => dir'
  BY <1>1, <1>a DEF Rmdir, Alone, At, TypeOK
<1> USE <1>1 DEF TypeOK, Alone, Holding, At, Goto, disk, local
<1>2. CASE UNCHANGED vars
  BY <1>2 DEF vars
<1>3. ASSUME NEW c \in Calls, Step(c)  PROVE Alone'
  <2>1. CASE Mkdir(c)
    BY <2>1 DEF Mkdir
  <2>2. CASE CreateToken(c)
    BY <2>2 DEF CreateToken
  <2>3. CASE Readdir(c)
    BY <2>3 DEF Readdir
  <2>4. CASE StatStale(c)
    BY <2>4 DEF StatStale
  <2>5. CASE StatFresh(c)
    BY <2>5 DEF StatFresh
  <2>6. CASE RmdirStale(c)
    BY <2>6, <1>a DEF RmdirStale, Rmdir
  <2>7. CASE UnlinkStale(c)
    BY <2>7 DEF UnlinkStale, VictimIsDead, TokensAreHeld
  <2>8. CASE Sweep(c)
    BY <2>8, <1>a DEF Sweep, Rmdir
  <2>9. CASE ReadFence(c)
    BY <2>9 DEF ReadFence
  <2>10. CASE Rotate(c)
    BY <2>10 DEF Rotate
  <2>11. CASE Operate(c)
    BY <2>11 DEF Operate
  <2>12. CASE FinalCheck(c)
    BY <2>12 DEF FinalCheck
  <2>13. CASE UnlinkOwn(c)
    BY <2>13 DEF UnlinkOwn
  <2>14. CASE RmdirOwn(c)
    BY <2>14, <1>a DEF RmdirOwn, Rmdir
  <2> QED
    BY <1>3, <2>1, <2>2, <2>3, <2>4, <2>5, <2>6, <2>7, <2>8, <2>9, <2>10, <2>11, <2>12, <2>13, <2>14 DEF Step
<1>4. ASSUME NEW c \in Calls, Timeout(c)  PROVE Alone'
  BY <1>4 DEF Timeout
<1>5. ASSUME NEW c \in Calls, Crash(c)  PROVE Alone'
  BY <1>5 DEF Crash
<1> QED
  BY <1>2, <1>3, <1>4, <1>5 DEF Next

\* Live calls run their operations one at a time when nothing is suspended, as
\* long as no rmdir removed another call's fresh directory.
THEOREM Exclusion ==
    ASSUME Pausable = {}
    PROVE  Spec => []SerializedUnlessUndercut
<1>1. Init => LockInv
  BY CallsAssumption DEF Init, LockInv, TypeOK, TokensAreHeld, VictimIsDead, Alone, Holding
<1>2. LockInv /\ [Next]_vars => LockInv'
  BY NextTypeOK, NextTokensAreHeld, NextVictimIsDead, NextAlone DEF LockInv
<1>3. LockInv => SerializedUnlessUndercut
  BY DEF LockInv, TypeOK, Alone, Holding, SerializedUnlessUndercut, Serialized, Operating
<1> QED
  BY <1>1, <1>2, <1>3, PTL DEF Spec

-----------------------------------------------------------------------------
(* The fence, whoever is suspended or dies *)

\* A directory holds one token at most, and a live call that is about to
\* create its token has an empty directory to itself.
OneToken ==
    /\ \A c, d \in tokens : c = d
    /\ \A c \in Calls \ crashed : pc[c] = "token" => dir /\ tokens = {}
    /\ \A c, d \in Calls \ crashed : pc[c] = "token" /\ pc[d] = "token" => c = d

\* A generation in use was published by the call it belongs to, and a call
\* has none before it works under one.
Published(g) == g = NoFence \/ ctx[g] = g
GenerationsArePublished ==
    /\ Published(fence)
    /\ \A c \in Calls : Published(ctx[c])
    /\ \A c \in Calls : pc[c] \notin {"operate", "final", "free", "raise", "clear", "done"}
                          => ctx[c] = NoFence

\* A call inside its operation has its token, or is fenced off, or will be by
\* whoever removed the token.
Covered ==
    \A c \in Operating : c \in tokens \/ RotationOwed \/ fence # ctx[c]

FenceInv ==
    /\ TypeOK
    /\ TokensAreHeld
    /\ GenerationsArePublished
    /\ undercut = {} => OneToken
    /\ undercut = {} /\ strayed = {} => Covered /\ GenerationsDiffer

LEMMA NextGenerationsArePublished ==
    ASSUME TypeOK, GenerationsArePublished, [Next]_vars PROVE GenerationsArePublished'
<1> USE DEF TypeOK, GenerationsArePublished, Published, Generation, At, Goto, disk, local
<1> USE CallsAssumption
<1>1. CASE UNCHANGED vars
  BY <1>1 DEF vars
<1>2. ASSUME NEW c \in Calls, Step(c)  PROVE GenerationsArePublished'
  <2>1. CASE Mkdir(c)
    BY <2>1 DEF Mkdir
  <2>2. CASE CreateToken(c)
    BY <2>2 DEF CreateToken
  <2>3. CASE Readdir(c)
    BY <2>3 DEF Readdir
  <2>4. CASE StatStale(c)
    BY <2>4 DEF StatStale
  <2>5. CASE StatFresh(c)
    BY <2>5 DEF StatFresh
  <2>6. CASE RmdirStale(c)
    BY <2>6 DEF RmdirStale
  <2>7. CASE UnlinkStale(c)
    BY <2>7 DEF UnlinkStale
  <2>8. CASE Sweep(c)
    BY <2>8 DEF Sweep
  <2>9. CASE ReadFence(c)
    BY <2>9 DEF ReadFence
  <2>10. CASE Rotate(c)
    BY <2>10 DEF Rotate
  <2>11. CASE Operate(c)
    BY <2>11 DEF Operate
  <2>12. CASE FinalCheck(c)
    BY <2>12 DEF FinalCheck
  <2>13. CASE UnlinkOwn(c)
    BY <2>13 DEF UnlinkOwn
  <2>14. CASE RmdirOwn(c)
    BY <2>14 DEF RmdirOwn
  <2> QED
    BY <1>2, <2>1, <2>2, <2>3, <2>4, <2>5, <2>6, <2>7,
       <2>8, <2>9, <2>10, <2>11, <2>12, <2>13, <2>14 DEF Step
<1>3. ASSUME NEW c \in Calls, Timeout(c)  PROVE GenerationsArePublished'
  BY <1>3 DEF Timeout
<1>4. ASSUME NEW c \in Calls, Crash(c)  PROVE GenerationsArePublished'
  BY <1>4 DEF Crash
<1> QED
  BY <1>1, <1>2, <1>3, <1>4 DEF Next

LEMMA HistoryGrows == ASSUME TypeOK, [Next]_vars
                      PROVE  undercut \subseteq undercut' /\ strayed \subseteq strayed'
BY DEF Next, Step, vars, disk, local, history, Mkdir, CreateToken, Readdir, StatStale,
   StatFresh, RmdirStale, Rmdir, UnlinkStale, Sweep, ReadFence, Rotate, Operate,
   FinalCheck, UnlinkOwn, RmdirOwn, Timeout, Crash, Stray, TypeOK

\* An rmdir that undercuts nobody leaves the directory of whoever needs it.
LEMMA RmdirKeeps ==
    ASSUME TypeOK, OneToken, Rmdir, undercut' = {}
    PROVE  /\ \A d \in Calls \ crashed : pc[d] = "token" => dir'
BY DEF Rmdir, OneToken, At, TypeOK

LEMMA NextOneToken ==
    ASSUME TypeOK, OneToken, undercut' = {}, [Next]_vars PROVE OneToken'
<1> USE DEF TypeOK, OneToken, At, Goto, disk, local
<1>1. CASE UNCHANGED vars
  BY <1>1 DEF vars
<1>2. ASSUME NEW c \in Calls, Step(c)  PROVE OneToken'
  <2>1. CASE Mkdir(c)
    BY <2>1 DEF Mkdir
  <2>2. CASE CreateToken(c)
    BY <2>2 DEF CreateToken
  <2>3. CASE Readdir(c)
    BY <2>3 DEF Readdir
  <2>4. CASE StatStale(c)
    BY <2>4 DEF StatStale
  <2>5. CASE StatFresh(c)
    BY <2>5 DEF StatFresh
  <2>6. CASE RmdirStale(c)
    BY <2>6, RmdirKeeps DEF RmdirStale
  <2>7. CASE UnlinkStale(c)
    BY <2>7 DEF UnlinkStale
  <2>8. CASE Sweep(c)
    BY <2>8, RmdirKeeps DEF Sweep
  <2>9. CASE ReadFence(c)
    BY <2>9 DEF ReadFence
  <2>10. CASE Rotate(c)
    BY <2>10 DEF Rotate
  <2>11. CASE Operate(c)
    BY <2>11 DEF Operate
  <2>12. CASE FinalCheck(c)
    BY <2>12 DEF FinalCheck
  <2>13. CASE UnlinkOwn(c)
    BY <2>13 DEF UnlinkOwn
  <2>14. CASE RmdirOwn(c)
    BY <2>14, RmdirKeeps DEF RmdirOwn
  <2> QED
    BY <1>2, <2>1, <2>2, <2>3, <2>4, <2>5, <2>6, <2>7,
       <2>8, <2>9, <2>10, <2>11, <2>12, <2>13, <2>14 DEF Step
<1>3. ASSUME NEW c \in Calls, Timeout(c)  PROVE OneToken'
  BY <1>3 DEF Timeout
<1>4. ASSUME NEW c \in Calls, Crash(c)  PROVE OneToken'
  BY <1>4 DEF Crash
<1> QED
  BY <1>1, <1>2, <1>3, <1>4 DEF Next

\* While nobody strays, whoever operates stays covered: a token is removed only
\* by a call that then owes a rotation, and the rotation moves the fence on.
LEMMA NextCovered ==
    ASSUME TypeOK, GenerationsArePublished, Covered, strayed' = {}, [Next]_vars
    PROVE  Covered'
<1> USE DEF TypeOK, Covered, Operating, RotationOwed, Generation, At, Goto, disk, local
<1>1. CASE UNCHANGED vars
  BY <1>1 DEF vars
<1>2. ASSUME NEW c \in Calls, Step(c)  PROVE Covered'
  <2>1. CASE Mkdir(c)
    BY <2>1 DEF Mkdir
  <2>2. CASE CreateToken(c)
    BY <2>2 DEF CreateToken
  <2>3. CASE Readdir(c)
    BY <2>3 DEF Readdir
  <2>4. CASE StatStale(c)
    BY <2>4 DEF StatStale
  <2>5. CASE StatFresh(c)
    BY <2>5 DEF StatFresh
  <2>6. CASE RmdirStale(c)
    BY <2>6 DEF RmdirStale
  <2>7. CASE UnlinkStale(c)
    <3>1. CASE seen[c] \subseteq tokens
      <4>1. pc'[c] = "sweep" /\ ctx'[c] = NoFence
        BY <2>7, <3>1 DEF UnlinkStale, GenerationsArePublished
      <4> QED
        BY <4>1, CallsAssumption
    <3>2. CASE ~(seen[c] \subseteq tokens)
      BY <2>7, <3>2 DEF UnlinkStale
    <3> QED
      BY <3>1, <3>2
  <2>8. CASE Sweep(c)
    BY <2>8 DEF Sweep
  <2>9. CASE ReadFence(c)
    <3>1. CASE c \in reclaimed
      BY <2>9, <3>1 DEF ReadFence
    <3>2. CASE c \notin reclaimed
      <4>1. c \in tokens /\ ~RotationOwed
        BY <2>9, <3>2 DEF ReadFence, Stray
      <4>2. \A d \in Calls \ {c} : d \in Operating' => d \in Operating /\ ctx'[d] = ctx[d]
        BY <2>9, <3>2 DEF ReadFence
      <4> HIDE DEF RotationOwed
      <4> QED
        BY <2>9, <3>2, <4>1, <4>2 DEF ReadFence
    <3> QED
      BY <3>1, <3>2
  <2>10. CASE Rotate(c)
    <3>1. CASE pc'[c] = "operate"
      <4>0. fence' = c /\ ctx' = [ctx EXCEPT ![c] = c]
        BY <2>10, <3>1 DEF Rotate
      <4>1. c \in tokens
        BY <2>10, <3>1, CallsAssumption DEF Rotate, Stray
      <4>2. \A d \in Calls \ {c} : ctx[d] # c
        <5>1. ctx[c] = NoFence /\ c # NoFence
          BY <2>10, CallsAssumption DEF Rotate, GenerationsArePublished
        <5> QED
          BY <5>1 DEF GenerationsArePublished, Published
      <4>3. \A d \in Calls \ {c} : ctx'[d] = ctx[d]
        BY <4>0
      <4>4. tokens' = tokens
        BY <2>10 DEF Rotate
      <4> QED
        BY <4>0, <4>1, <4>2, <4>3, <4>4 DEF Covered, Operating
    <3>2. CASE pc'[c] # "operate"
      BY <2>10, <3>2 DEF Rotate
    <3> QED
      BY <2>10, <3>1, <3>2 DEF Rotate
  <2>11. CASE Operate(c)
    BY <2>11 DEF Operate
  <2>12. CASE FinalCheck(c)
    BY <2>12 DEF FinalCheck
  <2>13. CASE UnlinkOwn(c)
    BY <2>13 DEF UnlinkOwn
  <2>14. CASE RmdirOwn(c)
    BY <2>14 DEF RmdirOwn
  <2> QED
    BY <1>2, <2>1, <2>2, <2>3, <2>4, <2>5, <2>6, <2>7,
       <2>8, <2>9, <2>10, <2>11, <2>12, <2>13, <2>14 DEF Step
<1>3. ASSUME NEW c \in Calls, Timeout(c)  PROVE Covered'
  BY <1>3 DEF Timeout
<1>4. ASSUME NEW c \in Calls, Crash(c)  PROVE Covered'
  BY <1>4 DEF Crash
<1> QED
  BY <1>1, <1>2, <1>3, <1>4 DEF Next

LEMMA NextGenerationsDiffer ==
    ASSUME TypeOK, GenerationsArePublished, OneToken, Covered, GenerationsDiffer,
           strayed' = {}, [Next]_vars
    PROVE  GenerationsDiffer'
<1> USE DEF TypeOK, GenerationsDiffer, Operating, At, Goto, disk, local
<1>1. CASE UNCHANGED vars
  BY <1>1 DEF vars
<1>2. ASSUME NEW c \in Calls, ReadFence(c)  PROVE GenerationsDiffer'
  <2>1. CASE c \in reclaimed
    BY <1>2, <2>1 DEF ReadFence
  <2>2. CASE c \notin reclaimed
    <3>1. c \in tokens /\ ~RotationOwed
      BY <1>2, <2>2 DEF ReadFence, Stray
    <3>2. \A d \in Operating : d # c => ctx[d] # fence
      BY <3>1 DEF Covered, OneToken
    <3>3. \A d \in Operating' : d # c => d \in Operating /\ ctx'[d] = ctx[d]
      BY <1>2, <2>2 DEF ReadFence
    <3>4. ctx'[c] = fence
      BY <1>2, <2>2 DEF ReadFence
    <3> QED
      BY <3>2, <3>3, <3>4
  <2> QED
    BY <2>1, <2>2
<1>3. ASSUME NEW c \in Calls, Rotate(c)  PROVE GenerationsDiffer'
  <2>1. ctx[c] = NoFence /\ c # NoFence
    BY <1>3, CallsAssumption DEF Rotate, GenerationsArePublished
  <2>2. \A d \in Calls \ {c} : ctx[d] # c
    BY <2>1 DEF GenerationsArePublished, Published
  <2>3. \A d \in Operating' : d # c => d \in Operating /\ ctx'[d] = ctx[d]
    BY <1>3 DEF Rotate
  <2>4. c \in Operating' => ctx'[c] = c
    BY <1>3 DEF Rotate, Generation
  <2> QED
    BY <2>2, <2>3, <2>4
<1>4. ASSUME NEW c \in Calls, ~ReadFence(c), ~Rotate(c), Step(c)
      PROVE  Operating' \subseteq Operating /\ ctx' = ctx
  BY <1>4 DEF Step, Mkdir, CreateToken, Readdir, StatStale, StatFresh, RmdirStale,
     UnlinkStale, Sweep, Operate, FinalCheck, UnlinkOwn, RmdirOwn
<1>5. ASSUME NEW c \in Calls, Timeout(c) \/ Crash(c)
      PROVE  Operating' \subseteq Operating /\ ctx' = ctx
  BY <1>5 DEF Timeout, Crash
<1> QED
  BY <1>1, <1>2, <1>3, <1>4, <1>5 DEF Next

LEMMA FenceInvariant == Spec => []FenceInv
<1>1. Init => FenceInv
  BY CallsAssumption DEF Init, FenceInv, TypeOK, TokensAreHeld, GenerationsArePublished,
     Published, OneToken, Covered, GenerationsDiffer, Operating
<1>2. FenceInv /\ [Next]_vars => FenceInv'
  <2> SUFFICES ASSUME FenceInv, [Next]_vars  PROVE FenceInv'
    OBVIOUS
  <2>1. undercut \subseteq undercut' /\ strayed \subseteq strayed'
    BY HistoryGrows DEF FenceInv
  <2>2. TypeOK' /\ TokensAreHeld' /\ GenerationsArePublished'
    BY NextTypeOK, NextTokensAreHeld, NextGenerationsArePublished DEF FenceInv
  <2>3. undercut' = {} => OneToken'
    BY <2>1, NextOneToken DEF FenceInv
  <2>4. undercut' = {} /\ strayed' = {} => Covered' /\ GenerationsDiffer'
    BY <2>1, NextCovered, NextGenerationsDiffer DEF FenceInv
  <2> QED
    BY <2>2, <2>3, <2>4 DEF FenceInv
<1> QED
  BY <1>1, <1>2, PTL DEF Spec

\* Whatever crashes or is suspended, live calls that overlap hold different
\* generations unless one of them strayed.
THEOREM Fencing == Spec => []GenerationsDifferUnlessStrayed
<1>1. FenceInv => GenerationsDifferUnlessStrayed
  BY DEF FenceInv, GenerationsDifferUnlessStrayed
<1> QED
  BY <1>1, FenceInvariant, PTL

\* A run's directory holds two tokens, which nobody would reclaim, only after
\* an rmdir removed another call's fresh directory.
THEOREM OneTokenOnly == Spec => []OneTokenUnlessUndercut
<1>1. FenceInv => OneTokenUnlessUndercut
  <2> SUFFICES ASSUME FenceInv, undercut = {}  PROVE Cardinality(tokens) <= 1
    BY DEF OneTokenUnlessUndercut
  <2>1. CASE tokens = {}
    BY <2>1, FS_EmptySet
  <2>2. CASE tokens # {}
    <3>1. PICK c \in tokens : tokens = {c}
      BY <2>2 DEF FenceInv, OneToken
    <3> QED
      BY <3>1, FS_Singleton
  <2> QED
    BY <2>1, <2>2
<1> QED
  BY <1>1, FenceInvariant, PTL

\* A call that passes its final check leaves every other live operation fenced
\* off.
THEOREM NewestSucceeds == Spec => OnlyNewestSucceeds
<1>1. ASSUME FenceInv, FenceInv', Next,
             NEW c \in Calls, NEW d \in Calls,
             pc[c] = "final", pc'[c] = "free", c # d, d \in Operating,
             undercut = {}, strayed = {}
      PROVE  ctx[d] # fence
  <2>1. c \in Operating /\ fence = ctx[c]
    BY <1>1 DEF FenceInv, TypeOK, Operating, Next, Step, At, Goto, disk, local, history,
       Mkdir, CreateToken, Readdir, StatStale, StatFresh, RmdirStale, UnlinkStale, Sweep,
       ReadFence, Rotate, Operate, FinalCheck, UnlinkOwn, RmdirOwn, Timeout, Crash
  <2> QED
    BY <1>1, <2>1 DEF FenceInv, GenerationsDiffer
<1>2. FenceInv /\ FenceInv' /\ [Next]_vars =>
        [\A c, d \in Calls :
           /\ pc[c] = "final" /\ pc'[c] = "free"
           /\ c # d /\ d \in Operating
           /\ undercut = {} /\ strayed = {}
           => ctx[d] # fence]_vars
  BY <1>1
<1> QED
  BY <1>2, FenceInvariant, PTL DEF Spec, OnlyNewestSucceeds
=============================================================================
