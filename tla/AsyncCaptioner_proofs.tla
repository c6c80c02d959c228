------------------------ MODULE AsyncCaptioner_proofs ------------------------
(***************************************************************************)
(* Proofs about AsyncCaptioner, for every batch of windows, every budget   *)
(* of the semaphore and every number of retries: the type invariant, that  *)
(* the semaphore is not overdrawn and nothing is left behind, that every   *)
(* verdict is accounted for, and that the run implements CaptionBatch.     *)
(***************************************************************************)
EXTENDS AsyncCaptioner, FiniteSetTheorems, TLAPS

-----------------------------------------------------------------------------
(* The inductive invariant: what holds of one window in each phase.        *)

NotYet(w) ==
  phase[w] = "new" =>
    /\ task[w] = "none" /\ run = "dispatch"
    /\ results[w] = <<>> /\ tokens[w] = 0 /\ errors[w] = {}

\* A request on its way is pending for as long as the loop runs.
InStage1(w) ==
  phase[w] = "stage1" =>
    /\ w \notin Missing
    /\ results[w] = <<>> /\ tokens[w] = 0 /\ errors[w] = {}
    /\ run = "dispatch" => task[w] = "waiting"
    /\ run = "loop" => Pending(w)
    /\ run # "returned"

InStage2(w) ==
  phase[w] = "stage2" =>
    /\ w \in TwoStage
    /\ results[w] = <<>> /\ tokens[w] = 1 /\ errors[w] = {}
    /\ run = "loop" => Pending(w)
    /\ run \notin {"dispatch", "returned"}

\* A window that is over has its one verdict, and the verdict its reason.
Over(w) ==
  phase[w] = "over" =>
    /\ task[w] = "none"
    /\ \/ /\ results[w] = <<"caption">> /\ errors[w] = {}
          /\ tokens[w] = IF w \in TwoStage THEN 2 ELSE 1
       \/ /\ results[w] = <<"unknown">>
          /\ \/ w \in Missing /\ errors[w] = {} /\ tokens[w] = 0
             \/ errors[w] = {"stage1"} /\ tokens[w] = 0
             \/ errors[w] \in {{"stage2"}, {"stage2_build"}} /\ tokens[w] = 1

\* Nothing is pending after the end.
Settled(w) ==
  run \in {"returned", "raised"} => ~Pending(w)

WindowOK(w) ==
  NotYet(w) /\ InStage1(w) /\ InStage2(w) /\ Over(w) /\ Settled(w)

WindowInv == \A w \in Windows : WindowOK(w)

Generating == {w \in Windows : task[w] = "generating"}

PermitInv == PermitsHeld <= Permits

\* A request that may still be tried has not used up its retries: without
\* this the type of attempts is not inductive.
AttemptsLeft == \A w \in Windows : task[w] \in Running => attempts[w] < MaxRetries

IInv == TypeOK /\ AttemptsLeft /\ WindowInv /\ PermitInv

-----------------------------------------------------------------------------
(* Every step is one of these.                                             *)

LEMMA Steps ==
  ASSUME Next
  PROVE  \/ EndDispatch \/ Return \/ CancelRun \/ CancelPending \/ Raise
         \/ EngineDies \/ OtherTakes \/ OtherReleases
         \/ \E w \in Windows : DispatchMissing(w)
         \/ \E w \in Windows : Dispatch(w)
         \/ \E w \in Windows : HandleEngineDeath(w)
         \/ \E w \in Windows : HandleFailure(w)
         \/ \E w \in Windows : HandleFinal(w)
         \/ \E w \in Windows : HandleStage1(w)
         \/ \E w \in Windows : HandleBuildFailure(w)
         \/ \E w \in Windows : StartAttempt(w)
         \/ \E w \in Windows : AttemptSucceeds(w)
         \/ \E w \in Windows : AttemptFails(w)
         \/ \E w \in Windows : DecodeFails(w)
         \/ \E w \in Windows : AttemptDies(w)
BY DEF Next, Run, Handle, EngineAnswers

LEMMA AppendOne ==
  ASSUME NEW S, NEW x \in S
  PROVE  Append(<<>>, x) = <<x>> /\ <<x>> \in Seq(S)
OBVIOUS

\* What a first _emit_final or _emit_unknown leaves.
LEMMA EmitFirst ==
  ASSUME TypeOK, NEW w \in Windows, NEW text \in {"caption", "unknown"},
         results[w] = <<>>, Emit(w, text)
  PROVE  /\ results' = [results EXCEPT ![w] = <<text>>]
         /\ results'[w] = <<text>>
         /\ phase'[w] = "over"
         /\ \A v \in Windows \ {w} : results'[v] = results[v] /\ phase'[v] = phase[v]
<1>1. Append(results[w], text) = <<text>>
  BY AppendOne
<1> QED
  BY <1>1 DEF TypeOK, Emit

-----------------------------------------------------------------------------
(* Types.                                                                  *)

LEMMA TypingStep ==
  ASSUME TypeOK, AttemptsLeft, WindowInv, [Next]_vars
  PROVE  TypeOK' /\ AttemptsLeft'
<1> USE CaptionerAssumption DEF CaptionerAssumption
<1>1. CASE EndDispatch
  BY <1>1 DEF TypeOK, AttemptsLeft, EndDispatch, Running, Ended, windowVars
<1>2. CASE Return
  BY <1>2 DEF TypeOK, AttemptsLeft, Return, Running, Ended, windowVars
<1>3. CASE CancelRun
  BY <1>3 DEF TypeOK, AttemptsLeft, CancelRun, Running, Ended, windowVars
<1>4. CASE CancelPending
  BY <1>4 DEF TypeOK, AttemptsLeft, CancelPending, Running, Ended, windowVars
<1>5. CASE Raise
  BY <1>5 DEF TypeOK, AttemptsLeft, Raise, Running, Ended, windowVars
<1>6. CASE EngineDies
  BY <1>6 DEF TypeOK, AttemptsLeft, EngineDies, Running, Ended, windowVars
<1>7. CASE OtherTakes
  BY <1>7 DEF TypeOK, AttemptsLeft, OtherTakes, Running, Ended, windowVars
<1>8. CASE OtherReleases
  BY <1>8 DEF TypeOK, AttemptsLeft, OtherReleases, Running, Ended, windowVars
<1>9. ASSUME NEW w \in Windows, DispatchMissing(w)
      PROVE  TypeOK' /\ AttemptsLeft'
  BY <1>9
  DEF TypeOK, AttemptsLeft, DispatchMissing, Emit, Running, Ended, windowVars
<1>10. ASSUME NEW w \in Windows, Dispatch(w)
       PROVE  TypeOK' /\ AttemptsLeft'
  BY <1>10 DEF TypeOK, AttemptsLeft, Dispatch, Spawn, Running, Ended, windowVars
<1>11. ASSUME NEW w \in Windows, HandleEngineDeath(w)
       PROVE  TypeOK' /\ AttemptsLeft'
  BY <1>11
  DEF TypeOK, AttemptsLeft, HandleEngineDeath, Running, Ended, windowVars
<1>12. ASSUME NEW w \in Windows, HandleFailure(w)
       PROVE  TypeOK' /\ AttemptsLeft'
  BY <1>12
  DEF TypeOK, AttemptsLeft, WindowInv, WindowOK, NotYet, Over, HandleFailure,
      Emit, Running, Ended, windowVars
<1>13. ASSUME NEW w \in Windows, HandleFinal(w)
       PROVE  TypeOK' /\ AttemptsLeft'
  BY <1>13
  DEF TypeOK, AttemptsLeft, HandleFinal, Emit, Running, Ended, windowVars
<1>14. ASSUME NEW w \in Windows, HandleStage1(w)
       PROVE  TypeOK' /\ AttemptsLeft'
  BY <1>14
  DEF TypeOK, AttemptsLeft, HandleStage1, Spawn, Running, Ended, windowVars
<1>15. ASSUME NEW w \in Windows, HandleBuildFailure(w)
       PROVE  TypeOK' /\ AttemptsLeft'
  BY <1>15
  DEF TypeOK, AttemptsLeft, HandleBuildFailure, Emit, Running, Ended, windowVars
<1>16. ASSUME NEW w \in Windows, StartAttempt(w)
       PROVE  TypeOK' /\ AttemptsLeft'
  BY <1>16
  DEF TypeOK, AttemptsLeft, StartAttempt, Awaiting, Running, Ended, windowVars
<1>17. ASSUME NEW w \in Windows, AttemptSucceeds(w)
       PROVE  TypeOK' /\ AttemptsLeft'
  BY <1>17
  DEF TypeOK, AttemptsLeft, AttemptSucceeds, Awaiting, Running, Ended,
      windowVars
<1>18. ASSUME NEW w \in Windows, AttemptFails(w)
       PROVE  TypeOK' /\ AttemptsLeft'
  BY <1>18
  DEF TypeOK, AttemptsLeft, AttemptFails, Awaiting, Running, Ended, windowVars
<1>19. ASSUME NEW w \in Windows, DecodeFails(w)
       PROVE  TypeOK' /\ AttemptsLeft'
  BY <1>19
  DEF TypeOK, AttemptsLeft, DecodeFails, Awaiting, Running, Ended, windowVars
<1>20. ASSUME NEW w \in Windows, AttemptDies(w)
       PROVE  TypeOK' /\ AttemptsLeft'
  BY <1>20
  DEF TypeOK, AttemptsLeft, AttemptDies, Awaiting, Running, Ended, windowVars
<1>21. CASE UNCHANGED vars
  BY <1>21 DEF TypeOK, AttemptsLeft, vars, Running, Ended, windowVars
<1> QED
  BY <1>1, <1>2, <1>3, <1>4, <1>5, <1>6, <1>7, <1>8, <1>9, <1>10, <1>11, <1>12,
     <1>13, <1>14, <1>15, <1>16, <1>17, <1>18, <1>19, <1>20, <1>21, Steps

-----------------------------------------------------------------------------
(* The windows.                                                            *)

LEMMA WindowStep ==
  ASSUME TypeOK, WindowInv, [Next]_vars
  PROVE  WindowInv'
<1> USE DEF Running, Ended, TypeOK, WindowInv, WindowOK
<1> USE DEF NotYet, InStage1, InStage2, Over, Settled, Pending
<1>1. CASE EndDispatch
  <2> SUFFICES ASSUME NEW v \in Windows PROVE WindowOK(v)'
    OBVIOUS
  <2> QED
    BY <1>1 DEF EndDispatch, windowVars
<1>2. CASE Return
  <2> SUFFICES ASSUME NEW v \in Windows PROVE WindowOK(v)'
    OBVIOUS
  <2> QED
    BY <1>2 DEF Return, windowVars
<1>3. CASE CancelRun
  <2> SUFFICES ASSUME NEW v \in Windows PROVE WindowOK(v)'
    OBVIOUS
  <2> QED
    BY <1>3 DEF CancelRun, windowVars
<1>4. CASE CancelPending
  <2>1. \A v \in Windows :
          \/ task'[v] = task[v]
          \/ task[v] \in Running /\ task'[v] \in {"waiting", "cancelled"}
    BY <1>4 DEF CancelPending, TypeOK
  <2>2. run = "cancel" /\ run' = "drain" /\ UNCHANGED <<phase, results, tokens, errors>>
    BY <1>4 DEF CancelPending
  <2>3. ASSUME NEW v \in Windows
        PROVE  WindowOK(v)'
    BY <2>1, <2>2
  <2> HIDE DEF WindowOK
  <2> QED
    BY <2>3
<1>5. CASE Raise
  <2> SUFFICES ASSUME NEW v \in Windows PROVE WindowOK(v)'
    OBVIOUS
  <2> QED
    BY <1>5 DEF Raise, windowVars
<1>6. CASE EngineDies
  <2> SUFFICES ASSUME NEW v \in Windows PROVE WindowOK(v)'
    OBVIOUS
  <2> QED
    BY <1>6 DEF EngineDies, windowVars
<1>7. CASE OtherTakes
  <2> SUFFICES ASSUME NEW v \in Windows PROVE WindowOK(v)'
    OBVIOUS
  <2> QED
    BY <1>7 DEF OtherTakes, windowVars
<1>8. CASE OtherReleases
  <2> SUFFICES ASSUME NEW v \in Windows PROVE WindowOK(v)'
    OBVIOUS
  <2> QED
    BY <1>8 DEF OtherReleases, windowVars
<1>9. ASSUME NEW w \in Windows, DispatchMissing(w)
      PROVE  WindowInv'
  <2>1. results[w] = <<>> /\ Emit(w, "unknown")
    BY <1>9
    DEF WindowInv, WindowOK, NotYet, InStage1, InStage2, Over, TypeOK,
        DispatchMissing
  <2>2. /\ results'[w] = <<"unknown">>
        /\ phase'[w] = "over"
        /\ \A v \in Windows \ {w} : results'[v] = results[v] /\ phase'[v] = phase[v]
    BY <2>1, EmitFirst
  <2>3. ASSUME NEW v \in Windows \ {w}
        PROVE  WindowOK(v)'
    BY <1>9, <2>2 DEF DispatchMissing
  <2>4. WindowOK(w)'
    BY <1>9, <2>2 DEF DispatchMissing
  <2> HIDE DEF WindowOK
  <2> QED
    BY <2>3, <2>4
<1>10. ASSUME NEW w \in Windows, Dispatch(w)
       PROVE  WindowInv'
  <2> SUFFICES ASSUME NEW v \in Windows PROVE WindowOK(v)'
    OBVIOUS
  <2> QED
    BY <1>10 DEF Dispatch, Spawn, windowVars
<1>11. ASSUME NEW w \in Windows, HandleEngineDeath(w)
       PROVE  WindowInv'
  <2> SUFFICES ASSUME NEW v \in Windows PROVE WindowOK(v)'
    OBVIOUS
  <2> QED
    BY <1>11 DEF HandleEngineDeath, windowVars
<1>12. ASSUME NEW w \in Windows, HandleFailure(w)
       PROVE  WindowInv'
  <2>1. results[w] = <<>> /\ Emit(w, "unknown")
    BY <1>12
    DEF WindowInv, WindowOK, NotYet, InStage1, InStage2, Over, TypeOK,
        HandleFailure
  <2>2. /\ results'[w] = <<"unknown">>
        /\ phase'[w] = "over"
        /\ \A v \in Windows \ {w} : results'[v] = results[v] /\ phase'[v] = phase[v]
    BY <2>1, EmitFirst
  <2>3. ASSUME NEW v \in Windows \ {w}
        PROVE  WindowOK(v)'
    BY <1>12, <2>2 DEF HandleFailure
  <2>4. WindowOK(w)'
    BY <1>12, <2>2 DEF HandleFailure
  <2> HIDE DEF WindowOK
  <2> QED
    BY <2>3, <2>4
<1>13. ASSUME NEW w \in Windows, HandleFinal(w)
       PROVE  WindowInv'
  <2>1. results[w] = <<>> /\ Emit(w, "caption")
    BY <1>13
    DEF WindowInv, WindowOK, NotYet, InStage1, InStage2, Over, TypeOK,
        HandleFinal
  <2>2. /\ results'[w] = <<"caption">>
        /\ phase'[w] = "over"
        /\ \A v \in Windows \ {w} : results'[v] = results[v] /\ phase'[v] = phase[v]
    BY <2>1, EmitFirst
  <2>3. ASSUME NEW v \in Windows \ {w}
        PROVE  WindowOK(v)'
    BY <1>13, <2>2 DEF HandleFinal
  <2>4. /\ tokens'[w] = tokens[w] + 1 /\ errors'[w] = errors[w]
        /\ task'[w] = "none" /\ run' = "loop"
    BY <1>13 DEF HandleFinal
  <2>5. errors[w] = {} /\ tokens[w] + 1 = IF w \in TwoStage THEN 2 ELSE 1
    BY <1>13 DEF HandleFinal
  <2>6. WindowOK(w)'
    BY ONLY <2>2, <2>4, <2>5 DEF WindowOK, NotYet, InStage1, InStage2, Over, Settled, Pending, Running, Ended
  <2> HIDE DEF WindowOK
  <2> QED
    BY <2>3, <2>6
<1>14. ASSUME NEW w \in Windows, HandleStage1(w)
       PROVE  WindowInv'
  <2>1. ASSUME NEW v \in Windows \ {w}
        PROVE  WindowOK(v)'
    BY <1>14 DEF HandleStage1, Spawn
  <2>2. WindowOK(w)'
    BY <1>14 DEF HandleStage1, Spawn
  <2> HIDE DEF WindowOK
  <2> QED
    BY <2>1, <2>2
<1>15. ASSUME NEW w \in Windows, HandleBuildFailure(w)
       PROVE  WindowInv'
  <2>1. results[w] = <<>> /\ Emit(w, "unknown")
    BY <1>15
    DEF WindowInv, WindowOK, NotYet, InStage1, InStage2, Over, TypeOK,
        HandleBuildFailure
  <2>2. /\ results'[w] = <<"unknown">>
        /\ phase'[w] = "over"
        /\ \A v \in Windows \ {w} : results'[v] = results[v] /\ phase'[v] = phase[v]
    BY <2>1, EmitFirst
  <2>3. ASSUME NEW v \in Windows \ {w}
        PROVE  WindowOK(v)'
    BY <1>15, <2>2 DEF HandleBuildFailure
  <2>4. WindowOK(w)'
    BY <1>15, <2>2 DEF HandleBuildFailure
  <2> HIDE DEF WindowOK
  <2> QED
    BY <2>3, <2>4
<1>16. ASSUME NEW w \in Windows, StartAttempt(w)
       PROVE  WindowInv'
  <2> SUFFICES ASSUME NEW v \in Windows PROVE WindowOK(v)'
    OBVIOUS
  <2> QED
    BY <1>16 DEF StartAttempt, Awaiting, windowVars
<1>17. ASSUME NEW w \in Windows, AttemptSucceeds(w)
       PROVE  WindowInv'
  <2> SUFFICES ASSUME NEW v \in Windows PROVE WindowOK(v)'
    OBVIOUS
  <2> QED
    BY <1>17 DEF AttemptSucceeds, Awaiting, windowVars
<1>18. ASSUME NEW w \in Windows, AttemptFails(w)
       PROVE  WindowInv'
  <2> SUFFICES ASSUME NEW v \in Windows PROVE WindowOK(v)'
    OBVIOUS
  <2> QED
    BY <1>18 DEF AttemptFails, Awaiting, windowVars
<1>19. ASSUME NEW w \in Windows, DecodeFails(w)
       PROVE  WindowInv'
  <2> SUFFICES ASSUME NEW v \in Windows PROVE WindowOK(v)'
    OBVIOUS
  <2> QED
    BY <1>19 DEF DecodeFails, Awaiting, windowVars
<1>20. ASSUME NEW w \in Windows, AttemptDies(w)
       PROVE  WindowInv'
  <2> SUFFICES ASSUME NEW v \in Windows PROVE WindowOK(v)'
    OBVIOUS
  <2> QED
    BY <1>20 DEF AttemptDies, Awaiting, windowVars
<1>21. CASE UNCHANGED vars
  <2> SUFFICES ASSUME NEW v \in Windows PROVE WindowOK(v)'
    OBVIOUS
  <2> QED
    BY <1>21 DEF vars, windowVars, vars
<1> QED
  BY <1>1, <1>2, <1>3, <1>4, <1>5, <1>6, <1>7, <1>8, <1>9, <1>10, <1>11, <1>12,
     <1>13, <1>14, <1>15, <1>16, <1>17, <1>18, <1>19, <1>20, <1>21, Steps

-----------------------------------------------------------------------------
(* The semaphore.                                                          *)

LEMMA GeneratingFinite ==
  ASSUME TypeOK
  PROVE  /\ IsFiniteSet(Generating) /\ Cardinality(Generating) \in Nat
         /\ PermitsHeld = Cardinality(Generating) + others
<1>1. Generating \in SUBSET Windows
  BY DEF Generating
<1>2. IsFiniteSet(Generating)
  BY <1>1, FS_Subset, CaptionerAssumption DEF CaptionerAssumption
<1> QED
  BY <1>2, FS_CardinalityType DEF PermitsHeld, Generating

\* A step that starts no attempt and takes no permit elsewhere.
LEMMA NoNewPermit ==
  ASSUME TypeOK, TypeOK', PermitInv,
         \A w \in Windows : task'[w] = "generating" => task[w] = "generating",
         others' <= others
  PROVE  PermitInv'
<1>1. Generating' \in SUBSET Generating
  BY DEF Generating
<1>2. /\ IsFiniteSet(Generating) /\ Cardinality(Generating) \in Nat
      /\ PermitsHeld = Cardinality(Generating) + others
  BY GeneratingFinite
<1>3. Cardinality(Generating') <= Cardinality(Generating) /\ IsFiniteSet(Generating')
  BY <1>1, <1>2, FS_Subset
<1>4. PermitsHeld' = Cardinality(Generating') + others'
  BY DEF PermitsHeld, Generating
<1>5. Cardinality(Generating') \in Nat
  BY <1>3, FS_CardinalityType
<1> QED
  BY <1>2, <1>3, <1>4, <1>5, CaptionerAssumption
  DEF TypeOK, PermitInv, CaptionerAssumption

LEMMA PermitStep ==
  ASSUME TypeOK, TypeOK', PermitInv, [Next]_vars
  PROVE  PermitInv'
<1> USE CaptionerAssumption DEF CaptionerAssumption
<1>1. CASE EndDispatch
  BY <1>1, NoNewPermit DEF TypeOK, EndDispatch, Running, Ended, windowVars
<1>2. CASE Return
  BY <1>2, NoNewPermit DEF TypeOK, Return, Running, Ended, windowVars
<1>3. CASE CancelRun
  BY <1>3, NoNewPermit DEF TypeOK, CancelRun, Running, Ended, windowVars
<1>4. CASE CancelPending
  BY <1>4, NoNewPermit DEF TypeOK, CancelPending, Running, Ended, windowVars
<1>5. CASE Raise
  BY <1>5, NoNewPermit DEF TypeOK, Raise, Running, Ended, windowVars
<1>6. CASE EngineDies
  BY <1>6, NoNewPermit DEF TypeOK, EngineDies, Running, Ended, windowVars
<1>7. CASE OtherTakes
  <2>1. PermitsHeld < Permits /\ others' = others + 1 /\ Generating' = Generating
    BY <1>7 DEF OtherTakes, Generating, windowVars
  <2>2. Cardinality(Generating) \in Nat /\ PermitsHeld = Cardinality(Generating) + others
    BY GeneratingFinite
  <2>3. PermitsHeld' = Cardinality(Generating') + others'
    BY DEF PermitsHeld, Generating
  <2> QED
    BY <2>1, <2>2, <2>3 DEF PermitInv, TypeOK
<1>8. CASE OtherReleases
  BY <1>8, NoNewPermit DEF TypeOK, OtherReleases, Running, Ended, windowVars
<1>9. ASSUME NEW w \in Windows, DispatchMissing(w)
      PROVE  PermitInv'
  BY <1>9, NoNewPermit
  DEF TypeOK, DispatchMissing, Emit, Running, Ended, windowVars
<1>10. ASSUME NEW w \in Windows, Dispatch(w)
       PROVE  PermitInv'
  BY <1>10, NoNewPermit DEF TypeOK, Dispatch, Spawn, Running, Ended, windowVars
<1>11. ASSUME NEW w \in Windows, HandleEngineDeath(w)
       PROVE  PermitInv'
  BY <1>11, NoNewPermit
  DEF TypeOK, HandleEngineDeath, Running, Ended, windowVars
<1>12. ASSUME NEW w \in Windows, HandleFailure(w)
       PROVE  PermitInv'
  BY <1>12, NoNewPermit
  DEF TypeOK, HandleFailure, Emit, Running, Ended, windowVars
<1>13. ASSUME NEW w \in Windows, HandleFinal(w)
       PROVE  PermitInv'
  BY <1>13, NoNewPermit
  DEF TypeOK, HandleFinal, Emit, Running, Ended, windowVars
<1>14. ASSUME NEW w \in Windows, HandleStage1(w)
       PROVE  PermitInv'
  BY <1>14, NoNewPermit
  DEF TypeOK, HandleStage1, Spawn, Running, Ended, windowVars
<1>15. ASSUME NEW w \in Windows, HandleBuildFailure(w)
       PROVE  PermitInv'
  BY <1>15, NoNewPermit
  DEF TypeOK, HandleBuildFailure, Emit, Running, Ended, windowVars
<1>16. ASSUME NEW w \in Windows, StartAttempt(w)
       PROVE  PermitInv'
  <2>1. PermitsHeld < Permits /\ others' = others
    BY <1>16 DEF StartAttempt
  <2>2. /\ IsFiniteSet(Generating) /\ Cardinality(Generating) \in Nat
        /\ PermitsHeld = Cardinality(Generating) + others
    BY GeneratingFinite
  <2>3. Generating' = Generating \cup {w}
    <3>1. task' = [task EXCEPT ![w] = "generating"]
      BY <1>16 DEF StartAttempt
    <3>2. \A v \in Windows : task'[v] = IF v = w THEN "generating" ELSE task[v]
      BY <3>1 DEF TypeOK
    <3> QED
      BY <3>2 DEF Generating
  <2>4. Cardinality(Generating') <= Cardinality(Generating) + 1 /\ IsFiniteSet(Generating')
    BY <2>2, <2>3, FS_AddElement
  <2>5. PermitsHeld' = Cardinality(Generating') + others' /\ Cardinality(Generating') \in Nat
    BY <2>4, FS_CardinalityType DEF PermitsHeld, Generating
  <2>6. others \in Nat /\ Permits \in Nat
    BY CaptionerAssumption DEF TypeOK
  <2> HIDE DEF PermitsHeld
  <2>7. PermitsHeld' <= Permits
    BY ONLY <2>1, <2>2, <2>4, <2>5, <2>6
  <2> QED
    BY ONLY <2>7 DEF PermitInv
<1>17. ASSUME NEW w \in Windows, AttemptSucceeds(w)
       PROVE  PermitInv'
  BY <1>17, NoNewPermit
  DEF TypeOK, AttemptSucceeds, Awaiting, Running, Ended, windowVars
<1>18. ASSUME NEW w \in Windows, AttemptFails(w)
       PROVE  PermitInv'
  BY <1>18, NoNewPermit
  DEF TypeOK, AttemptFails, Awaiting, Running, Ended, windowVars
<1>19. ASSUME NEW w \in Windows, DecodeFails(w)
       PROVE  PermitInv'
  BY <1>19, NoNewPermit
  DEF TypeOK, DecodeFails, Awaiting, Running, Ended, windowVars
<1>20. ASSUME NEW w \in Windows, AttemptDies(w)
       PROVE  PermitInv'
  BY <1>20, NoNewPermit
  DEF TypeOK, AttemptDies, Awaiting, Running, Ended, windowVars
<1>21. CASE UNCHANGED vars
  BY <1>21, NoNewPermit DEF TypeOK, vars, Running, Ended, windowVars
<1> QED
  BY <1>1, <1>2, <1>3, <1>4, <1>5, <1>6, <1>7, <1>8, <1>9, <1>10, <1>11, <1>12,
     <1>13, <1>14, <1>15, <1>16, <1>17, <1>18, <1>19, <1>20, <1>21, Steps

-----------------------------------------------------------------------------
(* The theorems about invariants.                                          *)

LEMMA IInvInit == Init => IInv
<1> SUFFICES ASSUME Init PROVE IInv
  OBVIOUS
<1> USE CaptionerAssumption DEF CaptionerAssumption
<1>1. TypeOK /\ AttemptsLeft
  BY DEF Init, TypeOK, AttemptsLeft, Running, Ended
<1>2. WindowInv
  BY DEF Init, WindowInv, WindowOK, NotYet, InStage1, InStage2, Over, Settled
<1>3. Generating = {}
  BY DEF Init, Generating
<1>4. Cardinality(Generating) = 0
  BY <1>3, FS_EmptySet
<1>5. PermitInv
  BY <1>4 DEF Init, PermitInv, PermitsHeld, Generating
<1> QED
  BY <1>1, <1>2, <1>5 DEF IInv

LEMMA IInvStep == IInv /\ [Next]_vars => IInv'
BY TypingStep, WindowStep, PermitStep DEF IInv

LEMMA IInvAlways == Spec => []IInv
BY IInvInit, IInvStep, PTL DEF Spec

\* Every field keeps its type; a request never uses more than MaxRetries
\* attempts, also when a cancellation is taken for a failed one.
THEOREM Typing == Spec => []TypeOK
<1>1. IInv => TypeOK
  BY DEF IInv
<1> QED
  BY <1>1, IInvAlways, PTL

\* The semaphore is never overdrawn, and a run that ended, by returning or
\* by raising, has no task left: the other batches get the whole budget.
THEOREM NothingLeaks == Spec => []NoLeak
<1>1. IInv => NoLeak
  BY DEF IInv, PermitInv, WindowInv, WindowOK, Settled, NoLeak
<1> QED
  BY <1>1, IInvAlways, PTL

\* Every verdict has its reason and its tokens, whatever failed on the way.
THEOREM VerdictsAccounted == Spec => []Accounted
<1>1. IInv => Accounted
  <2> SUFFICES ASSUME IInv, NEW w \in Windows
               PROVE  /\ results[w] = <<"caption">> =>
                           errors[w] = {} /\ tokens[w] = IF w \in TwoStage THEN 2 ELSE 1
                      /\ results[w] = <<"unknown">> =>
                           \/ w \in Missing /\ errors[w] = {} /\ tokens[w] = 0
                           \/ errors[w] = {"stage1"} /\ tokens[w] = 0
                           \/ errors[w] \in {{"stage2"}, {"stage2_build"}} /\ tokens[w] = 1
                      /\ results[w] = <<>> => errors[w] = {}
    BY DEF Accounted
  <2>1. <<"caption">> # <<>> /\ <<"unknown">> # <<>> /\ <<"caption">> # <<"unknown">>
    OBVIOUS
  <2>2. phase[w] \in {"new", "stage1", "stage2", "over"}
    BY DEF IInv, TypeOK
  <2> QED
    BY <2>1, <2>2
    DEF IInv, WindowInv, WindowOK, NotYet, InStage1, InStage2, Over
<1> QED
  BY <1>1, IInvAlways, PTL

\* on_window_done is called at most once per window.
THEOREM VerdictsOnce == Spec => []DoneOnce
<1>1. IInv => DoneOnce
  <2>1. Len(<<>>) = 0 /\ Len(<<"caption">>) = 1 /\ Len(<<"unknown">>) = 1
    OBVIOUS
  <2>2. ASSUME IInv, NEW w \in Windows
        PROVE  results[w] \in {<<>>, <<"caption">>, <<"unknown">>}
    <3>1. phase[w] \in {"new", "stage1", "stage2", "over"}
      BY <2>2 DEF IInv, TypeOK
    <3> QED
      BY <2>2, <3>1
      DEF IInv, WindowInv, WindowOK, NotYet, InStage1, InStage2, Over
  <2>3. ASSUME IInv, NEW w \in Windows
        PROVE  Len(results[w]) <= 1
    <3>1. Len(results[w]) = 0 \/ Len(results[w]) = 1
      BY <2>1, <2>2, <2>3
    <3>2. 0 <= 1 /\ 1 <= 1
      OBVIOUS
    <3> QED
      BY <3>1, <3>2
  <2> QED
    BY <2>3 DEF DoneOnce
<1> QED
  BY <1>1, IInvAlways, PTL

-----------------------------------------------------------------------------
(* The refinement.                                                         *)

\* A reported result is one verdict of the abstract batch.
LEMMA EmitDecides ==
  ASSUME TypeOK, NEW w \in Windows, NEW text \in {"caption", "unknown"},
         results[w] = <<>>, Emit(w, text), run \in {"dispatch", "loop"}, run' = run
  PROVE  Batch!Decide(w)
<1>1. results' = [results EXCEPT ![w] = <<text>>]
  BY EmitFirst
<1>2. <<text>> # <<>> /\ <<text>>[1] = text
  OBVIOUS
<1>3. Verdict' = [Verdict EXCEPT ![w] = text]
  BY <1>1, <1>2 DEF Verdict, TypeOK
<1>4. Verdict[w] = "none" /\ RunState = "running" /\ RunState' = RunState
  BY DEF Verdict, RunState
<1> QED
  BY <1>3, <1>4 DEF Batch!Decide

LEMMA BatchStep ==
  ASSUME IInv, [Next]_vars
  PROVE  [Batch!Next]_(Batch!vars)
<1> USE DEF IInv
<1>1. CASE EndDispatch
  <2>1. RunState' = RunState /\ Verdict' = Verdict
    BY <1>1 DEF EndDispatch, RunState, Verdict, windowVars
  <2> QED
    BY <2>1 DEF Batch!vars
<1>2. CASE Return
  <2>1. \A w \in Windows : Verdict[w] # "none"
    <3> SUFFICES ASSUME NEW w \in Windows PROVE results[w] # <<>> /\ results[w][1] # "none"
      BY DEF Verdict
    <3>1. phase[w] = "over"
      BY <1>2
      DEF Return, WindowInv, WindowOK, NotYet, InStage1, InStage2, TypeOK
    <3>2. results[w] \in {<<"caption">>, <<"unknown">>}
      BY <3>1 DEF WindowInv, WindowOK, Over
    <3> QED
      BY <3>2
  <2>2. RunState = "running" /\ RunState' = "returned" /\ Verdict' = Verdict
    BY <1>2 DEF Return, RunState, Verdict, windowVars
  <2> QED
    BY <2>1, <2>2 DEF Batch!Next, Batch!Return
<1>3. CASE CancelRun
  <2>1. RunState = "running" /\ RunState' = "abandoned" /\ Verdict' = Verdict
    BY <1>3 DEF CancelRun, RunState, Verdict, windowVars
  <2> QED
    BY <2>1 DEF Batch!Next, Batch!Abandon
<1>4. CASE CancelPending
  <2>1. RunState' = RunState /\ Verdict' = Verdict
    BY <1>4 DEF CancelPending, RunState, Verdict, windowVars
  <2> QED
    BY <2>1 DEF Batch!vars
<1>5. CASE Raise
  <2>1. RunState' = RunState /\ Verdict' = Verdict
    BY <1>5 DEF Raise, RunState, Verdict, windowVars
  <2> QED
    BY <2>1 DEF Batch!vars
<1>6. CASE EngineDies
  <2>1. RunState' = RunState /\ Verdict' = Verdict
    BY <1>6 DEF EngineDies, RunState, Verdict, windowVars
  <2> QED
    BY <2>1 DEF Batch!vars
<1>7. CASE OtherTakes
  <2>1. RunState' = RunState /\ Verdict' = Verdict
    BY <1>7 DEF OtherTakes, RunState, Verdict, windowVars
  <2> QED
    BY <2>1 DEF Batch!vars
<1>8. CASE OtherReleases
  <2>1. RunState' = RunState /\ Verdict' = Verdict
    BY <1>8 DEF OtherReleases, RunState, Verdict, windowVars
  <2> QED
    BY <2>1 DEF Batch!vars
<1>9. ASSUME NEW w \in Windows, DispatchMissing(w)
      PROVE  [Batch!Next]_(Batch!vars)
  <2>1. /\ results[w] = <<>> /\ Emit(w, "unknown")
        /\ run \in {"dispatch", "loop"} /\ run' = run
    BY <1>9
    DEF WindowInv, WindowOK, NotYet, InStage1, InStage2, Over, TypeOK,
        DispatchMissing
  <2> QED
    BY <2>1, EmitDecides DEF Batch!Next
<1>10. ASSUME NEW w \in Windows, Dispatch(w)
       PROVE  [Batch!Next]_(Batch!vars)
  <2>1. RunState' = RunState /\ Verdict' = Verdict
    BY <1>10 DEF Dispatch, Spawn, RunState, Verdict, windowVars
  <2> QED
    BY <2>1 DEF Batch!vars
<1>11. ASSUME NEW w \in Windows, HandleEngineDeath(w)
       PROVE  [Batch!Next]_(Batch!vars)
  <2>1. RunState = "running" /\ RunState' = "abandoned" /\ Verdict' = Verdict
    BY <1>11 DEF HandleEngineDeath, RunState, Verdict, windowVars
  <2> QED
    BY <2>1 DEF Batch!Next, Batch!Abandon
<1>12. ASSUME NEW w \in Windows, HandleFailure(w)
       PROVE  [Batch!Next]_(Batch!vars)
  <2>1. /\ results[w] = <<>> /\ Emit(w, "unknown")
        /\ run \in {"dispatch", "loop"} /\ run' = run
    BY <1>12
    DEF WindowInv, WindowOK, NotYet, InStage1, InStage2, Over, TypeOK,
        HandleFailure
  <2> QED
    BY <2>1, EmitDecides DEF Batch!Next
<1>13. ASSUME NEW w \in Windows, HandleFinal(w)
       PROVE  [Batch!Next]_(Batch!vars)
  <2>1. /\ results[w] = <<>> /\ Emit(w, "caption")
        /\ run \in {"dispatch", "loop"} /\ run' = run
    BY <1>13
    DEF WindowInv, WindowOK, NotYet, InStage1, InStage2, Over, TypeOK,
        HandleFinal
  <2> QED
    BY <2>1, EmitDecides DEF Batch!Next
<1>14. ASSUME NEW w \in Windows, HandleStage1(w)
       PROVE  [Batch!Next]_(Batch!vars)
  <2>1. RunState' = RunState /\ Verdict' = Verdict
    BY <1>14 DEF HandleStage1, Spawn, RunState, Verdict, windowVars
  <2> QED
    BY <2>1 DEF Batch!vars
<1>15. ASSUME NEW w \in Windows, HandleBuildFailure(w)
       PROVE  [Batch!Next]_(Batch!vars)
  <2>1. /\ results[w] = <<>> /\ Emit(w, "unknown")
        /\ run \in {"dispatch", "loop"} /\ run' = run
    BY <1>15
    DEF WindowInv, WindowOK, NotYet, InStage1, InStage2, Over, TypeOK,
        HandleBuildFailure
  <2> QED
    BY <2>1, EmitDecides DEF Batch!Next
<1>16. ASSUME NEW w \in Windows, StartAttempt(w)
       PROVE  [Batch!Next]_(Batch!vars)
  <2>1. RunState' = RunState /\ Verdict' = Verdict
    BY <1>16 DEF StartAttempt, Awaiting, RunState, Verdict, windowVars
  <2> QED
    BY <2>1 DEF Batch!vars
<1>17. ASSUME NEW w \in Windows, AttemptSucceeds(w)
       PROVE  [Batch!Next]_(Batch!vars)
  <2>1. RunState' = RunState /\ Verdict' = Verdict
    BY <1>17 DEF AttemptSucceeds, Awaiting, RunState, Verdict, windowVars
  <2> QED
    BY <2>1 DEF Batch!vars
<1>18. ASSUME NEW w \in Windows, AttemptFails(w)
       PROVE  [Batch!Next]_(Batch!vars)
  <2>1. RunState' = RunState /\ Verdict' = Verdict
    BY <1>18 DEF AttemptFails, Awaiting, RunState, Verdict, windowVars
  <2> QED
    BY <2>1 DEF Batch!vars
<1>19. ASSUME NEW w \in Windows, DecodeFails(w)
       PROVE  [Batch!Next]_(Batch!vars)
  <2>1. RunState' = RunState /\ Verdict' = Verdict
    BY <1>19 DEF DecodeFails, Awaiting, RunState, Verdict, windowVars
  <2> QED
    BY <2>1 DEF Batch!vars
<1>20. ASSUME NEW w \in Windows, AttemptDies(w)
       PROVE  [Batch!Next]_(Batch!vars)
  <2>1. RunState' = RunState /\ Verdict' = Verdict
    BY <1>20 DEF AttemptDies, Awaiting, RunState, Verdict, windowVars
  <2> QED
    BY <2>1 DEF Batch!vars
<1>21. CASE UNCHANGED vars
  <2>1. RunState' = RunState /\ Verdict' = Verdict
    BY <1>21 DEF vars, RunState, Verdict, windowVars
  <2> QED
    BY <2>1 DEF Batch!vars
<1> QED
  BY <1>1, <1>2, <1>3, <1>4, <1>5, <1>6, <1>7, <1>8, <1>9, <1>10, <1>11, <1>12,
     <1>13, <1>14, <1>15, <1>16, <1>17, <1>18, <1>19, <1>20, <1>21, Steps

\* The run implements CaptionBatch: one verdict per window, all of them
\* before it returns, none after it was abandoned.
THEOREM RunImplementsBatch == Spec => ImplementsBatch
<1>1. Init => Batch!Init
  BY DEF Init, Batch!Init, Verdict, RunState
<1>2. IInv /\ [Next]_vars => [Batch!Next]_(Batch!vars)
  BY BatchStep
<1> QED
  BY <1>1, <1>2, IInvAlways, PTL DEF Spec, ImplementsBatch, Batch!Spec

=============================================================================
