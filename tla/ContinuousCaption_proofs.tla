----------------------- MODULE ContinuousCaption_proofs -----------------------
(* Two stages that outlive their tasks.  What run_continuous promises, for any *)
(* tasks and any burst: the types, one task in and one task out, and that only *)
(* captioned tasks leave the stage.  And what the annotation of a clip leaves, *)
(* whatever runs, tasks and options come: a completion record closes the right *)
(* row of each frame.                                                          *)
EXTENDS ContinuousCaption, AnnotatedClip, SequenceLemmas

-----------------------------------------------------------------------------
(* The invariant.                                                             *)

\* The task that get_task took and the loop has not registered.
Hand == IF get = "got" THEN {gotten} ELSE {}

\* Each task is in one place, and there once; one that was dropped is in none.
Placed ==
  /\ IsInjective(input) /\ IsInjective(output)
  /\ IsFiniteSet(trackers)
  /\ \A t \in Tasks :
       \/ /\ t \in coming /\ t \notin ToSet(input) /\ t \notin Hand
          /\ t \notin trackers /\ t \notin ToSet(output) /\ t # dropped
       \/ /\ t \notin coming /\ t \in ToSet(input) /\ t \notin Hand
          /\ t \notin trackers /\ t \notin ToSet(output) /\ t # dropped
       \/ /\ t \notin coming /\ t \notin ToSet(input) /\ t \in Hand
          /\ t \notin trackers /\ t \notin ToSet(output) /\ t # dropped
       \/ /\ t \notin coming /\ t \notin ToSet(input) /\ t \notin Hand
          /\ t \in trackers /\ t \notin ToSet(output) /\ t # dropped
       \/ /\ t \notin coming /\ t \notin ToSet(input) /\ t \notin Hand
          /\ t \notin trackers /\ t \in ToSet(output) /\ t # dropped
       \/ /\ t \notin coming /\ t \notin ToSet(input) /\ t \notin Hand
          /\ t \notin trackers /\ t \notin ToSet(output) /\ t = dropped

\* Only a stop drops, and only get_task's hand-over to a loop that runs is open.
Dropping ==
  /\ dropped # None => stop /\ loop \in {"drain", "exited", "raised"}
  /\ loop \in {"failing", "drain", "exited", "raised"} => get # "got"

\* What a place says about the captioning of a task that is there.
Captions ==
  /\ \A t \in Tasks : t \in trackers => caption[t] # "none"
  /\ \A t \in Tasks : t \in ToSet(output) => t \in Windowless \/ caption[t] = "returned"
  /\ \A t \in Tasks : caption[t] = "running" => t \in trackers
  /\ loop = "exited" => trackers = {}

IInv == TypeOK /\ Placed /\ Captions /\ Dropping

LEMMA InitInv == Init => IInv
<1> SUFFICES ASSUME Init PROVE IInv
  OBVIOUS
<1>1. TypeOK
  <2>1. input \in Seq(Tasks) /\ output \in Seq(Tasks)
    BY DEF Init
  <2>2. caption \in [Tasks -> {"none", "running", "returned", "raised"}]
    BY DEF Init
  <2> QED
    BY <2>1, <2>2 DEF Init, TypeOK
<1>2. ToSet(<<>>) = {} /\ IsInjective(<<>>)
  BY DEF ToSet, IsInjective
<1>3. Placed
  BY <1>2, FS_EmptySet, ContinuousAssumption DEF Init, Placed, Hand, ContinuousAssumption
<1>4. Captions
  BY <1>2 DEF Init, Captions
<1>5. Dropping
  BY DEF Init, Dropping
<1> QED
  BY <1>1, <1>3, <1>4, <1>5 DEF IInv

LEMMA InvImplies == IInv => TypeOK /\ OneInOneOut /\ OutputIsComplete /\ NoCaptionAfterExit
<1> SUFFICES ASSUME IInv PROVE TypeOK /\ OneInOneOut /\ OutputIsComplete /\ NoCaptionAfterExit
  OBVIOUS
<1>1. ASSUME NEW t \in Tasks PROVE Copies(t) = IF t \in coming \/ t = dropped THEN 0 ELSE 1
  <2> DEFINE ci == Cardinality({i \in DOMAIN input : input[i] = t})
             co == Cardinality({i \in DOMAIN output : output[i] = t})
  <2>1. /\ ci = IF t \in ToSet(input) THEN 1 ELSE 0
        /\ co = IF t \in ToSet(output) THEN 1 ELSE 0
    BY CountOnce DEF IInv, Placed
  <2>2. t \in Hand <=> gotten = t /\ loop \in {"top", "wait", "expired"}
    BY ContinuousAssumption DEF Hand, IInv, TypeOK, Dropping, ContinuousAssumption
  <2>3. Copies(t) = ci + (IF gotten = t /\ loop \in {"top", "wait", "expired"} THEN 1 ELSE 0)
                       + (IF t \in trackers THEN 1 ELSE 0) + co
    BY DEF Copies
  <2> HIDE DEF ci, co
  <2> QED
    BY <2>1, <2>2, <2>3 DEF IInv, Placed
<1>2. OutputIsComplete
  <2> SUFFICES ASSUME NEW i \in DOMAIN output
               PROVE  output[i] \in Windowless \/ caption[output[i]] = "returned"
    BY DEF OutputIsComplete
  <2>1. output[i] \in ToSet(output) /\ output[i] \in Tasks
    <3>1. output \in Seq(Tasks)
      BY DEF IInv, TypeOK
    <3> QED
      BY <3>1 DEF ToSet
  <2> QED
    BY <2>1 DEF IInv, Captions
<1>3. NoCaptionAfterExit
  BY DEF IInv, Captions, NoCaptionAfterExit
<1> QED
  BY <1>1, <1>2, <1>3 DEF IInv, Dropping, OneInOneOut

\* What the loop puts on the output queue: a finite set of tasks that are not there.
LEMMA Emitted ==
  ASSUME IInv, NEW done, IsFiniteSet(done), done \subseteq Tasks,
         done \cap ToSet(output) = {}, NEW more \in SetToSeqs(done)
  PROVE  /\ output \o more \in Seq(Tasks)
         /\ IsInjective(output \o more)
         /\ ToSet(output \o more) = ToSet(output) \cup done
<1>1. more \in Seq(done) /\ IsInjective(more) /\ ToSet(more) = done
  BY ArrangedOnce
<1>2. more \in Seq(Tasks)
  BY <1>1, SeqMonotonic
<1> QED
  BY <1>1, <1>2, ConcatOnce DEF IInv, TypeOK, Placed

\* Every step keeps the invariant.
LEMMA NextInv == IInv /\ [Next]_vars => IInv'
<1> SUFFICES ASSUME IInv, [Next]_vars PROVE IInv'
  OBVIOUS
<1> USE ContinuousAssumption DEF ContinuousAssumption
<1>0. input \in Seq(Tasks) /\ output \in Seq(Tasks) /\ IsInjective(input) /\ IsInjective(output)
  BY DEF IInv, TypeOK, Placed
<1>1. ASSUME NEW t \in Tasks, Offer(t) PROVE IInv'
  <2>1. t \notin ToSet(input)
    BY <1>1 DEF Offer, IInv, Placed
  <2>2. /\ input' \in Seq(Tasks) /\ IsInjective(input')
        /\ ToSet(input') = ToSet(input) \cup {t}
    BY <1>0, <1>1, <2>1, AppendOnce DEF Offer
  <2>3. TypeOK'
    BY <1>1, <2>2 DEF Offer, IInv, TypeOK
  <2>4. Placed'
    BY <1>1, <2>2 DEF Offer, IInv, Placed, Hand
  <2>5. Captions'
    BY <1>1 DEF Offer, IInv, Captions
  <2>6. Dropping'
    BY <1>1 DEF Offer, IInv, Dropping
  <2> QED
    BY <2>3, <2>4, <2>5, <2>6 DEF IInv
<1>2. CASE GetItem
  <2>1. /\ input' \in Seq(Tasks) /\ IsInjective(input') /\ Head(input) \in Tasks
        /\ Head(input) \notin ToSet(input')
        /\ ToSet(input) = ToSet(input') \cup {Head(input)}
    <3>1. input # <<>> /\ input' = SubSeq(input, 2, Len(input)) /\ Len(input) \in Nat \ {0}
      BY <1>0, <1>2, TailIsSubSeq DEF GetItem
    <3>2. /\ input' \in Seq(Tasks) /\ IsInjective(input')
          /\ ToSet(SubSeq(input, 1, 1)) \cap ToSet(input') = {}
          /\ ToSet(SubSeq(input, 1, 1)) \cup ToSet(input') = ToSet(input)
      BY <1>0, <3>1, CutOnce
    <3>3. SubSeq(input, 1, 1) = <<Head(input)>> /\ Head(input) \in Tasks
      <4>1. Head(input) = input[1] /\ input[1] \in Tasks
        BY <1>0, <3>1
      <4>2. /\ Len(SubSeq(input, 1, 1)) = 1 /\ SubSeq(input, 1, 1)[1] = input[1]
            /\ SubSeq(input, 1, 1) \in Seq(Tasks)
        BY <1>0, <3>1, <4>1, SubSeqProperties
      <4>3. /\ Len(<<input[1]>>) = 1 /\ <<input[1]>>[1] = input[1]
            /\ <<input[1]>> \in Seq(Tasks)
        BY <4>1
      <4>4. \A i \in 1 .. 1 : i = 1
        OBVIOUS
      <4>5. SubSeq(input, 1, 1) = <<input[1]>>
        BY <4>2, <4>3, <4>4, SeqEqual
      <4> QED
        BY <4>1, <4>5
    <3>4. ToSet(<<Head(input)>>) = {Head(input)}
      BY DEF ToSet
    <3> QED
      BY <3>2, <3>3, <3>4
  <2>2. TypeOK'
    BY <1>2, <2>1 DEF GetItem, IInv, TypeOK
  <2>3. Placed'
    BY <1>2, <2>1 DEF GetItem, IInv, Placed, Hand, TypeOK
  <2>4. Captions'
    BY <1>2 DEF GetItem, IInv, Captions
  <2>5. Dropping'
    BY <1>2 DEF GetItem, IInv, Dropping
  <2> QED
    BY <2>2, <2>3, <2>4, <2>5 DEF IInv
<1>3. CASE HandleWake
  <2> DEFINE taken == IF get = "got"
                      THEN IF Len(input) < MaxAccept THEN Len(input) ELSE MaxAccept
                      ELSE 0
             burst == SubSeq(input, 1, taken)
             new == IF get = "got" THEN <<gotten>> \o burst ELSE <<>>
             tracked == ToSet(new) \ Windowless
             raised == \E t \in Ended : caption[t] = "raised"
             done == IF raised THEN {} ELSE Ended
  <2>1. /\ input' = SubSeq(input, taken + 1, Len(input))
        /\ caption' = [t \in Tasks |-> IF t \in tracked THEN "running" ELSE caption[t]]
        /\ trackers' = (trackers \cup tracked) \ done
        /\ output' \in {output \o more : more \in SetToSeqs(AtOnce(new) \cup done)}
        /\ loop' = IF raised THEN "failing" ELSE "top"
        /\ get' = IF get = "got" THEN "none" ELSE get
        /\ gotten' = None
        /\ UNCHANGED <<stop, coming, dropped>>
        /\ loop = "wait"
    BY <1>3 DEF HandleWake
  <2>2. taken \in 0 .. Len(input)
    BY <1>0
  <2> HIDE DEF taken
  <2>3. /\ input' \in Seq(Tasks) /\ IsInjective(input')
        /\ burst \in Seq(Tasks) /\ IsInjective(burst)
        /\ ToSet(burst) \cap ToSet(input') = {}
        /\ ToSet(burst) \cup ToSet(input') = ToSet(input)
    BY <1>0, <2>1, <2>2, CutOnce
  <2>4. ToSet(<<>>) = {} /\ IsInjective(<<>>) /\ <<>> \in Seq(Tasks)
    BY DEF ToSet, IsInjective
  <2>5. get = "got" => gotten \in Tasks /\ gotten \notin ToSet(input)
    BY DEF IInv, TypeOK, Placed, Hand
  <2>6. /\ new \in Seq(Tasks) /\ ToSet(new) \cap ToSet(input') = {}
        /\ ToSet(new) \cup ToSet(input') = Hand \cup ToSet(input)
        /\ ToSet(new) \cap ToSet(output) = {} /\ ToSet(new) \cap trackers = {}
        /\ ToSet(new) \cap coming = {}
    <3>1. CASE get = "got"
      <4> DEFINE first == <<gotten>>
      <4>1. first \in Seq(Tasks) /\ IsInjective(first) /\ ToSet(first) = {gotten}
        BY <2>5, <3>1 DEF ToSet, IsInjective
      <4>2. new = first \o burst
        BY <3>1
      <4> HIDE DEF first, burst
      <4>3. ToSet(first) \cap ToSet(burst) = {}
        BY <2>3, <2>5, <3>1, <4>1
      <4>4. new \in Seq(Tasks) /\ ToSet(new) = {gotten} \cup ToSet(burst)
        <5>1. burst \in Seq(Tasks) /\ IsInjective(burst)
          BY <2>3
        <5>2. /\ first \o burst \in Seq(Tasks)
              /\ ToSet(first \o burst) = {gotten} \cup ToSet(burst)
          BY <4>1, <4>3, <5>1, ConcatOnce
        <5> HIDE DEF new
        <5> QED
          BY <4>2, <5>2
      <4> HIDE DEF new
      <4>5. \A t \in ToSet(new) : t \in Tasks
        BY <4>4, ElementsOf
      <4> QED
        BY <2>3, <2>5, <3>1, <4>4, <4>5 DEF Hand, IInv, Placed
    <3>2. CASE get # "got"
      <4>1. burst = <<>>
        BY <3>2, SubSeqEmpty DEF taken
      <4> QED
        BY <2>3, <2>4, <3>2, <4>1 DEF Hand
    <3> QED
      BY <3>1, <3>2
  <2> HIDE DEF new, burst
  <2>7. IsFiniteSet(ToSet(new)) /\ \A t \in ToSet(new) : t \in Tasks
    BY <2>6, ElementsOf
  <2>8. \A t \in Hand : t \in Tasks
    BY <2>5 DEF Hand
  <2>9. /\ done \subseteq trackers /\ IsFiniteSet(done)
        /\ \A t \in done : caption[t] = "returned"
    BY FS_Subset, FS_EmptySet DEF IInv, Placed, Ended
  <2> HIDE DEF done, raised
  <2>10. /\ output' \in Seq(Tasks) /\ IsInjective(output')
         /\ ToSet(output') = ToSet(output) \cup AtOnce(new) \cup done
    <3>1. PICK more \in SetToSeqs(AtOnce(new) \cup done) : output' = output \o more
      BY <2>1
    <3>2. IsFiniteSet(AtOnce(new))
      BY <2>7, FS_Subset DEF AtOnce
    <3>3. /\ IsFiniteSet(AtOnce(new) \cup done)
          /\ AtOnce(new) \cup done \subseteq Tasks
          /\ (AtOnce(new) \cup done) \cap ToSet(output) = {}
      BY <2>6, <2>7, <2>9, <3>2, FS_Union DEF AtOnce, IInv, TypeOK, Placed
    <3> QED
      BY <3>1, <3>3, Emitted
  <2>11. tracked \subseteq Tasks /\ IsFiniteSet(tracked) /\ tracked = ToSet(new) \ AtOnce(new)
    BY <2>7, FS_Subset DEF AtOnce
  <2>12. IsFiniteSet(trackers')
    <3>1. IsFiniteSet(trackers \cup tracked)
      BY <2>11, FS_Union DEF IInv, Placed
    <3> QED
      BY <2>1, <3>1, FS_Difference
  <2> HIDE DEF tracked
  <2>13. TypeOK'
    BY <2>1, <2>3, <2>9, <2>10, <2>11 DEF IInv, TypeOK
  <2>14. Placed'
    <3>1. Hand' = {}
      BY <2>1 DEF Hand
    <3>2. ToSet(input') \subseteq ToSet(input)
      BY <2>3
    <3> QED
      BY <2>1, <2>3, <2>6, <2>9, <2>10, <2>11, <2>12, <3>1, <3>2 DEF IInv, Placed, AtOnce
  <2>15. Captions'
    <3>1. \A t \in Tasks : caption'[t] = IF t \in tracked THEN "running" ELSE caption[t]
      BY <2>1
    <3>2. tracked \cap done = {} /\ tracked \cap ToSet(output') = {}
      BY <2>6, <2>9, <2>10, <2>11 DEF AtOnce, IInv, Placed, TypeOK
    <3> QED
      BY <2>1, <2>9, <2>10, <2>11, <3>1, <3>2 DEF IInv, Captions, AtOnce
  <2>16. Dropping'
    BY <2>1 DEF IInv, Dropping, TypeOK
  <2> QED
    BY <2>13, <2>14, <2>15, <2>16 DEF IInv
<1>4. CASE Drain
  <2>1. CASE \E t \in Ended : caption[t] = "raised"
    BY <1>4, <2>1 DEF Drain, IInv, TypeOK, Placed, Captions, Hand, Dropping
  <2>2. CASE ~ \E t \in Ended : caption[t] = "raised"
    <3>1. /\ Ended \subseteq trackers /\ IsFiniteSet(Ended) /\ Ended \subseteq Tasks
          /\ Ended \cap ToSet(output) = {}
          /\ \A t \in Ended : caption[t] = "returned"
      BY <2>2, FS_Subset DEF IInv, Placed, Ended, TypeOK
    <3>2. PICK more \in SetToSeqs(Ended) : output' = output \o more
      BY <1>4, <2>2 DEF Drain
    <3>3. /\ output' \in Seq(Tasks) /\ IsInjective(output')
          /\ ToSet(output') = ToSet(output) \cup Ended
      BY <3>1, <3>2, Emitted
    <3>4. /\ trackers' = trackers \ Ended /\ loop' = "drain" /\ loop = "drain"
          /\ UNCHANGED <<stop, coming, input, get, gotten, dropped, caption>>
      BY <1>4, <2>2 DEF Drain
    <3>5. IsFiniteSet(trackers')
      BY <3>4, FS_Difference DEF IInv, Placed
    <3> HIDE DEF Ended
    <3>6. TypeOK'
      BY <3>3, <3>4 DEF IInv, TypeOK
    <3>7. Placed'
      BY <3>1, <3>3, <3>4, <3>5 DEF IInv, Placed, Hand
    <3>8. Captions'
      BY <3>1, <3>3, <3>4 DEF IInv, Captions
    <3>9. Dropping'
      BY <3>4 DEF IInv, Dropping
    <3> QED
      BY <3>6, <3>7, <3>8, <3>9 DEF IInv
  <2> QED
    BY <2>1, <2>2
<1>5. ASSUME NEW t \in Tasks, CaptionEnds(t) PROVE IInv'
  <2>1. TypeOK'
    BY <1>5 DEF CaptionEnds, IInv, TypeOK
  <2>2. Placed'
    BY <1>5 DEF CaptionEnds, IInv, Placed, Hand
  <2>3. Captions'
    BY <1>5 DEF CaptionEnds, IInv, TypeOK, Placed, Captions
  <2>4. Dropping'
    BY <1>5 DEF CaptionEnds, IInv, Dropping
  <2> QED
    BY <2>1, <2>2, <2>3, <2>4 DEF IInv
<1>6. CASE SetStop \/ EnterWait \/ Expire \/ ContinueAfterTimeout \/ Exit
  <2>1. UNCHANGED <<coming, input, gotten, dropped, trackers, caption, output>>
    BY <1>6 DEF SetStop, EnterWait, Expire, ContinueAfterTimeout, Exit
  <2>2. /\ get' = "got" <=> get = "got"
        /\ get' \in {"none", "waiting", "got"} /\ stop' \in BOOLEAN
        /\ loop' \in {"top", "wait", "expired", "failing", "drain", "exited", "raised"}
        /\ loop' = "exited" => trackers = {}
    BY <1>6 DEF SetStop, EnterWait, Expire, ContinueAfterTimeout, Exit, IInv, TypeOK, Captions
  <2>3. TypeOK'
    BY <2>1, <2>2 DEF IInv, TypeOK
  <2>4. Placed'
    BY <2>1, <2>2 DEF IInv, Placed, Hand
  <2>5. Captions'
    BY <2>1, <2>2 DEF IInv, Captions
  <2>6. Dropping'
    BY <1>6, <2>1, <2>2 DEF SetStop, EnterWait, Expire, ContinueAfterTimeout, Exit, IInv, Dropping
  <2> QED
    BY <2>3, <2>4, <2>5, <2>6 DEF IInv
\* What get_task holds is dropped; the loop was running, so nothing was dropped before.
<1>7. CASE LeaveLoop
  <2>1. /\ UNCHANGED <<stop, coming, input, trackers, caption, output>>
        /\ get' = "none" /\ gotten' = None /\ dropped' = gotten
        /\ \/ loop = "top" /\ stop /\ loop' = "drain"
           \/ loop = "failing" /\ loop' = "raised"
    BY <1>7 DEF LeaveLoop
  <2>2. Hand' = {} /\ dropped = None
    BY <2>1 DEF Hand, IInv, Dropping
  <2>3. \A t \in Tasks : t = dropped' <=> t \in Hand
    BY <2>1 DEF Hand, IInv, TypeOK
  <2>4. TypeOK'
    BY <2>1 DEF IInv, TypeOK
  <2>5. Placed'
    BY <2>1, <2>2, <2>3 DEF IInv, Placed
  <2>6. Captions'
    BY <2>1 DEF IInv, Captions
  <2>7. Dropping'
    BY <2>1 DEF IInv, TypeOK, Dropping
  <2> QED
    BY <2>4, <2>5, <2>6, <2>7 DEF IInv
<1>8. CASE UNCHANGED vars
  BY <1>8 DEF vars, IInv, TypeOK, Placed, Captions, Hand, Dropping
<1> QED
  BY <1>1, <1>2, <1>3, <1>4, <1>5, <1>6, <1>7, <1>8 DEF Next, Loop

LEMMA Invariance == Spec => []IInv
  BY InitInv, NextInv, PTL DEF Spec

\* Type correctness of the loop, the queues and the captions.
THEOREM Typing == Spec => []TypeOK
  BY Invariance, InvImplies, PTL

\* The contract of a continuous stage: each offered task is in one place, the input queue,
\* get_task in the hands of a loop that runs, a tracker or the output queue, and there once; a
\* stop drops at most one, the result of a get_task that was done when the loop was left.
THEOREM ContractHolds == Spec => []OneInOneOut
  BY Invariance, InvImplies, PTL

\* Only a task whose captioning returned, or that has nothing to caption, is put out.
THEOREM OutIsCaptioned == Spec => []OutputIsComplete
  BY Invariance, InvImplies, PTL

\* When run_continuous has returned, no caption task is running.
THEOREM ExitIsQuiet == Spec => []NoCaptionAfterExit
  BY Invariance, InvImplies, PTL

-----------------------------------------------------------------------------
(* TemporalAnnotation: the grid of a clip.                                    *)

LEMMA Multiples ==
  ASSUME NEW a \in Int, NEW b \in Int, NEW d \in Nat \ {0}
  PROVE  /\ a * d \in Int /\ b * d \in Int
         /\ (a + 1) * d = a * d + d
         /\ a < b => a * d + d <= b * d
         /\ a <= b <=> a * d <= b * d
         /\ a * d = b * d => a = b
<1>1. a * d \in Int /\ b * d \in Int
  OBVIOUS
<1>2. (a + 1) * d = a * d + d
  OBVIOUS
<1>3. ASSUME NEW x \in Int, NEW y \in Int, x < y PROVE x * d + d <= y * d
  <2>1. y - x >= 1 /\ y - x \in Nat
    BY <1>3
  <2>2. d <= (y - x) * d
    BY <2>1
  <2>3. y * d = x * d + (y - x) * d
    OBVIOUS
  <2>4. x * d \in Int /\ y * d \in Int /\ (y - x) * d \in Int
    OBVIOUS
  <2> QED
    BY <2>2, <2>3, <2>4
<1>4. a < b => a * d + d <= b * d
  BY <1>3
<1>5. b < a => b * d + d <= a * d
  BY <1>3
<1>6. a = b => a * d = b * d
  OBVIOUS
<1>7. d >= 1 /\ (a < b \/ a = b \/ b < a)
  OBVIOUS
<1> QED
  <2> DEFINE p == a * d
             q == b * d
  <2>1. p \in Int /\ q \in Int /\ (a + 1) * d = p + d
        /\ (a < b => p + d <= q) /\ (b < a => q + d <= p) /\ (a = b => p = q)
    BY <1>1, <1>2, <1>4, <1>5, <1>6
  <2> HIDE DEF p, q
  <2>2. /\ p \in Int /\ q \in Int /\ (a + 1) * d = p + d
        /\ a < b => p + d <= q
        /\ a <= b <=> p <= q
        /\ p = q => a = b
    BY <1>7, <2>1
  <2> QED
    BY <2>2 DEF p, q

\* The operators of the library are the same in the instance.
LEMMA AnnotationLibrary ==
  /\ \A S : Annotation!Cardinality(S) = Cardinality(S)
  /\ \A S : Annotation!Min(S) = Min(S) /\ Annotation!Max(S) = Max(S)
  /\ \A q : Annotation!FlattenSeq(q) = FlattenSeq(q)
  /\ \A f : Annotation!Range(f) = {f[x] : x \in DOMAIN f}
<1>1. \A S : Annotation!Cardinality(S) = Cardinality(S)
  BY DEF Annotation!Cardinality, Cardinality
<1>2. \A S : Annotation!Min(S) = Min(S) /\ Annotation!Max(S) = Max(S)
  BY DEF Annotation!Min, Min, Annotation!Max, Max
<1>3. \A q : Annotation!FlattenSeq(q) = FlattenSeq(q)
  BY Zenon DEF Annotation!FlattenSeq, FlattenSeq
<1>4. \A f : Annotation!Range(f) = {f[x] : x \in DOMAIN f}
  BY DEF Annotation!Range
<1> QED
  BY <1>1, <1>2, <1>3, <1>4

LEMMA Ends ==
  ASSUME NEW S, S \subseteq Int, IsFiniteSet(S), S # {}
  PROVE  /\ Annotation!Min(S) \in S /\ \A x \in S : Annotation!Min(S) <= x
         /\ Annotation!Max(S) \in S /\ \A x \in S : x <= Annotation!Max(S)
  BY AnnotationLibrary, LeastAndGreatest

\* The nearest of the candidates, the earlier one of two.
LEMMA NearestFrameIs ==
  ASSUME NEW C, C \subseteq Int, IsFiniteSet(C), C # {}, NEW t \in Int
  PROVE  Annotation!IsNearest(C, Annotation!NearestFrame(C, t), t)
<1> DEFINE after == {c \in C : c >= t}
           right == IF \E c \in C : c >= t THEN Annotation!Min(after) ELSE Annotation!Max(C)
           below == {c \in C : c < right} \cup {Annotation!Min(C)}
           left  == Annotation!Max(below)
           got   == IF Annotation!Abs(right - t) < Annotation!Abs(t - left) THEN right ELSE left
<1>1. Annotation!NearestFrame(C, t) = got
  BY DEF Annotation!NearestFrame
<1>2. Annotation!Min(C) \in C /\ \A c \in C : Annotation!Min(C) <= c
  BY Ends
<1>3. Annotation!Max(C) \in C /\ \A c \in C : c <= Annotation!Max(C)
  BY Ends
<1>4. after # {} => Annotation!Min(after) \in after /\ \A c \in after : Annotation!Min(after) <= c
  <2>1. after \in SUBSET C /\ after \subseteq Int
    OBVIOUS
  <2> HIDE DEF after
  <2>2. IsFiniteSet(after)
    BY <2>1, FS_Subset
  <2> QED
    BY <2>1, <2>2, Ends
<1>5. after # {} <=> \E c \in C : c >= t
  OBVIOUS
<1>6. \A c : c \in after <=> c \in C /\ c >= t
  OBVIOUS
<1>7. right \in C /\ right \in Int /\ (t <= right \/ \A c \in C : c <= right)
  <2>1. CASE \E c \in C : c >= t
    <3>1. right = Annotation!Min(after) /\ after # {}
      BY <1>5, <2>1
    <3> HIDE DEF right, after
    <3>2. right \in C /\ right >= t
      BY <1>4, <1>6, <3>1
    <3> QED
      BY <3>2
  <2>2. CASE ~ \E c \in C : c >= t
    <3>1. right = Annotation!Max(C)
      BY <2>2
    <3> QED
      BY <1>3, <3>1
  <2> QED
    BY <2>1, <2>2
<1>8. \A c \in C : c < right => c < t
  <2>1. CASE \E c \in C : c >= t
    <3>1. right = Annotation!Min(after) /\ after # {}
      BY <1>5, <2>1
    <3> HIDE DEF right, after
    <3> SUFFICES ASSUME NEW c \in C, c < right, ~ (c < t) PROVE FALSE
      OBVIOUS
    <3>2. c \in after
      BY <1>6
    <3>3. right <= c
      BY <1>4, <3>1, <3>2
    <3> QED
      BY <1>7, <3>3
  <2>2. CASE ~ \E c \in C : c >= t
    BY <2>2
  <2> QED
    BY <2>1, <2>2
<1> HIDE DEF after, right
<1>9. left \in below /\ \A c \in below : c <= left
  <2>1. below \in SUBSET C /\ below # {} /\ below \subseteq Int
    BY <1>2
  <2> HIDE DEF below
  <2>2. IsFiniteSet(below)
    BY <2>1, FS_Subset
  <2> QED
    BY <2>1, <2>2, Ends
<1>10. \A c : c \in below <=> (c \in C /\ c < right) \/ c = Annotation!Min(C)
  BY <1>2
<1> HIDE DEF left, below
<1>11. left \in C /\ left \in Int
  BY <1>2, <1>9, <1>10
<1>12. left = right \/ left < right
  <2>1. left < right \/ left = Annotation!Min(C)
    BY <1>9, <1>10
  <2>2. Annotation!Min(C) <= right
    BY <1>2, <1>7
  <2> QED
    BY <1>7, <1>11, <2>1, <2>2
<1>13. \A c \in C : c <= left \/ right <= c
  BY <1>7, <1>9, <1>10
<1>14. left <= t \/ \A c \in C : left <= c
  BY <1>2, <1>8, <1>9, <1>10, <1>11
<1>15. got \in C /\ \A c \in C : \/ Annotation!Abs(got - t) < Annotation!Abs(c - t)
                                 \/ Annotation!Abs(got - t) = Annotation!Abs(c - t) /\ got <= c
  <2>1. got \in {left, right} /\ got \in C
    BY <1>7, <1>11
  <2>2. CASE Annotation!Abs(right - t) < Annotation!Abs(t - left)
    <3>1. got = right
      BY <2>2
    <3> HIDE DEF got
    <3>2. ASSUME NEW c \in C
          PROVE  \/ Annotation!Abs(right - t) < Annotation!Abs(c - t)
                 \/ Annotation!Abs(right - t) = Annotation!Abs(c - t) /\ right <= c
      <4>1. c \in Int /\ (c <= left \/ right <= c) /\ (left <= t \/ left <= c)
            /\ (t <= right \/ c <= right)
        BY <1>7, <1>13, <1>14
      <4> QED
        BY <1>7, <1>11, <1>12, <2>2, <4>1 DEF Annotation!Abs
    <3> QED
      BY <2>1, <3>1, <3>2
  <2>3. CASE ~ (Annotation!Abs(right - t) < Annotation!Abs(t - left))
    <3>1. got = left
      BY <2>3
    <3> HIDE DEF got
    <3>2. ASSUME NEW c \in C
          PROVE  \/ Annotation!Abs(left - t) < Annotation!Abs(c - t)
                 \/ Annotation!Abs(left - t) = Annotation!Abs(c - t) /\ left <= c
      <4>1. c \in Int /\ (c <= left \/ right <= c) /\ (left <= t \/ left <= c)
            /\ (t <= right \/ c <= right)
        BY <1>7, <1>13, <1>14
      <4> QED
        BY <1>7, <1>11, <1>12, <2>3, <4>1 DEF Annotation!Abs
    <3> QED
      BY <2>1, <3>1, <3>2
  <2> QED
    BY <2>2, <2>3
<1> HIDE DEF got
<1> QED
  BY <1>1, <1>15 DEF Annotation!IsNearest

\* A span has as many times of the grid as are counted, and the i-th is where the grid puts it.
LEMMA GridIs ==
  ASSUME NEW s \in Int \X Int, s[1] < s[2], NEW step \in Nat \ {0}
  PROVE  /\ Annotation!TickCount(s, step) \in Nat \ {0}
         /\ Cardinality(Annotation!Ticks(s, step)) = Annotation!TickCount(s, step)
         /\ Annotation!Grid(s, step) \in Seq(Int)
         /\ Len(Annotation!Grid(s, step)) = Annotation!TickCount(s, step)
<1> DEFINE lo == s[1]
           hi == s[2]
           T  == {t \in lo .. (hi - 1) : (t - lo) % step = 0}
           N  == Annotation!TickCount(s, step)
           g  == [i \in 1 .. N |-> lo + (i - 1) * step]
<1>1. lo \in Int /\ hi \in Int /\ lo < hi /\ hi - 1 - lo \in Nat
  OBVIOUS
<1>2. N = (hi - 1 - lo) \div step + 1 /\ Annotation!Ticks(s, step) = T /\ Annotation!Grid(s, step) = g
  BY DEF Annotation!TickCount, Annotation!Ticks, Annotation!Grid
<1> HIDE DEF lo, hi, N
<1>3. PICK q \in Nat, r \in 0 .. (step - 1) : (hi - 1 - lo) \div step = q /\ hi - 1 - lo = q * step + r
  BY <1>1, Division
<1>4. N = q + 1 /\ N \in Nat \ {0} /\ q * step \in Int
  BY <1>2, <1>3
<1>5. ASSUME NEW i \in 1 .. N PROVE g[i] = lo + (i - 1) * step /\ (i - 1) * step \in Nat /\ g[i] \in T
  <2>1. i \in Int /\ i - 1 \in Nat /\ i - 1 <= q
    BY <1>4
  <2> DEFINE m == (i - 1) * step
  <2>2. m \in Nat /\ g[i] = lo + m
    BY <2>1
  <2>3. m <= q * step
    BY <2>1, Multiples
  <2>4. PICK k \in Nat, o \in 0 .. (step - 1) : m \div step = k /\ m % step = o /\ m = k * step + o
    <3>1. m \in Nat
      BY <2>2
    <3> HIDE DEF m, g, T
    <3>2. \E k \in Nat, o \in 0 .. (step - 1) :
            m \div step = k /\ m % step = o /\ m = k * step + o /\ (m > step => k >= 1)
      BY ONLY <3>1, step \in Nat \ {0}, Division
    <3> QED
      BY ONLY <3>2
  <2>5. o = 0
    <3>1. k * step \in Int /\ (k < i - 1 => k * step + step <= m) /\ (i - 1 < k => m + step <= k * step)
          /\ (k = i - 1 => k * step = m)
      BY <2>1, Multiples
    <3>2. k < i - 1 \/ i - 1 < k \/ k = i - 1
      BY <2>1
    <3> HIDE DEF m
    <3> QED
      BY <2>2, <2>4, <3>1, <3>2
  <2> HIDE DEF m
  <2>6. lo + m \in lo .. (hi - 1) /\ (lo + m) - lo = m
    BY <1>1, <1>3, <1>4, <2>2, <2>3
  <2>7. m % step = 0
    BY <2>4, <2>5
  <2>8. ((lo + m) - lo) % step = 0
    BY <2>6, <2>7
  <2>9. g[i] \in T
    BY <2>2, <2>6, <2>8
  <2> QED
    BY <2>2, <2>9 DEF m
<1>6. ASSUME NEW t \in T PROVE \E i \in 1 .. N : g[i] = t
  <2>1. t \in Int /\ t - lo \in Nat /\ t <= hi - 1 /\ (t - lo) % step = 0
    BY <1>1
  <2>2. PICK k \in Nat, o \in 0 .. (step - 1) :
          (t - lo) \div step = k /\ (t - lo) % step = o /\ t - lo = k * step + o
    <3> DEFINE d == t - lo
    <3>1. d \in Nat
      BY <2>1
    <3> HIDE DEF d
    <3>2. \E k \in Nat, o \in 0 .. (step - 1) : d \div step = k /\ d % step = o /\ d = k * step + o
      BY <3>1, Division
    <3> QED
      BY <3>2 DEF d
  <2>3. t - lo = k * step /\ k * step \in Int
    BY <2>1, <2>2
  <2>4. k <= q
    <3>1. q * step \in Int /\ (q < k => q * step + step <= k * step)
      BY Multiples
    <3> QED
      BY <1>1, <1>3, <2>1, <2>3, <3>1
  <2>5. k + 1 \in 1 .. N /\ (k + 1) - 1 = k
    BY <1>4, <2>4
  <2>6. g[k + 1] = lo + k * step
    BY <2>5
  <2>7. g[k + 1] = t
    BY <1>1, <2>1, <2>3, <2>6
  <2> HIDE DEF g
  <2> QED
    BY <2>5, <2>7
<1>7. ASSUME NEW i \in 1 .. N, NEW k \in 1 .. N, g[i] = g[k] PROVE i = k
  <2>1. (i - 1) * step = (k - 1) * step
    <3>1. (i - 1) * step \in Int /\ (k - 1) * step \in Int
      BY <1>5
    <3>2. lo + (i - 1) * step = lo + (k - 1) * step
      BY <1>5, <1>7
    <3> QED
      BY <1>1, <3>1, <3>2
  <2>2. i - 1 \in Int /\ k - 1 \in Int
    OBVIOUS
  <2>3. i - 1 = k - 1
    BY <2>1, <2>2, Multiples
  <2> QED
    BY <2>3
<1>8. g \in Bijection(1 .. N, T)
  <2>1. g \in [1 .. N -> T]
    BY <1>5
  <2> HIDE DEF g, T
  <2> QED
    BY <1>6, <1>7, <2>1 DEF Bijection, Injection, Surjection, IsInjective
<1>9. Cardinality(T) = N
  <2>1. IsFiniteSet(1 .. N) /\ Cardinality(1 .. N) = N
    <3>1. 1 \in Int /\ N \in Int /\ (IF 1 > N THEN 0 ELSE N - 1 + 1) = N
      BY <1>4
    <3> QED
      BY <3>1, FS_Interval
  <2>2. ExistsBijection(1 .. N, T)
    BY <1>8 DEF ExistsBijection
  <2> QED
    BY <2>1, <2>2, FS_Bijection
<1>10. g \in Seq(Int) /\ Len(g) = N
  <2>1. \A i \in 1 .. N : lo + (i - 1) * step \in Int
    BY <1>1, <1>5
  <2> QED
    BY <1>4, <2>1
<1> QED
  BY <1>2, <1>4, <1>9, <1>10 DEF N

-----------------------------------------------------------------------------
(* The windows of NormalCrafter.                                              *)

\* Windows begin with the first frame, end with the last, and leave no gap.
Tiling(S, n) ==
  /\ S \in Seq(Nat) /\ Len(S) \in Nat \ {0}
  /\ S[1] = 0 /\ S[Len(S)] + WindowSize = n
  /\ \A k \in 1 .. Len(S) : S[k] \in Nat /\ S[k] + WindowSize <= n
  /\ \A k \in 1 .. (Len(S) - 1) : S[k] < S[k + 1] /\ S[k + 1] <= S[k] + WindowSize

LEMMA WindowsTile ==
  ASSUME NEW n \in Nat, WindowSize <= n
  PROVE  Tiling(Annotation!TemporalWindows(n), n)
<1> DEFINE W == WindowSize
           d == WindowStride
           R == Annotation!RegularWindows(n)
           L == Len(R)
           A == Append(R, n - W)
<1>1. W \in Nat \ {0} /\ d \in Nat \ {0} /\ d <= W /\ n - W \in Nat
  BY AnnotationAssumption
<1>2. PICK q \in Nat, o \in 0 .. (d - 1) : (n - W) \div d = q /\ n - W = q * d + o
  <2> DEFINE m == n - W
  <2>1. m \in Nat
    BY <1>1
  <2> HIDE DEF m, d
  <2>2. \E q \in Nat, o \in 0 .. (d - 1) : m \div d = q /\ m = q * d + o
    BY <1>1, <2>1, Division
  <2> QED
    BY <2>2 DEF m
<1>3. R = [k \in 1 .. q + 1 |-> (k - 1) * d]
  BY <1>2 DEF Annotation!RegularWindows
<1> HIDE DEF W, d, R
<1>4. \A k \in 1 .. q + 1 : (k - 1) * d \in Nat /\ (k - 1) * d <= q * d
  <2> SUFFICES ASSUME NEW k \in 1 .. q + 1 PROVE (k - 1) * d \in Nat /\ (k - 1) * d <= q * d
    OBVIOUS
  <2>1. k - 1 \in Nat /\ k - 1 <= q
    OBVIOUS
  <2>2. (k - 1) * d \in Nat
    BY <1>1, <2>1
  <2> QED
    BY <1>1, <2>1, <2>2, Multiples
<1>5. R \in Seq(Nat) /\ L = q + 1 /\ L \in Nat \ {0} /\ \A k \in 1 .. q + 1 : R[k] = (k - 1) * d
  <2>1. \A k \in 1 .. q + 1 : (k - 1) * d \in Nat
    BY <1>4
  <2> QED
    BY <1>3, <2>1
<1> HIDE DEF L
<1>6. R[1] = 0
  <2>1. 1 \in 1 .. q + 1 /\ (1 - 1) * d = 0
    BY <1>1
  <2> QED
    BY <1>5, <2>1
<1>7. R[L] = q * d /\ q * d \in Nat
  <2>1. q + 1 \in 1 .. q + 1 /\ (q + 1) - 1 = q
    OBVIOUS
  <2> QED
    BY <1>4, <1>5, <2>1
<1>8. \A k \in 1 .. L : R[k] \in Nat /\ R[k] + W <= n
  <2> SUFFICES ASSUME NEW k \in 1 .. L PROVE R[k] \in Nat /\ R[k] + W <= n
    OBVIOUS
  <2> DEFINE p == q * d
  <2>1. R[k] \in Nat /\ R[k] <= p /\ p \in Nat /\ n - W = p + o
    BY <1>2, <1>4, <1>5, <1>7
  <2> HIDE DEF p
  <2> QED
    BY <1>1, <2>1
<1>9. \A k \in 1 .. (L - 1) : R[k] < R[k + 1] /\ R[k + 1] <= R[k] + W
  <2> SUFFICES ASSUME NEW k \in 1 .. (L - 1) PROVE R[k] < R[k + 1] /\ R[k + 1] <= R[k] + W
    OBVIOUS
  <2>1. k \in 1 .. q + 1 /\ k + 1 \in 1 .. q + 1 /\ k - 1 \in Int /\ (k + 1) - 1 = (k - 1) + 1
    BY <1>5
  <2>2. R[k] = (k - 1) * d /\ R[k + 1] = ((k - 1) + 1) * d
    BY <1>5, <2>1
  <2>3. R[k + 1] = R[k] + d /\ R[k] \in Nat
    BY <1>1, <1>4, <2>1, <2>2, Multiples
  <2> QED
    BY <1>1, <2>3
<1>10. Annotation!TemporalWindows(n) = IF R[L] + W < n THEN A ELSE R
  BY DEF Annotation!TemporalWindows, L, R, W
<1>11. CASE R[L] + W < n
  <2>1. A \in Seq(Nat) /\ Len(A) = L + 1 /\ A[L + 1] = n - W /\ \A k \in 1 .. L : A[k] = R[k]
    BY <1>1, <1>5 DEF L
  <2>2. \A k \in 1 .. L : k + 1 = L + 1 \/ (k + 1 \in 1 .. L /\ k \in 1 .. (L - 1))
    BY <1>5
  <2>3. R[L] < n - W /\ n - W <= R[L] + W
    <3> DEFINE p == q * d
    <3>1. R[L] = p /\ p \in Nat /\ n - W = p + o
      BY <1>2, <1>7
    <3> HIDE DEF p
    <3> QED
      BY <1>1, <1>11, <3>1
  <2> HIDE DEF A
  <2>4. ASSUME NEW k \in 1 .. L PROVE A[k] < A[k + 1] /\ A[k + 1] <= A[k] + W
    <3>1. CASE k + 1 = L + 1
      <4>1. k = L
        BY <1>5, <3>1
      <4> QED
        BY <2>1, <2>3, <4>1
    <3>2. CASE k + 1 \in 1 .. L /\ k \in 1 .. (L - 1)
      BY <1>9, <2>1, <3>2
    <3> QED
      BY <2>2, <3>1, <3>2
  <2>5. ASSUME NEW k \in 1 .. L + 1 PROVE A[k] \in Nat /\ A[k] + W <= n
    <3>1. k = L + 1 \/ k \in 1 .. L
      BY <1>5
    <3> QED
      BY <1>1, <1>8, <2>1, <3>1
  <2>6. A[1] = 0 /\ 1 \in 1 .. L /\ L + 1 \in Nat \ {0} /\ (L + 1) - 1 = L
    BY <1>5, <1>6, <2>1
  <2>7. A[L + 1] + W = n
    BY <1>1, <2>1
  <2>8. Tiling(A, n)
    BY <2>1, <2>4, <2>5, <2>6, <2>7 DEF Tiling, W
  <2> QED
    BY <1>10, <1>11, <2>8
<1>12. CASE ~ (R[L] + W < n)
  <2>1. L \in 1 .. L
    BY <1>5
  <2>2. R[L] + W = n
    BY <1>1, <1>8, <1>12, <2>1
  <2>3. Tiling(R, n)
    BY <1>5, <1>6, <1>8, <1>9, <2>2 DEF Tiling, W, L
  <2> QED
    BY <1>10, <1>12, <2>3
<1> QED
  BY <1>11, <1>12

\* The windows among the first k that hold frame i.
Holding(S, k, i) == {s \in Nat : \E j \in 1 .. k : S[j] = s /\ s <= i /\ i < s + WindowSize}

LEMMA WindowsHold ==
  ASSUME NEW n \in Nat, NEW S, Tiling(S, n)
  PROVE  /\ \A k \in 1 .. Len(S) : \A j \in 1 .. k : S[j] <= S[k]
         /\ \A i \in 0 .. (n - 1) : Holding(S, Len(S), i) # {}
<1> DEFINE W == WindowSize
           L == Len(S)
           P == {m \in Nat : m + 1 <= L => /\ \A j \in 1 .. m + 1 : S[j] <= S[m + 1]
                                           /\ \A i \in Nat : i < S[m + 1] + W =>
                                                \E j \in 1 .. m + 1 : S[j] <= i /\ i < S[j] + W}
<1>1. /\ L \in Nat \ {0} /\ W \in Nat \ {0} /\ S[1] = 0 /\ S[L] + W = n
      /\ \A k \in 1 .. L : S[k] \in Nat
      /\ \A k \in 1 .. (L - 1) : S[k] < S[k + 1] /\ S[k + 1] <= S[k] + W
  BY AnnotationAssumption DEF Tiling
<1> HIDE DEF L, W
<1>2. 0 \in P
  <2>1. 1 .. 0 + 1 = {1} /\ 0 + 1 = 1 /\ 1 \in {1}
    OBVIOUS
  <2>2. \A i \in Nat : i < S[1] + W => S[1] <= i /\ i < S[1] + W
    BY <1>1
  <2>3. \A j \in {1} : S[j] <= S[1]
    BY <1>1
  <2> QED
    BY <2>1, <2>2, <2>3
<1>3. ASSUME NEW m \in Nat, m \in P PROVE m + 1 \in P
  <2> DEFINE k == m + 1
  <2> SUFFICES ASSUME k + 1 <= L
               PROVE  /\ \A j \in 1 .. k + 1 : S[j] <= S[k + 1]
                      /\ \A i \in Nat : i < S[k + 1] + W =>
                           \E j \in 1 .. k + 1 : S[j] <= i /\ i < S[j] + W
    OBVIOUS
  <2>1. /\ \A j \in 1 .. k : S[j] <= S[k]
        /\ \A i \in Nat : i < S[k] + W => \E j \in 1 .. k : S[j] <= i /\ i < S[j] + W
    <3>1. m + 1 <= L
      BY <1>1
    <3> QED
      BY <1>3, <3>1
  <2>2. k \in 1 .. (L - 1) /\ k \in 1 .. L /\ k + 1 \in 1 .. L /\ k + 1 \in 1 .. k + 1
    BY <1>1
  <2> HIDE DEF P, k
  <2>3. S[k] \in Nat /\ S[k + 1] \in Nat /\ S[k] < S[k + 1] /\ S[k + 1] <= S[k] + W
    BY <1>1, <2>2
  <2>4. ASSUME NEW j \in 1 .. k + 1 PROVE S[j] <= S[k + 1]
    <3>1. j = k + 1 \/ (j \in 1 .. k /\ j \in 1 .. L)
      BY <1>1, <2>2
    <3>2. (j \in 1 .. k /\ j \in 1 .. L) => S[j] <= S[k] /\ S[j] \in Nat
      BY <1>1, <2>1
    <3> QED
      BY <2>3, <3>1, <3>2
  <2>5. ASSUME NEW i \in Nat, i < S[k + 1] + W
        PROVE  \E j \in 1 .. k + 1 : S[j] <= i /\ i < S[j] + W
    <3>1. CASE i < S[k] + W
      <4>1. PICK j \in 1 .. k : S[j] <= i /\ i < S[j] + W
        BY <2>1, <3>1
      <4>2. j \in 1 .. k + 1
        BY <2>2
      <4> QED
        BY <4>1, <4>2
    <3>2. CASE ~ (i < S[k] + W)
      <4>1. S[k + 1] <= i
        BY <1>1, <2>3, <3>2
      <4> QED
        BY <2>2, <2>5, <4>1
    <3> QED
      BY <3>1, <3>2
  <2> QED
    BY <2>4, <2>5
<1>4. \A m \in Nat : m \in P
  <2> HIDE DEF P
  <2> QED
    BY <1>2, <1>3, Induction
<1>5. ASSUME NEW k \in 1 .. L
      PROVE  /\ \A j \in 1 .. k : S[j] <= S[k]
             /\ \A i \in Nat : i < S[k] + W => \E j \in 1 .. k : S[j] <= i /\ i < S[j] + W
  <2>1. k - 1 \in Nat /\ (k - 1) + 1 = k /\ k <= L
    BY <1>1
  <2>2. k - 1 \in P
    BY <1>4, <2>1
  <2> QED
    BY <2>1, <2>2
<1> HIDE DEF P
<1>6. ASSUME NEW i \in 0 .. (n - 1) PROVE Holding(S, L, i) # {}
  <2>1. i \in Nat /\ i < S[L] + W /\ L \in 1 .. L
    BY <1>1
  <2>2. PICK j \in 1 .. L : S[j] <= i /\ i < S[j] + W
    BY <1>5, <2>1
  <2>3. S[j] \in Holding(S, L, i)
    BY <1>1, <2>2 DEF Holding, W
  <2> QED
    BY <2>3
<1> QED
  BY <1>5, <1>6 DEF L

\* What is blended for a frame comes from the windows that hold it.
LEMMA BlendedIs ==
  ASSUME NEW n \in Nat, WindowSize <= n
  PROVE  LET S == Annotation!TemporalWindows(n) IN
         \A i \in 0 .. (n - 1) :
           Annotation!PredictLatents(n)[i] = Holding(S, Len(S), i)
<1> DEFINE S == Annotation!TemporalWindows(n)
           L == Len(S)
           W == WindowSize
           I == 0 .. (n - 1)
           A == [I -> SUBSET Nat]
           none == [i \in I |-> {}]
           Blend(p, k) == [i \in I |-> IF i \notin S[k] .. (S[k] + W - 1) THEN p[i]
                                       ELSE IF k > 1 /\ i < S[k - 1] + W THEN p[i] \cup {S[k]}
                                       ELSE {S[k]}]
           Solves(f) == f = [k \in 0 .. L |-> IF k = 0 THEN none ELSE Blend(f[k - 1], k)]
<1>1. Tiling(S, n)
  BY WindowsTile
<1>2. Annotation!PredictLatents(n) = (CHOOSE f : Solves(f))[L]
  BY DEF Annotation!PredictLatents
<1> HIDE DEF S
<1>3. /\ L \in Nat \ {0} /\ W \in Nat \ {0} /\ S[L] + W = n
      /\ \A k \in 1 .. L : S[k] \in Nat
      /\ \A k \in 1 .. L : \A j \in 1 .. k : S[j] <= S[k]
  BY <1>1, WindowsHold, AnnotationAssumption DEF Tiling
<1> HIDE DEF L, W, I
<1>4. \A k \in 1 .. L : \A p \in A : Blend(p, k) \in A
  <2> SUFFICES ASSUME NEW k \in 1 .. L, NEW p \in A PROVE Blend(p, k) \in A
    OBVIOUS
  <2>1. S[k] \in Nat
    BY <1>3
  <2>2. \A i \in I : p[i] \in SUBSET Nat
    OBVIOUS
  <2>3. \A i \in I : p[i] \cup {S[k]} \in SUBSET Nat /\ {S[k]} \in SUBSET Nat
    BY <2>1, <2>2
  <2> QED
    BY <2>2, <2>3
<1> HIDE DEF Blend
<1>5. \E f : Solves(f)
  <2> DEFINE F == [k \in 1 .. L |-> [p \in A |-> Blend(p, k)]]
  <2>1. F \in [1 .. L -> [A -> A]] /\ none \in A /\ L \in Nat
    BY <1>3, <1>4
  <2> HIDE DEF F, A, none
  <2>2. PICK f : StepsFrom(f, none, F, L, A)
    BY <2>1, StepByStep
  <2>3. f \in [0 .. L -> A] /\ f[0] = none /\ \A k \in 1 .. L : f[k] = F[k][f[k - 1]]
    BY <2>2 DEF StepsFrom
  <2>4. ASSUME NEW k \in 1 .. L PROVE f[k] = Blend(f[k - 1], k)
    <3>1. k - 1 \in 0 .. L
      BY <1>3
    <3>2. f[k - 1] \in A
      BY <2>3, <3>1
    <3>3. F[k] = [p \in A |-> Blend(p, k)]
      BY DEF F
    <3> QED
      BY <2>3, <3>2, <3>3
  <2>5. \A k \in 0 .. L : k # 0 => k \in 1 .. L
    BY <1>3
  <2>6. \A k \in 0 .. L : f[k] = IF k = 0 THEN none ELSE Blend(f[k - 1], k)
    BY <2>3, <2>4, <2>5
  <2>7. f = [k \in 0 .. L |-> f[k]]
    BY <2>3
  <2>8. Solves(f)
    BY <2>6, <2>7
  <2> QED
    BY <2>8
<1> DEFINE f == CHOOSE f : Solves(f)
<1>6. Solves(f)
  BY <1>5
<1> HIDE DEF f
<1>7. f[0] = none /\ \A k \in 1 .. L : f[k] = Blend(f[k - 1], k)
  <2>1. 0 \in 0 .. L /\ \A k \in 1 .. L : k \in 0 .. L /\ k # 0
    BY <1>3
  <2>2. \A k \in 0 .. L : f[k] = IF k = 0 THEN none ELSE Blend(f[k - 1], k)
    BY <1>6
  <2> QED
    BY <2>1, <2>2
<1> DEFINE P == {k \in Nat : k <= L => \A i \in I : f[k][i] = Holding(S, k, i)}
<1>8. 0 \in P
  <2>1. \A i \in I : Holding(S, 0, i) = {}
    BY DEF Holding
  <2> QED
    BY <1>7, <2>1
<1>9. ASSUME NEW k \in Nat, k \in P PROVE k + 1 \in P
  <2> SUFFICES ASSUME k + 1 <= L, NEW i \in I PROVE f[k + 1][i] = Holding(S, k + 1, i)
    OBVIOUS
  <2> DEFINE w == S[k + 1]
             H == Holding(S, k, i)
  <2>1. k + 1 \in 1 .. L /\ (k + 1) - 1 = k /\ k <= L /\ (k + 1 > 1 <=> k # 0)
    BY <1>3
  <2>2. f[k][i] = H
    BY <1>9, <2>1
  <2>3. w \in Nat /\ i \in Int
    BY <1>3, <2>1 DEF I
  <2>4. f[k + 1][i] = IF i \notin w .. (w + W - 1) THEN H
                      ELSE IF k # 0 /\ i < S[k] + W THEN H \cup {w} ELSE {w}
    <3>1. f[k + 1] = Blend(f[k], k + 1)
      BY <1>7, <2>1
    <3> QED
      BY <2>1, <2>2, <3>1 DEF Blend
  <2>5. Holding(S, k + 1, i) = H \cup {s \in {w} : s <= i /\ i < s + W}
    <3>1. \A j : j \in 1 .. k + 1 <=> j \in 1 .. k \/ j = k + 1
      OBVIOUS
    <3> QED
      BY <2>3, <3>1 DEF Holding, W
  <2>6. i \in w .. (w + W - 1) <=> w <= i /\ i < w + W
    BY <1>3, <2>3
  <2>7. (k = 0 \/ ~ (i < S[k] + W)) => H = {}
    <3> SUFFICES ASSUME k = 0 \/ ~ (i < S[k] + W), NEW s \in H PROVE FALSE
      OBVIOUS
    <3>1. PICK j \in 1 .. k : S[j] = s /\ s <= i /\ i < s + W
      BY DEF Holding, W
    <3>2. k # 0 /\ k \in 1 .. L /\ j \in 1 .. L
      <4>1. L \in Nat /\ k \in Nat /\ k <= L
        BY <1>3, <2>1
      <4> QED
        BY <4>1
    <3>3. S[j] <= S[k] /\ S[j] \in Nat /\ S[k] \in Nat
      BY <1>3, <3>1, <3>2
    <3> QED
      BY <1>3, <2>3, <3>1, <3>2, <3>3
  <2> HIDE DEF w, H
  <2>8. {s \in {w} : s <= i /\ i < s + W} = IF i \in w .. (w + W - 1) THEN {w} ELSE {}
    BY <2>6
  <2> QED
    BY <2>4, <2>5, <2>7, <2>8
<1>10. \A k \in Nat : k \in P
  <2> HIDE DEF P
  <2> QED
    BY <1>8, <1>9, Induction
<1>11. L \in P
  BY <1>3, <1>10
<1>12. \A i \in I : f[L][i] = Holding(S, L, i)
  BY <1>3, <1>11
<1> QED
  BY <1>2, <1>12 DEF f, I, L, S

-----------------------------------------------------------------------------
(* The frames of a clip.                                                      *)

Asked == Spans \cup {Annotation!Full}

\* The timeline of the decoder can give what was asked for.
Decodable(s) == Annotation!Timeline(s) # {} /\ Annotation!Bounded(Annotation!Timeline(s), s)
ClipOf(s)    == Annotation!Frames(Annotation!Timeline(s), s)
Document(c)  == [kind |-> config.kind, step |-> config.step, contract |-> config.contract,
                 span |-> c.span, frames |-> Len(c.ts), chunk |-> config.chunk]
RowOf(c, k)  == [of |-> Annotation!Estimate(Len(c.ts), k - 1), ts |-> c.ts[k], src |-> c.src[k]]

Estimates == [frame : Int, by : SUBSET Nat]
RowSet    == [of : Estimates, ts : Int, src : Int]

LEMMA OptionsAre ==
  ASSUME config \in Configs
  PROVE  /\ config.kind \in {"normal", "depth"} /\ config.step \in Nat \ {0} /\ config.chunk \in Nat \ {0}
         /\ config.max \in Nat
         /\ WindowSize \in Nat \ {0} /\ MinFrames \in Nat \ {0}
  BY AnnotationAssumption

LEMMA TimesAre ==
  ASSUME source \in Sources, NEW P, P \in {source.packets, source.frames}, P # {}
  PROVE  /\ P \subseteq Int /\ Annotation!Min(P) \in P /\ Annotation!Min(P) \in Int
         /\ Annotation!Times(P) \subseteq Nat /\ IsFiniteSet(Annotation!Times(P))
         /\ Annotation!Duration(P) \in Nat \ {0}
<1> DEFINE m == Annotation!Min(P)
           T == {p - m : p \in P}
           f == [p \in P |-> p - m]
<1>1. P \subseteq Int /\ IsFiniteSet(P) /\ source.last \in Nat \ {0}
  BY AnnotationAssumption
<1>2. m \in P /\ m \in Int /\ \A p \in P : m <= p
  BY <1>1, Ends
<1>3. Annotation!Times(P) = T
  BY DEF Annotation!Times
<1> HIDE DEF m
<1>4. T \subseteq Nat /\ T # {}
  <2>1. \A p \in P : p - m \in Nat
    BY <1>1, <1>2
  <2> QED
    BY <1>2, <2>1
<1>5. f \in Surjection(P, T)
  BY DEF Surjection
<1> HIDE DEF f, T
<1>6. IsFiniteSet(T)
  BY <1>1, <1>5, FS_Surjection
<1>7. T \subseteq Int
  BY <1>4
<1>8. Annotation!Max(T) \in T
  BY <1>4, <1>6, <1>7, Ends
<1>9. Annotation!Duration(P) = Annotation!Max(T) + source.last
  BY <1>3 DEF Annotation!Duration
<1>10. Annotation!Max(T) \in Nat
  BY <1>4, <1>8
<1>11. Annotation!Duration(P) \in Nat \ {0}
  BY <1>1, <1>9, <1>10
<1> QED
  BY <1>1, <1>2, <1>3, <1>4, <1>6, <1>11 DEF m

\* The i-th frame is at the i-th time of the grid, and is the nearest one of the span that comes out of the
\* decoder.
LEMMA ClipIs ==
  ASSUME source \in Sources, config \in Configs, NEW s \in Asked, Decodable(s)
  PROVE  LET P == Annotation!Timeline(s)
             c == ClipOf(s)
             n == Len(c.ts)
         IN /\ P \in Annotation!Timelines
            /\ c.span \in Nat \X Nat /\ c.span[1] < c.span[2]
            /\ s = Annotation!Full => c.span = <<0, Annotation!Duration(P)>>
            /\ s # Annotation!Full => c.span = s
            /\ n = Annotation!TickCount(c.span, config.step) /\ n \in Nat \ {0}
            /\ n >= Annotation!Least(config)
            /\ n = Cardinality(Annotation!Ticks(c.span, config.step))
            /\ c.ts \in Seq(Int) /\ c.src \in Seq(Int) /\ Len(c.src) = n
            /\ \A k \in 1 .. n :
                 /\ c.ts[k] = c.span[1] + (k - 1) * config.step
                 /\ c.src[k] + Annotation!Min(P) \in source.frames
                 /\ Annotation!IsNearest({t \in Annotation!Times(P) : c.span[1] <= t /\ t < c.span[2]},
                                         c.src[k], c.ts[k])
<1> DEFINE P == Annotation!Timeline(s)
           c == ClipOf(s)
           r == Annotation!Resolve(P, s)
           C == {t \in Annotation!Times(P) : r[1] <= t /\ t < r[2]}
           g == Annotation!Grid(r, config.step)
           N == Annotation!TickCount(r, config.step)
<1>1. config.step \in Nat \ {0} /\ WindowSize \in Nat \ {0} /\ MinFrames \in Nat \ {0}
  BY OptionsAre
<1>2. P \in {source.packets, source.frames} /\ P # {} /\ Annotation!Bounded(P, s)
  BY DEF Decodable, Annotation!Timeline
<1>3. P \in Annotation!Timelines
  BY <1>2 DEF Annotation!Timelines
<1>4. /\ P \subseteq Int /\ Annotation!Min(P) \in P /\ Annotation!Min(P) \in Int
      /\ Annotation!Times(P) \subseteq Nat /\ IsFiniteSet(Annotation!Times(P))
      /\ Annotation!Duration(P) \in Nat \ {0}
  BY <1>2, TimesAre
<1>5. c = [span |-> r, ts |-> g, src |-> Annotation!Selected(P, r)]
  BY DEF ClipOf, Annotation!Frames
<1>6. r = IF s = Annotation!Full THEN <<0, Annotation!Duration(P)>> ELSE s
  BY DEF Annotation!Resolve
<1>7. N \in Annotation!Least(config) .. config.max /\ C # {}
  BY <1>2 DEF Annotation!Bounded
<1>8. P = source.frames \/ \A t \in Annotation!Range(c.src) : t + Annotation!Min(P) \in source.frames
  BY <1>2 DEF ClipOf, Decodable, Annotation!Timeline, Annotation!Decodes
<1> HIDE DEF P, c, r, N
<1>9. r \in Nat \X Nat /\ r[1] < r[2]
  <2>1. CASE s = Annotation!Full
    <3> DEFINE D == Annotation!Duration(P)
    <3>1. r = <<0, D>> /\ D \in Nat \ {0}
      BY <1>4, <1>6, <2>1
    <3> HIDE DEF D
    <3> QED
      BY <3>1
  <2>2. CASE s # Annotation!Full
    <3>1. r = s /\ s \in Spans
      BY <1>6, <2>2 DEF Asked
    <3> QED
      BY <3>1, AnnotationAssumption
  <2> QED
    BY <2>1, <2>2
<1>10. r \in Int \X Int
  BY <1>9
<1>11. N \in Nat \ {0} /\ Cardinality(Annotation!Ticks(r, config.step)) = N /\ g \in Seq(Int) /\ Len(g) = N
  BY <1>1, <1>9, <1>10, GridIs DEF N
<1>12. \A k \in 1 .. N : g[k] = r[1] + (k - 1) * config.step
  BY DEF Annotation!Grid, N
<1>13. Annotation!Selected(P, r) = [i \in 1 .. N |-> Annotation!NearestFrame(C, g[i])]
  <2>1. DOMAIN g = 1 .. N
    BY <1>11
  <2> QED
    BY <2>1 DEF Annotation!Selected
<1>14. C \subseteq Int /\ IsFiniteSet(C)
  <2>1. C \in SUBSET Annotation!Times(P) /\ C \subseteq Int
    BY <1>4
  <2> HIDE DEF C
  <2> QED
    BY <1>4, <2>1, FS_Subset
<1> HIDE DEF C
<1>15. ASSUME NEW k \in 1 .. N
       PROVE  Annotation!IsNearest(C, c.src[k], g[k]) /\ c.src[k] \in C
  <2>1. g[k] \in Int
    BY <1>11
  <2>2. c.src[k] = Annotation!NearestFrame(C, g[k])
    BY <1>5, <1>13
  <2>3. Annotation!IsNearest(C, c.src[k], g[k])
    BY <1>7, <1>14, <2>1, <2>2, NearestFrameIs
  <2> QED
    BY <2>3 DEF Annotation!IsNearest
<1>16. c.src \in Seq(Int) /\ Len(c.src) = N /\ DOMAIN c.src = 1 .. N
  <2>1. c.src = [i \in 1 .. N |-> c.src[i]]
    BY <1>5, <1>13
  <2>2. \A i \in 1 .. N : c.src[i] \in Int
    BY <1>14, <1>15
  <2> QED
    BY <1>11, <2>1, <2>2
<1>17. ASSUME NEW k \in 1 .. N PROVE c.src[k] + Annotation!Min(P) \in source.frames
  <2>1. CASE P = source.frames
    <3>1. c.src[k] \in Annotation!Times(P)
      BY <1>15 DEF C
    <3>2. PICK p \in P : c.src[k] = p - Annotation!Min(P)
      BY <3>1 DEF Annotation!Times
    <3>3. p \in Int
      BY <1>4
    <3>4. c.src[k] + Annotation!Min(P) = p
      BY <1>4, <3>2, <3>3
    <3> QED
      BY <2>1, <3>4
  <2>2. CASE \A t \in Annotation!Range(c.src) : t + Annotation!Min(P) \in source.frames
    <3>1. c.src[k] \in Annotation!Range(c.src)
      BY <1>16, AnnotationLibrary
    <3> QED
      BY <2>2, <3>1
  <2> QED
    BY <1>8, <2>1, <2>2
<1>18. N >= Annotation!Least(config)
  <2>1. Annotation!Least(config) \in Nat
    BY <1>1 DEF Annotation!Least
  <2> QED
    BY <1>7, <1>11, <2>1
<1>19. c.span = r /\ c.ts = g
  BY <1>5
<1> HIDE DEF g
<1> QED
  BY <1>3, <1>6, <1>9, <1>11, <1>12, <1>15, <1>16, <1>17, <1>18, <1>19 DEF P, c, C, N

\* So each row that is written is right.
LEMMA RowIsRight ==
  ASSUME source \in Sources, config \in Configs, NEW s \in Asked, Decodable(s),
         NEW k \in 1 .. Len(ClipOf(s).ts)
  PROVE  /\ Annotation!Right(Document(ClipOf(s)), k, RowOf(ClipOf(s), k))
         /\ RowOf(ClipOf(s), k) \in RowSet
<1> DEFINE P == Annotation!Timeline(s)
           c == ClipOf(s)
           n == Len(c.ts)
           d == Document(c)
           row == RowOf(c, k)
           C == {t \in Annotation!Times(P) : c.span[1] <= t /\ t < c.span[2]}
           Wd == Annotation!TemporalWindows(n)
<1>1. /\ P \in Annotation!Timelines
      /\ n \in Nat \ {0} /\ n >= Annotation!Least(config)
      /\ c.ts \in Seq(Int) /\ c.src \in Seq(Int) /\ Len(c.src) = n
      /\ c.ts[k] = c.span[1] + (k - 1) * config.step
      /\ c.src[k] + Annotation!Min(P) \in source.frames
      /\ Annotation!IsNearest(C, c.src[k], c.ts[k])
  BY ClipIs
<1>2. config.kind \in {"normal", "depth"} /\ WindowSize \in Nat \ {0}
  BY OptionsAre
<1>3. row = [of |-> Annotation!Estimate(n, k - 1), ts |-> c.ts[k], src |-> c.src[k]]
  BY DEF RowOf
<1>4. d.kind = config.kind /\ d.step = config.step /\ d.span = c.span /\ d.frames = n
  BY DEF Document
<1> DEFINE by == IF config.kind = "normal" THEN Annotation!PredictLatents(n)[k - 1] ELSE {}
<1>5. row.of = [frame |-> k - 1, by |-> by] /\ row.ts = c.ts[k] /\ row.src = c.src[k]
  BY <1>3 DEF Annotation!Estimate
<1> HIDE DEF P, c, n, d, row, by
<1>6. k \in Int /\ k - 1 \in 0 .. (n - 1) /\ k \in 1 .. n
  BY <1>1 DEF n, c
<1>7. config.kind = "normal" =>
        by # {} /\ by = {w \in Annotation!Range(Wd) : w <= k - 1 /\ k - 1 < w + WindowSize} /\ by \subseteq Nat
  <2> SUFFICES ASSUME config.kind = "normal"
               PROVE  /\ by # {} /\ by \subseteq Nat
                      /\ by = {w \in Annotation!Range(Wd) : w <= k - 1 /\ k - 1 < w + WindowSize}
    OBVIOUS
  <2>1. n >= WindowSize
    BY <1>1 DEF Annotation!Least
  <2>2. Tiling(Wd, n)
    BY <1>1, <1>2, <2>1, WindowsTile
  <2>3. by = Holding(Wd, Len(Wd), k - 1)
    <3>1. by = Annotation!PredictLatents(n)[k - 1]
      BY DEF by
    <3> QED
      BY <1>1, <1>2, <1>6, <2>1, <3>1, BlendedIs
  <2>4. Holding(Wd, Len(Wd), k - 1) # {}
    BY <1>1, <1>6, <2>2, WindowsHold
  <2> HIDE DEF Wd
  <2>5. Wd \in Seq(Nat) /\ DOMAIN Wd = 1 .. Len(Wd)
    BY <2>2 DEF Tiling
  <2>6. Annotation!Range(Wd) = {Wd[x] : x \in 1 .. Len(Wd)}
    BY <2>5, AnnotationLibrary
  <2>7. \A w : w \in Annotation!Range(Wd) <=> w \in Nat /\ \E j \in 1 .. Len(Wd) : Wd[j] = w
    BY <2>5, <2>6
  <2>8. Holding(Wd, Len(Wd), k - 1)
          = {w \in Annotation!Range(Wd) : w <= k - 1 /\ k - 1 < w + WindowSize}
    BY <2>7 DEF Holding
  <2>9. by \subseteq Nat
    BY <2>3 DEF Holding
  <2> QED
    BY <2>3, <2>4, <2>8, <2>9
<1>8. row \in RowSet
  <2>1. by \in SUBSET Nat
    <3>1. config.kind # "normal" => by = {}
      BY DEF by
    <3> QED
      BY <1>7, <3>1
  <2>2. c.ts[k] \in Int /\ c.src[k] \in Int
    BY <1>1, <1>6 DEF n
  <2>3. [frame |-> k - 1, by |-> by] \in Estimates
    BY <1>6, <2>1 DEF Estimates
  <2>4. row = [of |-> [frame |-> k - 1, by |-> by], ts |-> c.ts[k], src |-> c.src[k]]
    BY <1>3, <1>5
  <2> QED
    BY <2>2, <2>3, <2>4 DEF RowSet
<1>9. row.of.frame = k - 1 /\ row.of.by = by
  BY <1>5
<1> HIDE DEF Wd
<1>10. \E Q \in Annotation!Timelines :
         /\ row.src + Annotation!Min(Q) \in source.frames
         /\ Annotation!IsNearest({t \in Annotation!Times(Q) : d.span[1] <= t /\ t < d.span[2]}, row.src, row.ts)
  BY <1>1, <1>4, <1>5
<1>11. row.ts = d.span[1] + (k - 1) * d.step
  BY <1>1, <1>4, <1>5
<1>12. d.kind = "normal" =>
         /\ row.of.by # {}
         /\ row.of.by = {w \in Annotation!Range(Annotation!TemporalWindows(d.frames)) :
                           w <= k - 1 /\ k - 1 < w + WindowSize}
  BY <1>4, <1>7, <1>9 DEF Wd
<1>13. Annotation!Right(d, k, row)
  BY <1>9, <1>10, <1>11, <1>12 DEF Annotation!Right
<1> QED
  BY <1>8, <1>13 DEF d, row, c

-----------------------------------------------------------------------------
(* Chunks.                                                                    *)

\* The chunks of n frames: one follows the other, and the last one ends with the frames.
LEMMA ChunksAre ==
  ASSUME NEW n \in Nat \ {0}, NEW chunk \in Nat \ {0}
  PROVE  LET N == Annotation!ChunkCount(n, chunk)
             R(k) == Annotation!RangeOf(k, n, chunk)
         IN /\ N \in Nat \ {0}
            /\ \A k \in 1 .. N :
                 /\ R(k) = <<(k - 1) * chunk, R(k)[2]>>
                 /\ R(k)[1] = (k - 1) * chunk /\ R(k)[1] \in Nat /\ R(k)[2] \in Nat
                 /\ R(k)[1] < R(k)[2] /\ R(k)[2] <= n /\ R(k)[2] <= R(k)[1] + chunk
                 /\ R(k)[2] = n \/ (k < N /\ R(k)[2] = k * chunk)
            /\ R(N)[2] = n
            /\ \A k \in 1 .. N, m \in 1 .. N : k < m => R(k)[2] <= R(m)[1]
            /\ \A j \in Nat : j * chunk < n => j + 1 \in 1 .. N
<1> DEFINE N == Annotation!ChunkCount(n, chunk)
           R(k) == Annotation!RangeOf(k, n, chunk)
<1>1. PICK q \in Nat, o \in 0 .. (chunk - 1) : (n + chunk - 1) \div chunk = q /\ n + chunk - 1 = q * chunk + o
  <2> DEFINE m == n + chunk - 1
  <2>1. m \in Nat
    OBVIOUS
  <2> HIDE DEF m
  <2>2. \E q \in Nat, o \in 0 .. (chunk - 1) : m \div chunk = q /\ m = q * chunk + o
    BY <2>1, Division
  <2> QED
    BY <2>2 DEF m
<1>2. N = q
  BY <1>1 DEF Annotation!ChunkCount
<1> HIDE DEF N
<1>3. q * chunk \in Int /\ n <= q * chunk /\ q * chunk < n + chunk
  <2> DEFINE p == q * chunk
  <2>1. p \in Int /\ n + chunk - 1 = p + o
    BY <1>1
  <2> HIDE DEF p
  <2>2. n <= p /\ p < n + chunk
    BY <2>1
  <2> QED
    BY <2>1, <2>2 DEF p
<1>4. N \in Nat \ {0}
  <2>1. q # 0
    <3> SUFFICES ASSUME q = 0 PROVE FALSE
      OBVIOUS
    <3>1. q * chunk = 0
      OBVIOUS
    <3> QED
      BY <1>3, <3>1
  <2> QED
    BY <1>2, <2>1
<1>5. ASSUME NEW k \in Int
      PROVE  /\ R(k) = <<(k - 1) * chunk, R(k)[2]>> /\ R(k)[1] = (k - 1) * chunk
             /\ R(k)[2] = IF k * chunk <= n THEN k * chunk ELSE n
  <2>1. k * chunk \in Int
    OBVIOUS
  <2>2. Min({k * chunk, n}) = IF k * chunk <= n THEN k * chunk ELSE n
    BY <2>1, LeastOfTwo
  <2>3. Annotation!Min({k * chunk, n}) = IF k * chunk <= n THEN k * chunk ELSE n
    BY <2>2, AnnotationLibrary
  <2> QED
    BY <2>3 DEF Annotation!RangeOf
<1> HIDE DEF R
<1>6. ASSUME NEW k \in 1 .. N
      PROVE  /\ k \in Int /\ (k - 1) * chunk \in Nat /\ k * chunk = (k - 1) * chunk + chunk
             /\ (k - 1) * chunk < n /\ (k < N => k * chunk < n) /\ (k = N => n <= k * chunk)
  <2>1. k \in Int /\ k - 1 \in Nat /\ (k - 1) + 1 = k /\ k - 1 < q
    BY <1>2
  <2>2. (k - 1) * chunk \in Nat
    BY <2>1
  <2>3. ((k - 1) + 1) * chunk = (k - 1) * chunk + chunk
    BY <2>1, Multiples
  <2>4. (k - 1) * chunk + chunk <= q * chunk
    BY <2>1, Multiples
  <2>5. (k - 1) * chunk < n
    <3> DEFINE p == (k - 1) * chunk
               u == q * chunk
    <3>1. p \in Nat /\ u \in Int /\ p + chunk <= u /\ u < n + chunk
      BY <1>3, <2>2, <2>4
    <3> HIDE DEF p, u
    <3>2. p < n
      BY <3>1
    <3> QED
      BY <3>2 DEF p
  <2>6. k < N => k * chunk < n
    <3> DEFINE p == k * chunk
               u == q * chunk
    <3>1. k < N => p + chunk <= u
      BY <1>2, <2>1, Multiples
    <3>2. p \in Int /\ u \in Int /\ u < n + chunk
      BY <1>3, <2>1
    <3> HIDE DEF p, u
    <3>3. k < N => p < n
      BY <3>1, <3>2
    <3> QED
      BY <3>3 DEF p
  <2>7. k = N => n <= k * chunk
    BY <1>2, <1>3
  <2> QED
    BY <2>1, <2>2, <2>3, <2>5, <2>6, <2>7
<1>7. ASSUME NEW k \in 1 .. N
      PROVE  /\ R(k) = <<(k - 1) * chunk, R(k)[2]>>
             /\ R(k)[1] = (k - 1) * chunk /\ R(k)[1] \in Nat /\ R(k)[2] \in Nat
             /\ R(k)[1] < R(k)[2] /\ R(k)[2] <= n /\ R(k)[2] <= R(k)[1] + chunk
             /\ R(k)[2] = n \/ (k < N /\ R(k)[2] = k * chunk)
             /\ k = N => R(k)[2] = n
             /\ k < N => R(k)[2] = k * chunk
  <2> DEFINE p == (k - 1) * chunk
             u == k * chunk
  <2>1. /\ p \in Nat /\ u = p + chunk /\ p < n /\ (k < N => u < n) /\ (k = N => n <= u)
        /\ R(k) = <<p, R(k)[2]>> /\ R(k)[1] = p /\ R(k)[2] = IF u <= n THEN u ELSE n
        /\ k < N \/ k = N
    BY <1>2, <1>5, <1>6
  <2> HIDE DEF p, u
  <2>2. /\ R(k) = <<p, R(k)[2]>>
        /\ R(k)[1] = p /\ R(k)[1] \in Nat /\ R(k)[2] \in Nat
        /\ R(k)[1] < R(k)[2] /\ R(k)[2] <= n /\ R(k)[2] <= R(k)[1] + chunk
        /\ R(k)[2] = n \/ (k < N /\ R(k)[2] = u)
        /\ k = N => R(k)[2] = n
        /\ k < N => R(k)[2] = u
    BY <2>1
  <2> QED
    BY <2>2 DEF p, u
<1>8. R(N)[2] = n
  BY <1>4, <1>7
<1>9. ASSUME NEW k \in 1 .. N, NEW m \in 1 .. N, k < m PROVE R(k)[2] <= R(m)[1]
  <2>1. k < N /\ k \in Int /\ m - 1 \in Int /\ k <= m - 1
    BY <1>2, <1>9
  <2>2. R(k)[2] = k * chunk /\ R(m)[1] = (m - 1) * chunk
    BY <1>7, <2>1
  <2>3. k * chunk <= (m - 1) * chunk
    BY <2>1, Multiples
  <2> QED
    BY <2>2, <2>3
<1>10. ASSUME NEW j \in Nat, j * chunk < n PROVE j + 1 \in 1 .. N
  <2>1. j < q
    <3> SUFFICES ASSUME q <= j PROVE FALSE
      OBVIOUS
    <3>1. q * chunk <= j * chunk
      BY Multiples
    <3>2. j * chunk \in Int
      OBVIOUS
    <3> QED
      BY <1>3, <1>10, <3>1, <3>2
  <2> QED
    BY <1>2, <2>1
<1> QED
  BY <1>4, <1>7, <1>8, <1>9, <1>10 DEF N, R

\* The k-th chunk of a document is in the output, with the right rows.
Stored(d, k) ==
  LET r == Annotation!RangeOf(k, d.frames, d.chunk) IN
  /\ r \in DOMAIN files
  /\ files[r] \in Seq(RowSet) /\ Len(files[r]) = r[2] - r[1]
  /\ \A i \in 1 .. (r[2] - r[1]) : Annotation!Right(d, r[1] + i, files[r][i])

\* Whoever reads all chunks gets all rows, in their places.
LEMMA RowsAre ==
  ASSUME NEW d, d.frames \in Nat \ {0}, d.chunk \in Nat \ {0},
         \A k \in 1 .. Annotation!ChunkCount(d.frames, d.chunk) : Stored(d, k)
  PROVE  /\ Annotation!Readable(d)
         /\ Len(Annotation!Rows(d)) = d.frames
         /\ \A k \in 1 .. d.frames : Annotation!Right(d, k, Annotation!Rows(d)[k])
<1> DEFINE n == d.frames
           N == Annotation!ChunkCount(d.frames, d.chunk)
           R(k) == Annotation!RangeOf(k, d.frames, d.chunk)
           ss == [k \in 1 .. N |-> files[R(k)]]
           A == Seq(RowSet)
           F == [k \in 1 .. N |-> [p \in A |-> p \o ss[k]]]
           Good(k, x) == Annotation!Right(d, k, x)
<1>1. /\ N \in Nat \ {0} /\ n \in Nat \ {0}
      /\ \A k \in 1 .. N : /\ R(k)[1] \in Nat /\ R(k)[2] \in Nat /\ R(k)[1] < R(k)[2]
                           /\ R(k)[2] = n \/ (k < N /\ R(k)[2] = k * d.chunk)
                           /\ R(k)[1] = (k - 1) * d.chunk
      /\ R(N)[2] = n
  BY ChunksAre
<1>2. Annotation!Rows(d) = FlattenSeq(ss)
  BY AnnotationLibrary DEF Annotation!Rows
<1>3. \A k \in 1 .. N : /\ R(k) \in DOMAIN files /\ files[R(k)] \in A /\ Len(files[R(k)]) = R(k)[2] - R(k)[1]
                        /\ \A i \in 1 .. (R(k)[2] - R(k)[1]) : Good(R(k)[1] + i, files[R(k)][i])
  BY DEF Stored
<1>4. Annotation!Readable(d)
  <2>1. \A r \in Annotation!Ranges(d.frames, d.chunk) : \E k \in 1 .. N : r = R(k)
    BY DEF Annotation!Ranges
  <2> QED
    BY <1>3, <2>1 DEF Annotation!Readable
<1>5. \A k \in 1 .. N : R(k)[1] = IF k = 1 THEN 0 ELSE R(k - 1)[2]
  <2> SUFFICES ASSUME NEW k \in 1 .. N PROVE R(k)[1] = IF k = 1 THEN 0 ELSE R(k - 1)[2]
    OBVIOUS
  <2>1. CASE k = 1
    <3>1. (1 - 1) * d.chunk = 0
      OBVIOUS
    <3> QED
      BY <1>1, <2>1, <3>1
  <2>2. CASE k # 1
    <3>1. k - 1 \in 1 .. N /\ k - 1 < k
      BY <1>1, <2>2
    <3>2. R(k - 1)[2] <= R(k)[1] /\ R(k)[1] < R(k)[2] /\ R(k)[2] <= n
      BY <3>1, ChunksAre
    <3>3. R(k - 1)[2] \in Nat /\ R(k)[1] \in Nat /\ R(k)[2] \in Nat
      BY <1>1, <3>1
    <3>4. R(k - 1)[2] # n
      BY <1>1, <3>2, <3>3
    <3>5. R(k - 1)[2] = (k - 1) * d.chunk
      BY <1>1, <3>1, <3>4
    <3> QED
      BY <1>1, <2>2, <3>5
  <2> QED
    BY <2>1, <2>2
<1> HIDE DEF N, R, n, Good
<1>6. PICK f : StepsFrom(f, <<>>, F, N, A)
  <2>1. \A k \in 1 .. N : ss[k] \in A
    BY <1>3
  <2> HIDE DEF ss
  <2>2. \A k \in 1 .. N : \A p \in A : p \o ss[k] \in A
    BY <2>1, ConcatProperties
  <2>3. F \in [1 .. N -> [A -> A]] /\ <<>> \in A
    BY <2>2
  <2> HIDE DEF F, A
  <2> QED
    BY <1>1, <2>3, StepByStep
<1>7. f \in [0 .. N -> A] /\ f[0] = <<>> /\ \A k \in 1 .. N : f[k] = f[k - 1] \o ss[k]
  <2>1. f \in [0 .. N -> A] /\ f[0] = <<>> /\ \A k \in 1 .. N : f[k] = F[k][f[k - 1]]
    BY <1>6 DEF StepsFrom
  <2> SUFFICES ASSUME NEW k \in 1 .. N PROVE f[k] = f[k - 1] \o ss[k]
    BY <2>1
  <2>2. k - 1 \in 0 .. N
    BY <1>1
  <2>3. f[k - 1] \in A
    BY <2>1, <2>2
  <2> HIDE DEF A, ss
  <2> QED
    BY <2>1, <2>3
<1> DEFINE P == {k \in Nat : k <= N =>
                   /\ Len(f[k]) = IF k = 0 THEN 0 ELSE R(k)[2]
                   /\ \A i \in 1 .. Len(f[k]) : Good(i, f[k][i])}
<1>8. 0 \in P
  <2>1. Len(<<>>) = 0 /\ 1 .. 0 = {}
    OBVIOUS
  <2> QED
    BY <1>7, <2>1
<1>9. ASSUME NEW k \in Nat, k \in P PROVE k + 1 \in P
  <2> SUFFICES ASSUME k + 1 <= N
               PROVE  /\ Len(f[k + 1]) = R(k + 1)[2]
                      /\ \A i \in 1 .. Len(f[k + 1]) : Good(i, f[k + 1][i])
    OBVIOUS
  <2> DEFINE a == f[k]
             b == files[R(k + 1)]
  <2>1. k + 1 \in 1 .. N /\ k \in 0 .. N /\ (k + 1) - 1 = k /\ k <= N /\ (k + 1 = 1 <=> k = 0)
    BY <1>1
  <2>2. f[k + 1] = a \o b
    BY <1>7, <2>1
  <2>3. a \in Seq(RowSet) /\ b \in Seq(RowSet)
    BY <1>3, <1>7, <2>1
  <2>4. Len(a) = R(k + 1)[1] /\ \A i \in 1 .. Len(a) : Good(i, a[i])
    BY <1>5, <1>9, <2>1
  <2>5. Len(b) = R(k + 1)[2] - R(k + 1)[1] /\ \A i \in 1 .. Len(b) : Good(R(k + 1)[1] + i, b[i])
    BY <1>3, <2>1
  <2>6. R(k + 1)[1] \in Nat /\ R(k + 1)[2] \in Nat
    BY <1>1, <2>1
  <2> HIDE DEF a, b, P
  <2>7. Len(a \o b) = Len(a) + Len(b) /\ Len(a) \in Nat /\ Len(b) \in Nat
        /\ \A i \in 1 .. Len(a) + Len(b) : (a \o b)[i] = IF i <= Len(a) THEN a[i] ELSE b[i - Len(a)]
    BY <2>3, ConcatProperties
  <2>8. Len(a \o b) = R(k + 1)[2]
    BY <2>4, <2>5, <2>6, <2>7
  <2>9. ASSUME NEW i \in 1 .. Len(a \o b) PROVE Good(i, (a \o b)[i])
    <3>1. CASE i <= Len(a)
      <4>1. i \in 1 .. Len(a) /\ i \in 1 .. Len(a) + Len(b)
        BY <2>7, <3>1
      <4> QED
        BY <2>4, <2>7, <3>1, <4>1
    <3>2. CASE ~ (i <= Len(a))
      <4> DEFINE m == i - Len(a)
      <4>1. m \in 1 .. Len(b) /\ i \in 1 .. Len(a) + Len(b) /\ R(k + 1)[1] + m = i
        BY <2>4, <2>6, <2>7, <3>2
      <4>2. (a \o b)[i] = b[m]
        BY <2>7, <3>2, <4>1
      <4> HIDE DEF m
      <4>3. Good(R(k + 1)[1] + m, b[m])
        BY <2>5, <4>1
      <4> QED
        BY <4>1, <4>2, <4>3
    <3> QED
      BY <3>1, <3>2
  <2> QED
    BY <2>2, <2>8, <2>9
<1>10. N \in P
  <2>1. \A k \in Nat : k \in P
    <3> HIDE DEF P
    <3> QED
      BY <1>8, <1>9, Induction
  <2> QED
    BY <1>1, <2>1
<1>11. Len(f[N]) = n /\ \A i \in 1 .. Len(f[N]) : Good(i, f[N][i])
  BY <1>1, <1>10
<1>12. FlattenSeq(ss) = f[N]
  <2> DEFINE g == [i \in 1 .. N |-> f[i]]
  <2>1. Len(ss) = N /\ \A k \in 1 .. N : ss[k] \in Seq(RowSet)
    BY <1>1, <1>3
  <2>2. ASSUME NEW k \in 1 .. N PROVE g[k] = IF k = 1 THEN ss[k] ELSE g[k - 1] \o ss[k]
    <3>1. g[k] = f[k - 1] \o ss[k]
      BY <1>7
    <3>2. k = 1 => f[k - 1] \o ss[k] = ss[k]
      <4>1. k = 1 => f[k - 1] = <<>>
        BY <1>7
      <4>2. <<>> \o ss[k] = ss[k]
        <5> HIDE DEF ss
        <5> QED
          BY <2>1, ConcatEmptySeq
      <4> QED
        BY <4>1, <4>2
    <3>3. k # 1 => g[k - 1] = f[k - 1]
      BY <1>1
    <3> QED
      BY <3>1, <3>2, <3>3
  <2>3. g = [i \in 1 .. Len(ss) |-> g[i]] /\ N \in 1 .. N
    BY <1>1, <2>1
  <2> HIDE DEF ss, g
  <2>4. FlattenSeq(ss) = g[N]
    BY <1>1, <2>1, <2>2, <2>3, FlattenIs
  <2> QED
    BY <2>3, <2>4 DEF g
<1> QED
  BY <1>2, <1>4, <1>11, <1>12 DEF n, Good

-----------------------------------------------------------------------------
(* The invariant of the annotation.                                           *)

ClipSet == [span : (Nat \X Nat) \cup {Annotation!Full}, ts : Seq(Int), src : Seq(Int)]
CallSet == [span : Asked, clip : ClipSet, count : Nat, held : Seq(Estimates)]

Early  == {"check", "decode", "recheck"}
Late   == {"infer", "write", "flush", "complete"}
AtRest == Annotation!Rest

\* What has been returned is in the files, chunk by chunk, or held as the beginning of the next chunk.
Writing(c, sp) ==
  LET n == Len(c.clip.ts)
      d == Document(c.clip)
      base == c.count - Len(c.held)
      N == Annotation!ChunkCount(n, config.chunk)
  IN /\ base \in Nat /\ c.count <= n
     /\ base = n \/ \E j \in Nat : base = j * config.chunk
     /\ \A k \in 1 .. Len(c.held) : c.held[k] = Annotation!Estimate(n, base + k - 1)
     /\ \A k \in 1 .. N : Annotation!RangeOf(k, n, config.chunk)[2] <= base => Stored(d, k)
     /\ sp = "infer" => Len(c.held) < config.chunk /\ (config.kind = "normal" => c.held = <<>>)
     /\ sp \in {"write", "flush"} =>
          \E k \in 1 .. N : Annotation!RangeOf(k, n, config.chunk) = <<base, c.count>>
     /\ sp = "flush" => c.count = n
     /\ sp = "complete" => base = n

\* A call that has decoded has the clip that all calls for the same have; one that writes is the
\* first to do so, or writes what the record already closes.
CallGood(c, sp) ==
  /\ sp \notin AtRest => (whole <=> c.span = Annotation!Full)
  /\ sp \in Early => c.count = 0 /\ c.held = <<>>
  /\ sp \in Late \cup {"recheck"} => Decodable(c.span) /\ c.clip = ClipOf(c.span)
  /\ sp \in Late => /\ Writing(c, sp)
                    /\ meta = Annotation!NoDoc \/ (whole /\ meta = Document(c.clip))

OneWriter ==
  whole \/ \A a, b \in Annotators : spot[a] \notin AtRest /\ spot[b] \notin AtRest => a = b

Closed ==
  meta # Annotation!NoDoc =>
    /\ meta.frames \in Nat \ {0} /\ meta.chunk \in Nat \ {0}
    /\ meta.frames = Cardinality(Annotation!Ticks(meta.span, meta.step))
    /\ \A k \in 1 .. Annotation!ChunkCount(meta.frames, meta.chunk) : Stored(meta, k)
    /\ whole => \E P \in Annotation!Timelines : meta.span = <<0, Annotation!Duration(P)>>

AnnotationTyped ==
  /\ source \in Sources /\ whole \in BOOLEAN /\ config \in Configs
  /\ spot \in [Annotators -> AtRest \cup Early \cup Late] /\ call \in [Annotators -> CallSet]

AnnotationInv ==
  /\ AnnotationTyped /\ OneWriter /\ Closed /\ Annotation!Answered
  /\ \A a \in Annotators : CallGood(call[a], spot[a])

LEMMA SourceStays ==
  ASSUME source' = source
  PROVE  /\ Annotation!Timelines' = Annotation!Timelines
         /\ \A P : Annotation!Duration(P)' = Annotation!Duration(P)
         /\ \A d, k, row : Annotation!Right(d, k, row)' <=> Annotation!Right(d, k, row)
<1>1. Annotation!Timelines' = Annotation!Timelines
  BY DEF Annotation!Timelines
<1>2. ASSUME NEW P PROVE Annotation!Duration(P)' = Annotation!Duration(P)
  BY DEF Annotation!Duration
<1>3. ASSUME NEW d, NEW k, NEW row PROVE Annotation!Right(d, k, row)' <=> Annotation!Right(d, k, row)
  BY <1>1 DEF Annotation!Right
<1> QED
  BY <1>1, <1>2, <1>3

LEMMA ClipsStay ==
  ASSUME source' = source, config' = config
  PROVE  /\ \A s : /\ Annotation!Timeline(s)' = Annotation!Timeline(s)
                   /\ Decodable(s)' <=> Decodable(s)
                   /\ ClipOf(s)' = ClipOf(s)
         /\ \A c : Document(c)' = Document(c)
         /\ \A n, i : Annotation!Estimate(n, i)' = Annotation!Estimate(n, i)
<1>1. \A P : Annotation!Duration(P)' = Annotation!Duration(P)
  BY SourceStays
<1>2. ASSUME NEW P, NEW s
      PROVE  /\ Annotation!Resolve(P, s)' = Annotation!Resolve(P, s)
             /\ Annotation!Resolves(P, s)' <=> Annotation!Resolves(P, s)
  BY <1>1 DEF Annotation!Resolve, Annotation!Resolves
<1>3. ASSUME NEW P, NEW s PROVE Annotation!Selected(P, s)' = Annotation!Selected(P, s)
  BY DEF Annotation!Selected
<1>4. ASSUME NEW P, NEW s PROVE Annotation!Bounded(P, s)' <=> Annotation!Bounded(P, s)
  BY <1>2 DEF Annotation!Bounded, Annotation!Least
<1>5. ASSUME NEW P, NEW s PROVE Annotation!Frames(P, s)' = Annotation!Frames(P, s)
  <2>1. Annotation!Resolve(P, s)' = Annotation!Resolve(P, s)
    BY <1>2
  <2>2. \A r : Annotation!Selected(P, r)' = Annotation!Selected(P, r)
    BY <1>3
  <2> QED
    BY <2>1, <2>2 DEF Annotation!Frames
<1>6. ASSUME NEW s PROVE Annotation!Timeline(s)' = Annotation!Timeline(s)
  <2>1. Annotation!PacketsAgree' <=> Annotation!PacketsAgree
    BY DEF Annotation!PacketsAgree
  <2>2. ASSUME NEW P PROVE Annotation!Decodes(P, s)' <=> Annotation!Decodes(P, s)
    BY <1>5 DEF Annotation!Decodes
  <2> QED
    BY <1>4, <2>1, <2>2 DEF Annotation!Timeline
<1>7. ASSUME NEW s PROVE (Decodable(s)' <=> Decodable(s)) /\ ClipOf(s)' = ClipOf(s)
  BY <1>4, <1>5, <1>6 DEF Decodable, ClipOf
<1>8. ASSUME NEW c PROVE Document(c)' = Document(c)
  BY DEF Document
<1>9. ASSUME NEW n, NEW i PROVE Annotation!Estimate(n, i)' = Annotation!Estimate(n, i)
  BY DEF Annotation!Estimate
<1> QED
  BY <1>6, <1>7, <1>8, <1>9

LEMMA StoredStays ==
  ASSUME source' = source, files' = files
  PROVE  \A d, k : Stored(d, k)' <=> Stored(d, k)
<1>1. \A d, k, row : Annotation!Right(d, k, row)' <=> Annotation!Right(d, k, row)
  BY SourceStays
<1> QED
  BY <1>1 DEF Stored

\* What is said of a call stays true as long as the chunks of its document stay, and the record is none or
\* that document.
LEMMA CallKeeps ==
  ASSUME UNCHANGED <<source, whole, config>>, NEW c, NEW sp, CallGood(c, sp),
         sp \in Late => /\ \A k : Stored(Document(c.clip), k) => Stored(Document(c.clip), k)'
                        /\ meta' = Annotation!NoDoc \/ (whole /\ meta' = Document(c.clip))
  PROVE  CallGood(c, sp)'
<1>1. /\ source' = source /\ config' = config /\ whole' = whole
  OBVIOUS
<1>2. /\ \A s : (Decodable(s)' <=> Decodable(s)) /\ ClipOf(s)' = ClipOf(s)
      /\ \A d : Document(d)' = Document(d)
      /\ \A n, i : Annotation!Estimate(n, i)' = Annotation!Estimate(n, i)
  BY <1>1, ClipsStay
<1>3. sp \in Late => Writing(c, sp)'
  <2> SUFFICES ASSUME sp \in Late PROVE Writing(c, sp)'
    OBVIOUS
  <2>1. Writing(c, sp)
    BY DEF CallGood
  <2> QED
    BY <1>1, <1>2, <2>1 DEF Writing
<1>4. sp \in Late => meta' = Annotation!NoDoc \/ (whole' /\ meta' = Document(c.clip)')
  BY <1>1, <1>2
<1> QED
  BY <1>1, <1>2, <1>3, <1>4 DEF CallGood, AtRest, Early, Late

\* One actor goes on, and what the others have stays good.
LEMMA Moved ==
  ASSUME AnnotationInv, NEW a \in Annotators,
         NEW to \in AtRest \cup Early \cup Late, NEW c \in CallSet,
         Annotation!Goes(a, to, c), UNCHANGED <<source, whole, config>>,
         whole \/ spot[a] \notin AtRest \/ to \in AtRest \/ \A b \in Annotators : spot[b] \in AtRest,
         CallGood(c, to)', \A b \in Annotators \ {a} : CallGood(call[b], spot[b])',
         Closed', Annotation!Answered'
  PROVE  AnnotationInv'
<1>1. /\ spot' = [spot EXCEPT ![a] = to] /\ call' = [call EXCEPT ![a] = c]
      /\ source' = source /\ whole' = whole /\ config' = config
  BY DEF Annotation!Goes
<1>2. AnnotationTyped /\ OneWriter
  BY DEF AnnotationInv
<1>3. AnnotationTyped'
  BY <1>1, <1>2 DEF AnnotationTyped, AtRest, CallSet, ClipSet, Asked, Estimates, Early, Late
<1>4. spot'[a] = to /\ call'[a] = c /\ \A b \in Annotators \ {a} : spot'[b] = spot[b] /\ call'[b] = call[b]
  BY <1>1, <1>2 DEF AnnotationTyped
<1>5. OneWriter'
  BY <1>1, <1>2, <1>4 DEF OneWriter, AtRest
<1>6. \A b \in Annotators : CallGood(call[b], spot[b])'
  <2> SUFFICES ASSUME NEW b \in Annotators PROVE CallGood(call[b], spot[b])'
    OBVIOUS
  <2>1. CASE b = a
    <3>1. call'[b] = c /\ spot'[b] = to
      BY <1>4, <2>1
    <3> QED
      BY <3>1 DEF CallGood, Writing
  <2>2. CASE b # a
    BY <2>2
  <2> QED
    BY <2>1, <2>2
<1> QED
  BY <1>3, <1>5, <1>6 DEF AnnotationInv

LEMMA ClosedStays ==
  ASSUME Closed, UNCHANGED <<source, whole, files, meta>>
  PROVE  Closed'
<1>1. source' = source /\ whole' = whole /\ files' = files /\ meta' = meta
  OBVIOUS
<1>2. /\ \A d, k : Stored(d, k)' <=> Stored(d, k)
      /\ \A P : Annotation!Duration(P)' = Annotation!Duration(P)
      /\ Annotation!Timelines' = Annotation!Timelines
  BY <1>1, SourceStays, StoredStays
<1> QED
  BY <1>1, <1>2 DEF Closed

\* What was answered stays so under the same record; a task that is answered now has to find it so.
LEMMA AnswersStay ==
  ASSUME Annotation!Answered, UNCHANGED <<source, meta>>,
         \A t \in given' \ given :
           /\ meta # Annotation!NoDoc
           /\ meta.kind = t.config.kind /\ meta.step = t.config.step /\ meta.contract = t.config.contract
           /\ IF t.span = Annotation!Full
              THEN \E P \in Annotation!Timelines : meta.span = <<0, Annotation!Duration(P)>>
              ELSE meta.span = t.span
  PROVE  Annotation!Answered'
<1>1. source' = source /\ meta' = meta
  OBVIOUS
<1>2. /\ \A P : Annotation!Duration(P)' = Annotation!Duration(P)
      /\ Annotation!Timelines' = Annotation!Timelines
  BY <1>1, SourceStays
<1> QED
  BY <1>1, <1>2 DEF Annotation!Answered

\* A step that leaves the output as it is.
LEMMA Still ==
  ASSUME AnnotationInv, NEW a \in Annotators,
         NEW to \in AtRest \cup Early \cup Late, NEW c \in CallSet,
         Annotation!Goes(a, to, c), UNCHANGED <<source, whole, config, files, meta>>,
         whole \/ spot[a] \notin AtRest \/ to \in AtRest \/ \A b \in Annotators : spot[b] \in AtRest,
         CallGood(c, to), Annotation!Answered'
  PROVE  AnnotationInv'
<1>1. source' = source /\ whole' = whole /\ config' = config /\ files' = files /\ meta' = meta
  OBVIOUS
<1>2. \A d, k : Stored(Document(d), k) => Stored(Document(d), k)'
  <2>1. \A d, k : Stored(d, k)' <=> Stored(d, k)
    BY <1>1, StoredStays
  <2>2. \A d : Document(d)' = Document(d)
    BY <1>1, ClipsStay
  <2> QED
    BY <2>1, <2>2
<1>3. ASSUME NEW d, NEW sp, CallGood(d, sp) PROVE CallGood(d, sp)'
  <2>1. sp \in Late => meta = Annotation!NoDoc \/ (whole /\ meta = Document(d.clip))
    BY <1>3 DEF CallGood
  <2> QED
    BY <1>1, <1>2, <1>3, <2>1, CallKeeps
<1>4. CallGood(c, to)'
  BY <1>3
<1>5. ASSUME NEW b \in Annotators \ {a} PROVE CallGood(call[b], spot[b])'
  <2>1. CallGood(call[b], spot[b]) /\ AnnotationTyped
    BY DEF AnnotationInv
  <2>2. call'[b] = call[b] /\ spot'[b] = spot[b]
    BY <2>1 DEF Annotation!Goes, AnnotationTyped
  <2>3. PICK d, sp : d = call[b] /\ sp = spot[b]
    OBVIOUS
  <2>4. CallGood(d, sp)'
    BY <1>3, <2>1, <2>3
  <2>5. call'[b] = d /\ spot'[b] = sp
    BY <2>2, <2>3
  <2> QED
    BY <2>4, <2>5 DEF CallGood, Writing
<1>6. Closed'
  BY <1>1, ClosedStays DEF AnnotationInv
<1> QED
  BY <1>1, <1>4, <1>5, <1>6, Moved

\* A call that ends, without anything written.
LEMMA Left ==
  ASSUME AnnotationInv, NEW a \in Annotators, NEW how \in {"raised", "done"},
         Annotation!Leaves(a, how), UNCHANGED <<source, whole, config, files, meta>>, Annotation!Answered'
  PROVE  AnnotationInv'
<1> DEFINE c == Annotation!Call(Annotation!Full)
<1>1. c \in CallSet
  <2>1. <<>> \in Seq(Int) /\ <<>> \in Seq(Estimates) /\ 0 \in Nat
    OBVIOUS
  <2> QED
    BY <2>1 DEF CallSet, ClipSet, Annotation!Call, Annotation!NoClip, Asked
<1>2. how \in AtRest
  BY DEF AtRest, Annotation!Rest
<1>3. CallGood(c, how)
  BY <1>2 DEF CallGood, AtRest, Annotation!Rest, Early, Late
<1>4. Annotation!Goes(a, how, c)
  BY DEF Annotation!Leaves
<1> HIDE DEF c
<1> QED
  BY <1>1, <1>2, <1>3, <1>4, Still

LEMMA Failed ==
  ASSUME AnnotationInv, NEW a \in Annotators, Annotation!Fails(a), Annotation!Fixed
  PROVE  AnnotationInv'
<1>1. /\ Annotation!Leaves(a, "raised") /\ UNCHANGED <<source, whole, config, files, meta, given>>
  BY DEF Annotation!Fails, Annotation!Fixed
<1>2. Annotation!Answered'
  <2>1. Annotation!Answered /\ given' \ given = {}
    BY <1>1 DEF AnnotationInv
  <2> QED
    BY <1>1, <2>1, AnswersStay
<1> QED
  BY <1>1, <1>2, Left

LEMMA AnnotationBegins ==
  ASSUME Annotation!Init
  PROVE  AnnotationInv
<1> DEFINE c == Annotation!Call(Annotation!Full)
<1>1. c \in CallSet
  <2>1. <<>> \in Seq(Int) /\ <<>> \in Seq(Estimates) /\ 0 \in Nat
    OBVIOUS
  <2> QED
    BY <2>1 DEF CallSet, ClipSet, Annotation!Call, Annotation!NoClip, Asked
<1> HIDE DEF c
<1>2. /\ source \in Sources /\ whole \in BOOLEAN /\ config \in Configs /\ meta = Annotation!NoDoc /\ given = {}
      /\ spot = [b \in Annotators |-> "idle"] /\ call = [b \in Annotators |-> c]
  BY DEF Annotation!Init, c
<1>3. \A b \in Annotators : spot[b] = "idle" /\ call[b] = c
  BY <1>2
<1>4. AnnotationTyped /\ OneWriter
  BY <1>1, <1>2, <1>3 DEF AnnotationTyped, OneWriter, AtRest, Annotation!Rest
<1>5. \A b \in Annotators : CallGood(call[b], spot[b])
  BY <1>3 DEF CallGood, AtRest, Annotation!Rest, Early, Late
<1>6. Closed /\ Annotation!Answered
  BY <1>2 DEF Closed, Annotation!Answered
<1> QED
  BY <1>4, <1>5, <1>6 DEF AnnotationInv

\* A run that starts finds the output of the ones before, under options of its own.
LEMMA RunsAnew ==
  ASSUME AnnotationInv, Annotation!NewRun
  PROVE  AnnotationInv'
<1> DEFINE c == Annotation!Call(Annotation!Full)
<1>1. c \in CallSet
  <2>1. <<>> \in Seq(Int) /\ <<>> \in Seq(Estimates) /\ 0 \in Nat
    OBVIOUS
  <2> QED
    BY <2>1 DEF CallSet, ClipSet, Annotation!Call, Annotation!NoClip, Asked
<1> HIDE DEF c
<1>2. /\ UNCHANGED <<source, whole, files, meta, given>> /\ config' \in Configs
      /\ spot' = [b \in Annotators |-> "idle"] /\ call' = [b \in Annotators |-> c]
  BY DEF Annotation!NewRun, c
<1>3. \A b \in Annotators : spot'[b] = "idle" /\ call'[b] = c
  BY <1>2
<1>4. AnnotationTyped' /\ OneWriter'
  <2>1. source \in Sources /\ whole \in BOOLEAN
    BY DEF AnnotationInv, AnnotationTyped
  <2>2. c \in CallSet'
    BY <1>1 DEF CallSet, ClipSet, Asked, Estimates
  <2> QED
    BY <1>2, <1>3, <2>1, <2>2 DEF AnnotationTyped, OneWriter, AtRest, Annotation!Rest
<1>5. \A b \in Annotators : CallGood(call[b], spot[b])'
  BY <1>3 DEF CallGood, AtRest, Annotation!Rest, Early, Late
<1>6. Closed'
  BY <1>2, ClosedStays DEF AnnotationInv
<1>7. Annotation!Answered'
  <2>1. Annotation!Answered /\ given' \ given = {}
    BY <1>2 DEF AnnotationInv
  <2> QED
    BY <1>2, <2>1, AnswersStay
<1> QED
  BY <1>4, <1>5, <1>6, <1>7 DEF AnnotationInv

LEMMA Taking ==
  ASSUME AnnotationInv, NEW a \in Annotators, NEW s \in Asked, Annotation!Take(a, s)
  PROVE  AnnotationInv'
<1> DEFINE c == Annotation!Call(s)
<1>1. c \in CallSet /\ c.span = s /\ c.count = 0 /\ c.held = <<>>
  <2>1. <<>> \in Seq(Int) /\ <<>> \in Seq(Estimates) /\ 0 \in Nat
    OBVIOUS
  <2> QED
    BY <2>1 DEF CallSet, ClipSet, Annotation!Call, Annotation!NoClip
<1>2. /\ UNCHANGED <<source, whole, config, files, meta, given>>
      /\ whole <=> s = Annotation!Full
      /\ whole \/ \A b \in Annotators : spot[b] \in AtRest
      /\ Annotation!Goes(a, "check", c)
  BY DEF Annotation!Take, Annotation!Goes, AtRest
<1> HIDE DEF c
<1>3. CallGood(c, "check")
  BY <1>1, <1>2 DEF CallGood, Early, Late
<1>4. Annotation!Answered'
  <2>1. Annotation!Answered /\ given' \ given = {}
    BY <1>2 DEF AnnotationInv
  <2> QED
    BY <1>2, <2>1, AnswersStay
<1> QED
  BY <1>1, <1>2, <1>3, <1>4, Still DEF Early

\* What a task is answered with is what it asked for, when the record is of the span the reuse compares.
LEMMA Reusing ==
  ASSUME AnnotationInv, NEW a \in Annotators, NEW s, NEW next \in {"decode", "infer"},
         spot[a] \notin AtRest, Annotation!ReuseCompleted(a, s, next),
         meta = Annotation!NoDoc => CallGood(call[a], next),
         meta # Annotation!NoDoc /\ Annotation!Matches(s) =>
           IF call[a].span = Annotation!Full
           THEN \E P \in Annotation!Timelines : meta.span = <<0, Annotation!Duration(P)>>
           ELSE meta.span = call[a].span
  PROVE  AnnotationInv'
<1>1. Annotation!Fixed /\ UNCHANGED <<source, whole, config>>
  BY DEF Annotation!ReuseCompleted, Annotation!Fixed
<1>2. CASE meta = Annotation!NoDoc /\ Annotation!Goes(a, next, call[a]) /\ UNCHANGED <<files, meta, published, given>>
  <2>1. call[a] \in CallSet /\ next \in AtRest \cup Early \cup Late
    BY DEF AnnotationInv, AnnotationTyped, Early, Late
  <2>2. Annotation!Answered'
    <3>1. Annotation!Answered /\ given' \ given = {}
      BY <1>2 DEF AnnotationInv
    <3> QED
      BY <1>1, <1>2, <3>1, AnswersStay
  <2>3. PICK c : c = call[a]
    OBVIOUS
  <2> QED
    BY <1>1, <1>2, <2>1, <2>2, <2>3, Still
<1>3. CASE meta # Annotation!NoDoc /\ Annotation!Matches(s) /\ Annotation!Leaves(a, "done") /\ Annotation!Refers(a)
           /\ UNCHANGED <<files, meta, published>>
  <2>1. meta.kind = config.kind /\ meta.contract = config.contract /\ meta.step = config.step
    BY <1>3 DEF Annotation!Matches
  <2>2. given' = given \cup {[config |-> config, span |-> call[a].span]}
    BY <1>3 DEF Annotation!Refers
  <2>3. Annotation!Answered'
    <3>1. \A t \in given' \ given : t.config = config /\ t.span = call[a].span
      BY <2>2
    <3> QED
      BY <1>1, <1>3, <2>1, <3>1, AnswersStay DEF AnnotationInv
  <2> QED
    BY <1>1, <1>3, <2>3, Left
<1>4. CASE Annotation!Fails(a)
  BY <1>1, <1>4, Failed
<1> QED
  BY <1>2, <1>3, <1>4 DEF Annotation!ReuseCompleted

LEMMA Checking ==
  ASSUME AnnotationInv, NEW a \in Annotators, Annotation!Check(a)
  PROVE  AnnotationInv'
<1>1. spot[a] = "check" /\ Annotation!ReuseCompleted(a, call[a].span, "decode")
  BY DEF Annotation!Check
<1>2. CallGood(call[a], "check") /\ Closed
  BY <1>1 DEF AnnotationInv
<1>3. CallGood(call[a], "decode") /\ spot[a] \notin AtRest
  BY <1>1, <1>2 DEF CallGood, AtRest, Annotation!Rest, Early, Late
<1>4. whole <=> call[a].span = Annotation!Full
  BY <1>2 DEF CallGood, AtRest, Annotation!Rest
<1>5. meta # Annotation!NoDoc /\ Annotation!Matches(call[a].span) =>
        IF call[a].span = Annotation!Full
        THEN \E P \in Annotation!Timelines : meta.span = <<0, Annotation!Duration(P)>>
        ELSE meta.span = call[a].span
  BY <1>2, <1>4 DEF Closed, Annotation!Matches
<1> QED
  BY <1>1, <1>3, <1>5, Reusing

\* The clip of a call, and its document.
LEMMA Called ==
  ASSUME AnnotationInv, NEW a \in Annotators, spot[a] \in Late \cup {"recheck"}
  PROVE  LET c == call[a]
             n == Len(c.clip.ts)
         IN /\ c \in CallSet /\ c.span \in Asked /\ Decodable(c.span) /\ c.clip = ClipOf(c.span)
            /\ n \in Nat \ {0} /\ n = Cardinality(Annotation!Ticks(c.clip.span, config.step))
            /\ c.clip.span \in Nat \X Nat
            /\ c.span = Annotation!Full =>
                 \E P \in Annotation!Timelines : c.clip.span = <<0, Annotation!Duration(P)>>
            /\ c.span # Annotation!Full => c.clip.span = c.span
            /\ \A i \in 0 .. (n - 1) : Annotation!Estimate(n, i) \in Estimates
            /\ whole <=> c.span = Annotation!Full
            /\ config \in Configs /\ config.chunk \in Nat \ {0} /\ source \in Sources
<1> DEFINE c == call[a]
           n == Len(c.clip.ts)
<1>1. AnnotationTyped /\ CallGood(c, spot[a])
  BY DEF AnnotationInv
<1>2. c \in CallSet /\ source \in Sources /\ config \in Configs
  BY <1>1 DEF AnnotationTyped
<1>3. c.span \in Asked
  BY <1>2 DEF CallSet
<1>4. Decodable(c.span) /\ c.clip = ClipOf(c.span)
  BY <1>1 DEF CallGood
<1>5. whole <=> c.span = Annotation!Full
  BY <1>1 DEF CallGood, AtRest, Annotation!Rest, Late
<1> HIDE DEF c
<1>6. /\ n \in Nat \ {0} /\ n = Cardinality(Annotation!Ticks(c.clip.span, config.step))
      /\ c.clip.span \in Nat \X Nat
      /\ c.span = Annotation!Full =>
           \E P \in Annotation!Timelines : c.clip.span = <<0, Annotation!Duration(P)>>
      /\ c.span # Annotation!Full => c.clip.span = c.span
  BY <1>2, <1>3, <1>4, ClipIs
<1>7. ASSUME NEW i \in 0 .. (n - 1) PROVE Annotation!Estimate(n, i) \in Estimates
  <2>1. i + 1 \in 1 .. Len(ClipOf(c.span).ts) /\ (i + 1) - 1 = i
    BY <1>4, <1>6
  <2>2. RowOf(c.clip, i + 1) \in RowSet
    BY <1>2, <1>3, <1>4, <2>1, RowIsRight
  <2>3. RowOf(c.clip, i + 1).of \in Estimates
    BY <2>2 DEF RowSet
  <2> QED
    BY <2>1, <2>3 DEF RowOf
<1>8. config.chunk \in Nat \ {0}
  BY <1>2, OptionsAre
<1> QED
  BY <1>2, <1>3, <1>4, <1>5, <1>6, <1>7, <1>8 DEF c

LEMMA Rechecking ==
  ASSUME AnnotationInv, NEW a \in Annotators, Annotation!Recheck(a)
  PROVE  AnnotationInv'
<1> DEFINE c == call[a]
           n == Len(c.clip.ts)
<1>1. spot[a] = "recheck" /\ Annotation!ReuseCompleted(a, c.clip.span, "infer")
  BY DEF Annotation!Recheck
<1>2. CallGood(c, "recheck") /\ Closed
  BY <1>1 DEF AnnotationInv
<1>3. /\ c \in CallSet /\ c.span \in Asked /\ Decodable(c.span) /\ c.clip = ClipOf(c.span)
      /\ n \in Nat \ {0} /\ c.clip.span \in Nat \X Nat
      /\ c.span = Annotation!Full => \E P \in Annotation!Timelines : c.clip.span = <<0, Annotation!Duration(P)>>
      /\ c.span # Annotation!Full => c.clip.span = c.span
      /\ whole <=> c.span = Annotation!Full
      /\ config.chunk \in Nat \ {0}
  BY <1>1, Called
<1>4. c.count = 0 /\ c.held = <<>>
  BY <1>2 DEF CallGood, Early
<1>5. Writing(c, "infer")
  <2>1. Len(c.held) = 0 /\ c.count - Len(c.held) = 0 /\ 0 = 0 * config.chunk
    <3>1. Len(<<>>) = 0 /\ 0 - 0 = 0 /\ \A i \in Nat : 0 = 0 * i
      OBVIOUS
    <3>2. config.chunk \in Nat
      BY <1>3
    <3> HIDE DEF c
    <3> QED
      BY <1>4, <3>1, <3>2
  <2>2. \A k \in 1 .. Annotation!ChunkCount(n, config.chunk) :
          ~ (Annotation!RangeOf(k, n, config.chunk)[2] <= 0)
    <3> SUFFICES ASSUME NEW k \in 1 .. Annotation!ChunkCount(n, config.chunk)
                 PROVE  ~ (Annotation!RangeOf(k, n, config.chunk)[2] <= 0)
      OBVIOUS
    <3>1. /\ Annotation!RangeOf(k, n, config.chunk)[1] \in Nat /\ Annotation!RangeOf(k, n, config.chunk)[2] \in Nat
          /\ Annotation!RangeOf(k, n, config.chunk)[1] < Annotation!RangeOf(k, n, config.chunk)[2]
      BY <1>3, ChunksAre
    <3> QED
      BY <3>1
  <2> HIDE DEF c
  <2> QED
    BY <1>3, <1>4, <2>1, <2>2 DEF Writing
<1>6. meta = Annotation!NoDoc => CallGood(c, "infer")
  BY <1>3, <1>5 DEF CallGood, Early
<1>7. c.clip.span # Annotation!Full
  <2>1. \A x \in Nat \X Nat : x # <<>>
    <3>1. \A i, j \in Nat : Len(<<i, j>>) = 2
      OBVIOUS
    <3>2. Len(<<>>) = 0
      OBVIOUS
    <3>3. \A x \in Nat \X Nat : x = <<x[1], x[2]>> /\ x[1] \in Nat /\ x[2] \in Nat
      OBVIOUS
    <3> QED
      BY <3>1, <3>2, <3>3
  <2> QED
    BY <1>3, <2>1 DEF Annotation!Full
<1>8. meta # Annotation!NoDoc /\ Annotation!Matches(c.clip.span) =>
        IF c.span = Annotation!Full
        THEN \E P \in Annotation!Timelines : meta.span = <<0, Annotation!Duration(P)>>
        ELSE meta.span = c.span
  BY <1>3, <1>7 DEF Annotation!Matches
<1>9. spot[a] \notin AtRest
  BY <1>1 DEF AtRest, Annotation!Rest
<1> QED
  BY <1>1, <1>6, <1>8, <1>9, Reusing

LEMMA Decoding ==
  ASSUME AnnotationInv, NEW a \in Annotators, Annotation!Decode(a)
  PROVE  AnnotationInv'
<1> DEFINE s == call[a].span
           P == Annotation!Timeline(s)
           c == [call[a] EXCEPT !.clip = Annotation!Frames(P, s)]
<1>1. spot[a] = "decode" /\ Annotation!Fixed /\ UNCHANGED <<source, whole, config>>
  BY DEF Annotation!Decode, Annotation!Fixed
<1>2. /\ CallGood(call[a], "decode") /\ call[a] \in CallSet /\ s \in Asked
      /\ source \in Sources /\ config \in Configs
  BY <1>1 DEF AnnotationInv, AnnotationTyped, CallSet
<1>3. CASE ~ (P # {} /\ Annotation!Bounded(P, s)) /\ Annotation!Fails(a)
  BY <1>1, <1>3, Failed
<1>4. CASE /\ P # {} /\ Annotation!Bounded(P, s) /\ Annotation!Goes(a, "recheck", c)
           /\ UNCHANGED <<files, meta, published, given>>
  <2>1. Decodable(s)
    BY <1>4 DEF Decodable
  <2>2. ClipOf(s) \in ClipSet
    <3>1. ClipOf(s).span \in Nat \X Nat /\ ClipOf(s).ts \in Seq(Int) /\ ClipOf(s).src \in Seq(Int)
      BY <1>2, <2>1, ClipIs
    <3> QED
      BY <3>1 DEF ClipOf, Annotation!Frames, ClipSet
  <2>3. /\ c \in CallSet /\ c.span = s /\ c.clip = ClipOf(s)
        /\ c.count = call[a].count /\ c.held = call[a].held
    BY <1>2, <2>2 DEF CallSet, ClipOf
  <2> HIDE DEF c
  <2>4. CallGood(c, "recheck")
    BY <1>2, <2>1, <2>3 DEF CallGood, AtRest, Annotation!Rest, Early, Late
  <2>5. Annotation!Answered'
    <3>1. Annotation!Answered /\ given' \ given = {}
      BY <1>4 DEF AnnotationInv
    <3> QED
      BY <1>1, <1>4, <3>1, AnswersStay
  <2>6. spot[a] \notin AtRest /\ "recheck" \in Early
    BY <1>1 DEF AtRest, Annotation!Rest, Early
  <2>7. PICK d : d = c
    OBVIOUS
  <2> QED
    BY <1>1, <1>4, <2>3, <2>4, <2>5, <2>6, <2>7, Still
<1> QED
  BY <1>1, <1>3, <1>4 DEF Annotation!Decode

\* The beginning of a chunk that is not complete, and where the chunk ends.
LEMMA ChunkAt ==
  ASSUME NEW n \in Nat \ {0}, NEW chunk \in Nat \ {0}, NEW base \in Nat, NEW j \in Nat, base = j * chunk, base < n
  PROVE  /\ j + 1 \in 1 .. Annotation!ChunkCount(n, chunk)
         /\ Annotation!RangeOf(j + 1, n, chunk) = <<base, IF base + chunk <= n THEN base + chunk ELSE n>>
<1>1. j + 1 \in 1 .. Annotation!ChunkCount(n, chunk)
  BY ChunksAre
<1>2. (j + 1) * chunk = base + chunk /\ (j + 1) - 1 = j
  BY Multiples
<1>3. base + chunk \in Int
  OBVIOUS
<1>4. Annotation!Min({base + chunk, n}) = IF base + chunk <= n THEN base + chunk ELSE n
  <2>1. Min({base + chunk, n}) = IF base + chunk <= n THEN base + chunk ELSE n
    BY <1>3, LeastOfTwo
  <2> QED
    BY <2>1, AnnotationLibrary
<1> QED
  BY <1>1, <1>2, <1>4 DEF Annotation!RangeOf

LEMMA Inferring ==
  ASSUME AnnotationInv, NEW a \in Annotators, NEW first, Annotation!Infer(a, first)
  PROVE  AnnotationInv'
<1> DEFINE c == call[a]
           n == Len(c.clip.ts)
           due == Annotation!Due(a)
           new == [k \in 1 .. due |-> Annotation!Estimate(n, c.count + k - 1)]
           t == [c EXCEPT !.held = @ \o new, !.count = @ + due]
           to == IF config.kind = "normal" \/ Len(t.held) = config.chunk THEN "write" ELSE "infer"
           base == c.count - Len(c.held)
<1>1. spot[a] = "infer" /\ Annotation!Fixed /\ UNCHANGED <<source, whole, config>>
  BY DEF Annotation!Infer, Annotation!Fixed
<1>2. CASE Annotation!Fails(a)
  BY <1>1, <1>2, Failed
<1>3. CASE /\ first = c.count /\ c.count < n /\ Annotation!Goes(a, to, t)
           /\ UNCHANGED <<files, meta, published, given>>
  <2>1. /\ c \in CallSet /\ n \in Nat \ {0} /\ config.chunk \in Nat \ {0}
        /\ \A i \in 0 .. (n - 1) : Annotation!Estimate(n, i) \in Estimates
    BY <1>1, Called DEF Late
  <2>2. CallGood(c, "infer")
    BY <1>1 DEF AnnotationInv
  <2>3. /\ base \in Nat /\ c.count <= n
        /\ base = n \/ \E j \in Nat : base = j * config.chunk
        /\ \A k \in 1 .. Len(c.held) : c.held[k] = Annotation!Estimate(n, base + k - 1)
        /\ \A k \in 1 .. Annotation!ChunkCount(n, config.chunk) :
             Annotation!RangeOf(k, n, config.chunk)[2] <= base => Stored(Document(c.clip), k)
        /\ Len(c.held) < config.chunk /\ (config.kind = "normal" => c.held = <<>>)
    BY <2>2 DEF CallGood, Writing, Late
  <2>4. c.count \in Nat /\ c.held \in Seq(Estimates) /\ Len(c.held) \in Nat /\ c.clip \in ClipSet /\ c.span \in Asked
    BY <2>1 DEF CallSet
  <2>5. due = IF config.kind = "normal" THEN IF config.chunk <= n - c.count THEN config.chunk ELSE n - c.count ELSE 1
    <3> DEFINE x == config.chunk
               y == n - c.count
    <3>1. x \in Int /\ y \in Int
      BY <2>1, <2>4
    <3> HIDE DEF x, y
    <3>2. Min({x, y}) = IF x <= y THEN x ELSE y
      BY <3>1, LeastOfTwo
    <3>3. Annotation!Min({x, y}) = IF x <= y THEN x ELSE y
      BY <3>2, AnnotationLibrary
    <3>4. due = IF config.kind = "normal" THEN Annotation!Min({x, y}) ELSE 1
      BY DEF x, y, Annotation!Due, Annotation!Count
    <3> QED
      BY <3>3, <3>4 DEF x, y
  <2>6. due \in Nat \ {0} /\ c.count + due <= n
    <3>1. c.count < n
      BY <1>3
    <3> HIDE DEF c, n, due
    <3> QED
      BY <2>1, <2>4, <2>5, <3>1
  <2> DEFINE held == c.held \o new
  <2>7. new \in Seq(Estimates) /\ Len(new) = due
    <3>1. \A k \in 1 .. due : c.count + k - 1 \in 0 .. (n - 1)
      BY <2>1, <2>4, <2>6
    <3>2. \A k \in 1 .. due : Annotation!Estimate(n, c.count + k - 1) \in Estimates
      BY <2>1, <3>1
    <3> HIDE DEF c, n, due
    <3> QED
      BY <2>6, <3>2
  <2>8. /\ held \in Seq(Estimates) /\ Len(held) = Len(c.held) + due
        /\ \A k \in 1 .. Len(held) : held[k] = Annotation!Estimate(n, base + k - 1)
    <3>1. \A k \in 1 .. due : new[k] = Annotation!Estimate(n, c.count + k - 1)
      OBVIOUS
    <3> HIDE DEF c, n, due, new
    <3>2. /\ held \in Seq(Estimates) /\ Len(held) = Len(c.held) + due
          /\ \A k \in 1 .. Len(c.held) + due : held[k] = IF k <= Len(c.held) THEN c.held[k] ELSE new[k - Len(c.held)]
      BY <2>4, <2>7, ConcatProperties
    <3>3. ASSUME NEW k \in 1 .. Len(c.held) + due PROVE held[k] = Annotation!Estimate(n, base + k - 1)
      <4>1. CASE k <= Len(c.held)
        BY <2>3, <2>4, <3>2, <4>1
      <4>2. CASE ~ (k <= Len(c.held))
        <5>1. k - Len(c.held) \in 1 .. due /\ c.count + (k - Len(c.held)) - 1 = base + k - 1
          BY <2>4, <2>6, <4>2
        <5>2. new[k - Len(c.held)] = Annotation!Estimate(n, c.count + (k - Len(c.held)) - 1)
          BY <3>1, <5>1
        <5> QED
          BY <3>2, <4>2, <5>1, <5>2
      <4> QED
        BY <4>1, <4>2
    <3> QED
      BY <3>2, <3>3
  <2>9. t = [c EXCEPT !.held = held, !.count = c.count + due]
    OBVIOUS
  <2>10. /\ t \in CallSet /\ t.span = c.span /\ t.clip = c.clip /\ t.held = held /\ t.count = c.count + due
    <3> DEFINE m == c.count + due
    <3>1. m \in Nat /\ held \in Seq(Estimates)
      <4> HIDE DEF c, n, due, held
      <4> QED
        BY <2>4, <2>6, <2>8
    <3> HIDE DEF c, n, due, new, held, m
    <3>2. c \in [span : Asked, clip : ClipSet, count : Nat, held : Seq(Estimates)]
      BY <2>1 DEF CallSet
    <3>3. t = [span |-> c.span, clip |-> c.clip, count |-> m, held |-> held]
      <4> HIDE DEF t
      <4>1. t = [c EXCEPT !.held = held, !.count = m]
        BY <2>9 DEF m
      <4> QED
        BY <3>2, <4>1
    <3> HIDE DEF t
    <3> QED
      BY <2>4, <3>1, <3>3 DEF CallSet, m
  <2>11. t.count - Len(t.held) = base
    BY <2>4, <2>6, <2>8, <2>10
  <2>12. to = "write" => \E k \in 1 .. Annotation!ChunkCount(n, config.chunk) :
                           Annotation!RangeOf(k, n, config.chunk) = <<base, t.count>>
    <3> SUFFICES ASSUME to = "write"
                 PROVE  \E k \in 1 .. Annotation!ChunkCount(n, config.chunk) :
                          Annotation!RangeOf(k, n, config.chunk) = <<base, t.count>>
      OBVIOUS
    <3>1. base < n
      <4>1. c.count < n
        BY <1>3
      <4> HIDE DEF c, n
      <4> QED
        BY <2>1, <2>4, <4>1
    <3>2. PICK j \in Nat : base = j * config.chunk
      BY <2>1, <2>3, <3>1
    <3>3. /\ j + 1 \in 1 .. Annotation!ChunkCount(n, config.chunk)
          /\ Annotation!RangeOf(j + 1, n, config.chunk)
               = <<base, IF base + config.chunk <= n THEN base + config.chunk ELSE n>>
      BY <2>1, <2>3, <3>1, <3>2, ChunkAt
    <3>4. t.count = IF base + config.chunk <= n THEN base + config.chunk ELSE n
      <4>1. CASE config.kind = "normal"
        <5>1. Len(c.held) = 0
          <6>1. Len(<<>>) = 0
            OBVIOUS
          <6> QED
            BY <2>3, <4>1, <6>1
        <5>2. base = c.count
          BY <2>4, <5>1
        <5> HIDE DEF c, n, due, t, base
        <5> QED
          BY <2>1, <2>4, <2>5, <2>10, <4>1, <5>2
      <4>2. CASE config.kind # "normal"
        <5>1. Len(held) = config.chunk /\ due = 1
          BY <2>5, <2>10, <4>2
        <5>2. t.count = base + config.chunk
          BY <2>1, <2>4, <2>8, <2>10, <5>1
        <5> QED
          BY <2>1, <2>3, <2>6, <2>10, <5>2
      <4> QED
        BY <4>1, <4>2
    <3> QED
      BY <3>3, <3>4
  <2>13. to = "infer" => Len(t.held) < config.chunk /\ config.kind # "normal"
    <3> SUFFICES ASSUME to = "infer" PROVE Len(t.held) < config.chunk /\ config.kind # "normal"
      OBVIOUS
    <3>1. config.kind # "normal" /\ Len(t.held) # config.chunk
      OBVIOUS
    <3>2. due = 1
      BY <2>5, <3>1
    <3>3. Len(t.held) = Len(c.held) + 1
      BY <2>8, <2>10, <3>2
    <3> HIDE DEF c, t, n
    <3> QED
      BY <2>1, <2>3, <2>4, <3>1, <3>3
  <2>14. to \in {"write", "infer"}
    OBVIOUS
  <2>15. t.count <= n /\ Len(t.clip.ts) = n
    BY <2>6, <2>10
  <2> HIDE DEF t, to, base, n, c, due, new, held
  <2>16. Writing(t, to)
    BY <2>3, <2>8, <2>10, <2>11, <2>12, <2>13, <2>14, <2>15 DEF Writing
  <2>17. CallGood(t, to)
    <3>1. t.span = c.span /\ t.clip = c.clip /\ to \in Late /\ to \notin Early /\ to # "recheck" /\ to \notin AtRest
      BY <2>10, <2>14 DEF Early, Late, AtRest, Annotation!Rest
    <3>2. /\ whole <=> c.span = Annotation!Full
          /\ Decodable(c.span) /\ c.clip = ClipOf(c.span)
          /\ meta = Annotation!NoDoc \/ (whole /\ meta = Document(c.clip))
      BY <2>2 DEF CallGood, Late, AtRest, Annotation!Rest
    <3> QED
      BY <2>16, <3>1, <3>2 DEF CallGood
  <2>18. Annotation!Answered'
    <3>1. Annotation!Answered /\ given' \ given = {}
      BY <1>3 DEF AnnotationInv
    <3> QED
      BY <1>1, <1>3, <3>1, AnswersStay
  <2>19. spot[a] \notin AtRest /\ to \in Late
    BY <1>1, <2>14 DEF AtRest, Annotation!Rest, Late
  <2>20. PICK d, sp : d = t /\ sp = to
    OBVIOUS
  <2>21. d \in CallSet /\ sp \in Late /\ CallGood(d, sp) /\ Annotation!Goes(a, sp, d)
    BY <1>3, <2>10, <2>17, <2>19, <2>20
  <2> QED
    BY <1>1, <1>3, <2>18, <2>19, <2>21, Still
<1>4. \/ /\ first = c.count /\ c.count < n /\ Annotation!Goes(a, to, t)
         /\ UNCHANGED <<files, meta, published, given>>
      \/ Annotation!Fails(a)
  <2>1. first = c.count => Annotation!Taken(a, first) = t
    BY DEF Annotation!Taken, Annotation!Count
  <2> HIDE DEF t
  <2> QED
    BY <2>1 DEF Annotation!Infer, Annotation!Count, Annotation!Holds
<1> QED
  BY <1>2, <1>3, <1>4

LEMMA Estimated ==
  ASSUME AnnotationInv, NEW a \in Annotators, Annotation!InferEnds(a)
  PROVE  AnnotationInv'
<1> DEFINE c == call[a]
           n == Len(c.clip.ts)
           to == IF c.held # <<>> THEN "flush" ELSE "complete"
           base == c.count - Len(c.held)
<1>1. spot[a] = "infer" /\ Annotation!Fixed /\ UNCHANGED <<source, whole, config>>
  BY DEF Annotation!InferEnds, Annotation!Fixed
<1>2. CASE Annotation!Fails(a)
  BY <1>1, <1>2, Failed
<1>3. CASE c.count = n /\ Annotation!Goes(a, to, c) /\ UNCHANGED <<files, meta, published, given>>
  <2>1. c \in CallSet /\ n \in Nat \ {0} /\ config.chunk \in Nat \ {0}
    BY <1>1, Called DEF Late
  <2>2. CallGood(c, "infer")
    BY <1>1 DEF AnnotationInv
  <2>3. /\ base \in Nat /\ c.count <= n
        /\ base = n \/ \E j \in Nat : base = j * config.chunk
        /\ \A k \in 1 .. Len(c.held) : c.held[k] = Annotation!Estimate(n, base + k - 1)
        /\ \A k \in 1 .. Annotation!ChunkCount(n, config.chunk) :
             Annotation!RangeOf(k, n, config.chunk)[2] <= base => Stored(Document(c.clip), k)
        /\ Len(c.held) < config.chunk
    BY <2>2 DEF CallGood, Writing, Late
  <2>4. c.held \in Seq(Estimates) /\ Len(c.held) \in Nat
    BY <2>1 DEF CallSet
  <2>5. c.count = n
    BY <1>3
  <2> HIDE DEF c, n
  <2>6. to = "complete" => base = n
    <3>1. to = "complete" => c.held = <<>>
      OBVIOUS
    <3>2. Len(<<>>) = 0
      OBVIOUS
    <3> QED
      BY <2>1, <2>5, <3>1, <3>2
  <2>7. to = "flush" => \E k \in 1 .. Annotation!ChunkCount(n, config.chunk) :
                          Annotation!RangeOf(k, n, config.chunk) = <<base, c.count>>
    <3> SUFFICES ASSUME c.held # <<>>
                 PROVE  \E k \in 1 .. Annotation!ChunkCount(n, config.chunk) :
                          Annotation!RangeOf(k, n, config.chunk) = <<base, c.count>>
      OBVIOUS
    <3>1. Len(c.held) # 0
      BY <2>4, EmptySeq
    <3>2. base < n /\ base + config.chunk > n
      BY <2>1, <2>3, <2>4, <2>5, <3>1
    <3>3. PICK j \in Nat : base = j * config.chunk
      BY <2>1, <2>3, <3>2
    <3>4. /\ j + 1 \in 1 .. Annotation!ChunkCount(n, config.chunk)
          /\ Annotation!RangeOf(j + 1, n, config.chunk)
               = <<base, IF base + config.chunk <= n THEN base + config.chunk ELSE n>>
      BY <2>1, <2>3, <3>2, <3>3, ChunkAt
    <3>5. ~ (base + config.chunk <= n)
      BY <2>1, <2>3, <3>2
    <3> QED
      BY <2>5, <3>4, <3>5
  <2>8. to \in {"flush", "complete"} /\ n = Len(c.clip.ts)
    BY DEF n
  <2> HIDE DEF to, base
  <2>9. Writing(c, to)
    BY <2>3, <2>5, <2>6, <2>7, <2>8 DEF Writing, base
  <2>10. CallGood(c, to)
    <3>1. to \in Late /\ to \notin Early /\ to # "recheck" /\ to \notin AtRest
      BY <2>8 DEF Early, Late, AtRest, Annotation!Rest
    <3>2. /\ whole <=> c.span = Annotation!Full
          /\ Decodable(c.span) /\ c.clip = ClipOf(c.span)
          /\ meta = Annotation!NoDoc \/ (whole /\ meta = Document(c.clip))
      BY <2>2 DEF CallGood, Late, AtRest, Annotation!Rest
    <3> QED
      BY <2>9, <3>1, <3>2 DEF CallGood
  <2>11. Annotation!Answered'
    <3>1. Annotation!Answered /\ given' \ given = {}
      BY <1>3 DEF AnnotationInv
    <3> QED
      BY <1>1, <1>3, <3>1, AnswersStay
  <2>12. spot[a] \notin AtRest /\ to \in Late
    BY <1>1, <2>8 DEF AtRest, Annotation!Rest, Late
  <2>13. PICK d, sp : d = c /\ sp = to
    OBVIOUS
  <2>14. d \in CallSet /\ sp \in Late /\ CallGood(d, sp) /\ Annotation!Goes(a, sp, d)
    BY <1>3, <2>1, <2>10, <2>12, <2>13
  <2> QED
    BY <1>1, <1>3, <2>11, <2>12, <2>14, Still
<1> QED
  BY <1>1, <1>2, <1>3 DEF Annotation!InferEnds, Annotation!Count

\* The rows of the chunk that a call holds.
LEMMA RowsOfAre ==
  ASSUME AnnotationInv, NEW a \in Annotators, spot[a] \in {"write", "flush"}
  PROVE  LET c == call[a]
             r == Annotation!Chunk(c)
             n == Len(c.clip.ts)
             rows == Annotation!RowsOf(c)
         IN /\ r = <<c.count - Len(c.held), c.count>> /\ r[1] \in Nat /\ r[2] \in Nat
            /\ \E k \in 1 .. Annotation!ChunkCount(n, config.chunk) :
                 Annotation!RangeOf(k, n, config.chunk) = r
            /\ rows \in Seq(RowSet) /\ Len(rows) = r[2] - r[1]
            /\ \A i \in 1 .. (r[2] - r[1]) : Annotation!Right(Document(c.clip), r[1] + i, rows[i])
<1> DEFINE c == call[a]
           n == Len(c.clip.ts)
           base == c.count - Len(c.held)
           rows == Annotation!RowsOf(c)
<1>1. /\ c \in CallSet /\ c.span \in Asked /\ Decodable(c.span) /\ c.clip = ClipOf(c.span) /\ n \in Nat \ {0}
      /\ config \in Configs /\ source \in Sources
  BY Called DEF Late
<1>2. CallGood(c, spot[a])
  BY DEF AnnotationInv
<1>3. /\ base \in Nat /\ c.count <= n
      /\ \A k \in 1 .. Len(c.held) : c.held[k] = Annotation!Estimate(n, base + k - 1)
      /\ \E k \in 1 .. Annotation!ChunkCount(n, config.chunk) :
           Annotation!RangeOf(k, n, config.chunk) = <<base, c.count>>
  BY <1>2 DEF CallGood, Writing, Late
<1>4. c.count \in Nat /\ c.held \in Seq(Estimates) /\ Len(c.held) \in Nat /\ DOMAIN c.held = 1 .. Len(c.held)
  BY <1>1 DEF CallSet
<1>5. Annotation!Chunk(c) = <<base, c.count>>
  BY DEF Annotation!Chunk
<1>6. rows = [k \in 1 .. Len(c.held) |->
                [of |-> c.held[k], ts |-> c.clip.ts[base + k], src |-> c.clip.src[base + k]]]
  BY <1>4 DEF Annotation!RowsOf
<1> HIDE DEF c, n, rows
<1>7. ASSUME NEW k \in 1 .. Len(c.held)
      PROVE  rows[k] \in RowSet /\ Annotation!Right(Document(c.clip), base + k, rows[k])
  <2>1. base + k \in 1 .. n
    BY <1>1, <1>3, <1>4
  <2>2. rows[k] = RowOf(c.clip, base + k)
    <3>1. rows[k] = [of |-> c.held[k], ts |-> c.clip.ts[base + k], src |-> c.clip.src[base + k]]
      BY <1>6
    <3>2. c.held[k] = Annotation!Estimate(Len(c.clip.ts), base + k - 1)
      BY <1>3 DEF n
    <3>3. base + k - 1 = (base + k) - 1
      BY <1>3
    <3> HIDE DEF base
    <3> QED
      BY <3>1, <3>2, <3>3 DEF RowOf
  <2>3. base + k \in 1 .. Len(ClipOf(c.span).ts)
    BY <1>1, <2>1 DEF n
  <2>4. Annotation!Right(Document(ClipOf(c.span)), base + k, RowOf(ClipOf(c.span), base + k))
        /\ RowOf(ClipOf(c.span), base + k) \in RowSet
    BY <1>1, <2>3, RowIsRight
  <2> QED
    BY <1>1, <2>2, <2>4
<1>8. rows \in Seq(RowSet) /\ Len(rows) = Len(c.held)
  <2> DEFINE m == Len(c.held)
  <2>1. rows = [k \in 1 .. m |-> rows[k]]
    BY <1>6
  <2>2. \A k \in 1 .. m : rows[k] \in RowSet
    BY <1>7
  <2>3. m \in Nat
    BY <1>4
  <2> HIDE DEF m, base
  <2>4. rows \in Seq(RowSet) /\ Len(rows) = m
    BY <2>1, <2>2, <2>3
  <2> QED
    BY <2>4 DEF m
<1>9. c.count - base = Len(c.held)
  BY <1>3, <1>4
<1> HIDE DEF base
<1> QED
  BY <1>3, <1>4, <1>5, <1>7, <1>8, <1>9 DEF c, n, rows, base

\* Two calls that write at a time write the same document.
LEMMA SameDocument ==
  ASSUME AnnotationInv, NEW a \in Annotators, NEW b \in Annotators, a # b,
         spot[a] \in Late, spot[b] \in Late
  PROVE  whole /\ Document(call[b].clip) = Document(call[a].clip)
<1>1. whole
  BY DEF AnnotationInv, OneWriter, Late, AtRest, Annotation!Rest
<1>2. /\ call[a].span = Annotation!Full /\ call[a].clip = ClipOf(call[a].span)
      /\ call[b].span = Annotation!Full /\ call[b].clip = ClipOf(call[b].span)
  BY <1>1, Called
<1> QED
  BY <1>1, <1>2

LEMMA Opening ==
  ASSUME AnnotationInv, NEW a \in Annotators, Annotation!OpenChunk(a)
  PROVE  AnnotationInv'
<1> DEFINE c == call[a]
           n == Len(c.clip.ts)
           r == Annotation!Chunk(c)
           rows == Annotation!RowsOf(c)
           N == Annotation!ChunkCount(n, config.chunk)
           R(k) == Annotation!RangeOf(k, n, config.chunk)
           t == [c EXCEPT !.held = <<>>]
           to == IF spot[a] = "write" THEN "infer" ELSE "complete"
<1>1. spot[a] \in {"write", "flush"} /\ Annotation!Fixed /\ UNCHANGED <<source, whole, config>>
  BY DEF Annotation!OpenChunk, Annotation!Fixed
<1>2. CASE Annotation!Fails(a)
  BY <1>1, <1>2, Failed
<1>3. CASE /\ files' = [q \in DOMAIN files \cup {r} |-> IF q = r THEN rows ELSE files[q]]
           /\ Annotation!Goes(a, to, t) /\ UNCHANGED <<meta, given>>
  <2>1. /\ c \in CallSet /\ n \in Nat \ {0} /\ config.chunk \in Nat \ {0}
        /\ n = Cardinality(Annotation!Ticks(c.clip.span, config.step))
    BY <1>1, Called DEF Late
  <2>2. CallGood(c, spot[a]) /\ Closed /\ AnnotationTyped /\ OneWriter
    BY DEF AnnotationInv
  <2>3. /\ c.count <= n
        /\ \A k \in 1 .. N : R(k)[2] <= c.count - Len(c.held) => Stored(Document(c.clip), k)
        /\ spot[a] = "flush" => c.count = n
    BY <1>1, <2>2 DEF CallGood, Writing, Late
  <2>4. /\ r = <<c.count - Len(c.held), c.count>> /\ r[1] \in Nat /\ r[2] \in Nat
        /\ \E k \in 1 .. N : R(k) = r
        /\ rows \in Seq(RowSet) /\ Len(rows) = r[2] - r[1]
        /\ \A i \in 1 .. (r[2] - r[1]) : Annotation!Right(Document(c.clip), r[1] + i, rows[i])
    BY <1>1, RowsOfAre
  <2>5. PICK d : d = Document(c.clip)
    OBVIOUS
  <2>6. d.frames = n /\ d.chunk = config.chunk /\ d.step = config.step /\ d.span = c.clip.span
    BY <2>5 DEF Document
  <2>7. \A e, k, row : Annotation!Right(e, k, row)' <=> Annotation!Right(e, k, row)
    BY <1>1, SourceStays
  <2> HIDE DEF c, n, r, rows, N, R, t, to
  <2>8. ASSUME NEW k, Stored(d, k) \/ Annotation!RangeOf(k, d.frames, d.chunk) = r
        PROVE  Stored(d, k)'
    <3> DEFINE q == Annotation!RangeOf(k, d.frames, d.chunk)
    <3>1. files'[r] = rows /\ DOMAIN files' = DOMAIN files \cup {r}
          /\ \A p \in DOMAIN files : p # r => files'[p] = files[p]
      BY <1>3
    <3>2. /\ q \in DOMAIN files'
          /\ files'[q] \in Seq(RowSet) /\ Len(files'[q]) = q[2] - q[1]
          /\ \A i \in 1 .. (q[2] - q[1]) : Annotation!Right(d, q[1] + i, files'[q][i])
      <4>1. CASE q = r
        BY <2>4, <2>5, <3>1, <4>1
      <4>2. CASE q # r
        BY <2>8, <3>1, <4>2 DEF Stored
      <4> QED
        BY <4>1, <4>2
    <3> HIDE DEF q
    <3>3. q' = q
      BY DEF q, Annotation!RangeOf
    <3> QED
      BY <2>7, <3>2 DEF Stored, q, RowSet, Estimates
  <2>9. ASSUME NEW b \in Annotators \ {a} PROVE CallGood(call[b], spot[b])'
    <3>1. PICK e, sp : e = call[b] /\ sp = spot[b]
      OBVIOUS
    <3>2. CallGood(e, sp)
      BY <3>1 DEF AnnotationInv
    <3>3. sp \in Late => /\ \A k : Stored(Document(e.clip), k) => Stored(Document(e.clip), k)'
                         /\ meta' = Annotation!NoDoc \/ (whole /\ meta' = Document(e.clip))
      <4> SUFFICES ASSUME sp \in Late
                   PROVE  /\ \A k : Stored(Document(e.clip), k) => Stored(Document(e.clip), k)'
                          /\ meta' = Annotation!NoDoc \/ (whole /\ meta' = Document(e.clip))
        OBVIOUS
      <4>1. Document(e.clip) = d
        BY <1>1, <2>5, <3>1, SameDocument DEF Late, c
      <4>2. Document(e.clip)' = Document(e.clip)
        BY <1>1, ClipsStay
      <4>3. \A k : Stored(Document(e.clip), k) => Stored(Document(e.clip), k)'
        BY <2>8, <4>1, <4>2
      <4>4. meta' = meta
        BY <1>3
      <4> QED
        BY <3>2, <4>3, <4>4 DEF CallGood
    <3>4. CallGood(e, sp)'
      BY <1>1, <3>2, <3>3, CallKeeps
    <3>5. call'[b] = e /\ spot'[b] = sp
      BY <1>3, <2>2, <3>1 DEF Annotation!Goes, AnnotationTyped
    <3> QED
      BY <3>4, <3>5 DEF CallGood, Writing
  <2>10. t \in CallSet /\ t.held = <<>> /\ t.count = c.count /\ t.clip = c.clip /\ t.span = c.span
    <3>1. t = [c EXCEPT !.held = <<>>] /\ <<>> \in Seq(Estimates)
      BY DEF t
    <3> QED
      BY <2>1, <3>1 DEF CallSet
  <2>11. to = (IF spot[a] = "write" THEN "infer" ELSE "complete") /\ to \in Late
    BY DEF to, Late
  <2>12. PICK k0 \in 1 .. N : R(k0) = r
    BY <2>4
  <2>13. ASSUME NEW k \in 1 .. N, R(k)[2] <= c.count PROVE Stored(d, k)'
    <3>1. R(k) = Annotation!RangeOf(k, d.frames, d.chunk)
      BY <2>6 DEF R
    <3>2. /\ R(k)[1] \in Nat /\ R(k)[2] \in Nat /\ R(k)[1] < R(k)[2]
          /\ R(k0)[1] \in Nat /\ R(k0)[2] \in Nat
          /\ (k < k0 => R(k)[2] <= R(k0)[1]) /\ (k0 < k => R(k0)[2] <= R(k)[1])
      BY <2>1, <2>12, ChunksAre DEF R, N
    <3>3. CASE k = k0
      BY <2>8, <2>12, <3>1, <3>3
    <3>4. CASE k < k0
      BY <2>3, <2>4, <2>5, <2>8, <2>12, <3>2, <3>4
    <3>5. CASE k0 < k
      BY <2>4, <2>12, <2>13, <3>2, <3>5
    <3>6. k \in Int /\ k0 \in Int
      OBVIOUS
    <3> QED
      BY <3>3, <3>4, <3>5, <3>6
  <2>14. c.count \in Nat /\ (c.count = n \/ \E j \in Nat : c.count = j * config.chunk)
    <3> DEFINE chunk == config.chunk
               Rn(k) == Annotation!RangeOf(k, n, chunk)
    <3>1. R(k0)[2] = n \/ R(k0)[2] = k0 * chunk
      <4>1. n \in Nat \ {0} /\ chunk \in Nat \ {0} /\ k0 \in 1 .. Annotation!ChunkCount(n, chunk)
        BY <2>1 DEF N
      <4> HIDE DEF chunk
      <4>2. Rn(k0)[2] = n \/ Rn(k0)[2] = k0 * chunk
        <5> HIDE DEF Rn
        <5>1. Rn(k0)[2] = n \/ (k0 < Annotation!ChunkCount(n, chunk) /\ Rn(k0)[2] = k0 * chunk)
          BY ONLY <4>1, ChunksAre DEF Rn
        <5> QED
          BY <5>1
      <4> QED
        BY <4>2 DEF R, chunk
    <3>2. k0 \in Nat /\ r[2] = c.count
      BY <2>4
    <3> QED
      BY <2>4, <2>12, <3>1, <3>2
  <2>15. PICK e, sp : e = t /\ sp = to
    OBVIOUS
  <2>16. Len(e.clip.ts) = n /\ Len(e.held) = 0 /\ e.count - Len(e.held) = c.count /\ e.count = c.count
    <3>1. Len(<<>>) = 0
      OBVIOUS
    <3> QED
      BY <2>10, <2>14, <2>15, <3>1 DEF n
  <2>17. config' = config /\ Document(e.clip) = d /\ Document(e.clip)' = d
    <3>1. Document(e.clip)' = Document(e.clip)
      BY <1>1, ClipsStay
    <3> QED
      BY <1>1, <2>5, <2>10, <2>15, <3>1
  <2>18. Writing(e, sp)'
    <3> DEFINE base == e.count - Len(e.held)
    <3>1. /\ base \in Nat /\ e.count <= Len(e.clip.ts)
          /\ base = Len(e.clip.ts) \/ \E j \in Nat : base = j * config.chunk
      BY <2>3, <2>14, <2>16
    <3>2. 1 .. Len(e.held) = {}
      BY <2>16
    <3>3. \A k \in 1 .. Annotation!ChunkCount(Len(e.clip.ts), config.chunk) :
            Annotation!RangeOf(k, Len(e.clip.ts), config.chunk)[2] <= base => Stored(d, k)'
      BY <2>13, <2>16 DEF N, R
    <3>4. /\ sp = "infer" => Len(e.held) < config.chunk /\ (config.kind = "normal" => e.held = <<>>)
          /\ sp \notin {"write", "flush"}
          /\ sp = "complete" => base = Len(e.clip.ts)
      BY <1>1, <2>1, <2>3, <2>10, <2>11, <2>15, <2>16
    <3> HIDE DEF base
    <3> QED
      BY <2>17, <3>1, <3>2, <3>3, <3>4 DEF Writing, base
  <2>19. CallGood(e, sp)'
    <3>1. /\ \A s : (Decodable(s)' <=> Decodable(s)) /\ ClipOf(s)' = ClipOf(s)
      BY <1>1, ClipsStay
    <3>2. sp \in Late /\ sp \notin Early /\ sp # "recheck" /\ sp \notin AtRest
      BY <2>11, <2>15 DEF Early, Late, AtRest, Annotation!Rest
    <3>3. /\ whole <=> e.span = Annotation!Full
          /\ Decodable(e.span) /\ e.clip = ClipOf(e.span)
          /\ meta = Annotation!NoDoc \/ (whole /\ meta = d)
      BY <1>1, <2>2, <2>5, <2>10, <2>15 DEF CallGood, Late, AtRest, Annotation!Rest
    <3>4. meta' = meta /\ whole' = whole
      BY <1>1, <1>3
    <3> QED
      BY <2>17, <2>18, <3>1, <3>2, <3>3, <3>4 DEF CallGood, AtRest, Early, Late
  <2>20. Closed'
    <3>1. meta' = meta /\ whole' = whole
      BY <1>1, <1>3
    <3>2. meta # Annotation!NoDoc => meta = d
      BY <1>1, <2>2, <2>5 DEF CallGood, Late
    <3>3. /\ \A P : Annotation!Duration(P)' = Annotation!Duration(P)
          /\ Annotation!Timelines' = Annotation!Timelines
      BY <1>1, SourceStays
    <3>4. \A k : Stored(d, k) => Stored(d, k)'
      BY <2>8
    <3>5. meta # Annotation!NoDoc =>
            \A k \in 1 .. Annotation!ChunkCount(meta.frames, meta.chunk) : Stored(meta, k)'
      <4> SUFFICES ASSUME meta # Annotation!NoDoc,
                          NEW k \in 1 .. Annotation!ChunkCount(meta.frames, meta.chunk)
                   PROVE  Stored(meta, k)'
        OBVIOUS
      <4>1. Stored(d, k) /\ meta' = d
        BY <2>2, <3>1, <3>2 DEF Closed
      <4>2. Stored(d, k)'
        BY <3>4, <4>1
      <4> QED
        BY <4>1, <4>2 DEF Stored
    <3> QED
      BY <2>2, <3>1, <3>3, <3>5 DEF Closed
  <2>21. Annotation!Answered'
    <3>1. Annotation!Answered /\ given' \ given = {}
      BY <1>3 DEF AnnotationInv
    <3> QED
      BY <1>1, <1>3, <3>1, AnswersStay
  <2>22. spot[a] \notin AtRest
    BY <1>1 DEF AtRest, Annotation!Rest
  <2>23. e \in CallSet /\ sp \in AtRest \cup Early \cup Late /\ Annotation!Goes(a, sp, e)
    BY <1>3, <2>10, <2>11, <2>15
  <2> QED
    BY <1>1, <2>9, <2>19, <2>20, <2>21, <2>22, <2>23, Moved
<1> QED
  BY <1>1, <1>2, <1>3 DEF Annotation!OpenChunk

\* The record is the document of what is written, and of what the others are about to write.
LEMMA Completing ==
  ASSUME AnnotationInv, NEW a \in Annotators, Annotation!CompleteClip(a)
  PROVE  AnnotationInv'
<1> DEFINE c == call[a]
           n == Len(c.clip.ts)
           end == Annotation!Call(Annotation!Full)
<1>1. spot[a] = "complete" /\ Annotation!Fixed /\ UNCHANGED <<source, whole, config>>
  BY DEF Annotation!CompleteClip, Annotation!Fixed
<1>2. CASE Annotation!Fails(a)
  BY <1>1, <1>2, Failed
<1>3. CASE /\ meta' = Annotation!Record(c) /\ Annotation!Refers(a) /\ Annotation!Leaves(a, "done")
           /\ UNCHANGED files
  <2>1. /\ c \in CallSet /\ n \in Nat \ {0} /\ config.chunk \in Nat \ {0}
        /\ n = Cardinality(Annotation!Ticks(c.clip.span, config.step))
        /\ c.span = Annotation!Full => \E P \in Annotation!Timelines : c.clip.span = <<0, Annotation!Duration(P)>>
        /\ c.span # Annotation!Full => c.clip.span = c.span
        /\ whole <=> c.span = Annotation!Full
    BY <1>1, Called DEF Late
  <2>2. CallGood(c, "complete") /\ AnnotationTyped /\ Annotation!Answered
    BY <1>1 DEF AnnotationInv
  <2>3. PICK d : d = Document(c.clip)
    OBVIOUS
  <2>4. /\ d.frames = n /\ d.chunk = config.chunk /\ d.step = config.step /\ d.span = c.clip.span
        /\ d.kind = config.kind /\ d.contract = config.contract
    BY <2>3 DEF Document
  <2>5. meta' = d
    BY <1>3, <2>3 DEF Annotation!Record, Document
  <2>6. meta' # Annotation!NoDoc
    <3>1. DOMAIN d = {"kind", "step", "contract", "span", "frames", "chunk"}
      BY <2>3 DEF Document
    <3>2. DOMAIN <<>> = {}
      OBVIOUS
    <3> QED
      BY <2>5, <3>1, <3>2 DEF Annotation!NoDoc
  <2>7. meta = Annotation!NoDoc \/ (whole /\ meta = d)
    BY <2>2, <2>3 DEF CallGood, Late
  <2>8. \A e, k : Stored(e, k)' <=> Stored(e, k)
    BY <1>1, <1>3, StoredStays
  <2>9. /\ \A P : Annotation!Duration(P)' = Annotation!Duration(P)
        /\ Annotation!Timelines' = Annotation!Timelines
    BY <1>1, SourceStays
  <2>10. ASSUME NEW k \in 1 .. Annotation!ChunkCount(n, config.chunk) PROVE Stored(d, k)
    <3>1. /\ c.count - Len(c.held) = n
          /\ Annotation!RangeOf(k, n, config.chunk)[2] <= c.count - Len(c.held) => Stored(d, k)
      BY <2>2, <2>3 DEF CallGood, Writing, Late
    <3>2. Annotation!RangeOf(k, n, config.chunk)[2] <= n
      BY <2>1, ChunksAre
    <3> QED
      BY <3>1, <3>2
  <2>11. Closed'
    <3>1. whole => \E P \in Annotation!Timelines : d.span = <<0, Annotation!Duration(P)>>
      BY <2>1, <2>4
    <3>2. d.frames \in Nat \ {0} /\ d.chunk \in Nat \ {0} /\ d.frames = Cardinality(Annotation!Ticks(d.span, d.step))
      BY <2>1, <2>4
    <3>3. \A k \in 1 .. Annotation!ChunkCount(d.frames, d.chunk) : Stored(d, k)
      BY <2>4, <2>10
    <3>4. \A k \in 1 .. Annotation!ChunkCount(d.frames, d.chunk) : Stored(meta, k)'
      BY <2>5, <2>8, <3>3 DEF Stored
    <3>5. whole' = whole
      BY <1>1
    <3> QED
      BY <2>5, <2>9, <3>1, <3>2, <3>4, <3>5 DEF Closed
  <2>12. Annotation!Answered'
    <3>1. given' = given \cup {[config |-> config, span |-> c.span]}
      BY <1>3 DEF Annotation!Refers
    <3>2. ASSUME NEW t \in given'
          PROVE  /\ d.kind = t.config.kind /\ d.step = t.config.step /\ d.contract = t.config.contract
                 /\ IF t.span = Annotation!Full
                    THEN \E P \in Annotation!Timelines : d.span = <<0, Annotation!Duration(P)>>
                    ELSE d.span = t.span
      <4>1. CASE t \in given
        BY <2>2, <2>7, <4>1 DEF Annotation!Answered
      <4>2. CASE t = [config |-> config, span |-> c.span]
        <5>1. t.config = config /\ t.span = c.span
          BY <4>2
        <5> QED
          BY <2>1, <2>4, <5>1
      <4> QED
        BY <3>1, <4>1, <4>2
    <3> QED
      BY <2>5, <2>6, <2>9, <3>2 DEF Annotation!Answered
  <2>13. ASSUME NEW b \in Annotators \ {a} PROVE CallGood(call[b], spot[b])'
    <3>1. PICK e, sp : e = call[b] /\ sp = spot[b]
      OBVIOUS
    <3>2. CallGood(e, sp)
      BY <3>1 DEF AnnotationInv
    <3>3. sp \in Late => /\ \A k : Stored(Document(e.clip), k) => Stored(Document(e.clip), k)'
                         /\ meta' = Annotation!NoDoc \/ (whole /\ meta' = Document(e.clip))
      <4> SUFFICES ASSUME sp \in Late
                   PROVE  /\ \A k : Stored(Document(e.clip), k) => Stored(Document(e.clip), k)'
                          /\ meta' = Annotation!NoDoc \/ (whole /\ meta' = Document(e.clip))
        OBVIOUS
      <4>1. whole /\ Document(e.clip) = d
        BY <1>1, <2>3, <3>1, SameDocument DEF Late
      <4>2. Document(e.clip)' = Document(e.clip)
        BY <1>1, ClipsStay
      <4>3. \A k : Stored(Document(e.clip), k) => Stored(Document(e.clip), k)'
        BY <2>8, <4>2
      <4> QED
        BY <2>5, <4>1, <4>3
    <3>4. CallGood(e, sp)'
      BY <1>1, <3>2, <3>3, CallKeeps
    <3>5. call'[b] = e /\ spot'[b] = sp
      BY <1>3, <2>2, <3>1 DEF Annotation!Leaves, Annotation!Goes, AnnotationTyped
    <3> QED
      BY <3>4, <3>5 DEF CallGood, Writing
  <2>14. end \in CallSet
    <3>1. <<>> \in Seq(Int) /\ <<>> \in Seq(Estimates) /\ 0 \in Nat
      OBVIOUS
    <3> QED
      BY <3>1 DEF CallSet, ClipSet, Annotation!Call, Annotation!NoClip, Asked
  <2>15. Annotation!Goes(a, "done", end) /\ "done" \in AtRest
    BY <1>3 DEF Annotation!Leaves, AtRest, Annotation!Rest
  <2>16. CallGood(end, "done")'
    BY DEF CallGood, AtRest, Annotation!Rest, Early, Late
  <2> HIDE DEF end
  <2>17. PICK e : e = end
    OBVIOUS
  <2>18. CallGood(e, "done")'
    BY DEF CallGood, AtRest, Annotation!Rest, Early, Late
  <2> QED
    BY <1>1, <2>11, <2>12, <2>13, <2>14, <2>15, <2>17, <2>18, Moved
<1> QED
  BY <1>1, <1>2, <1>3 DEF Annotation!CompleteClip

LEMMA AnnotationGoesOn ==
  ASSUME AnnotationInv, [Annotation!Next]_Annotation!vars
  PROVE  AnnotationInv'
<1>1. CASE Annotation!NewRun
  BY <1>1, RunsAnew
<1>2. ASSUME NEW a \in Annotators, NEW s \in Spans \cup {Annotation!Full}, Annotation!Take(a, s)
      PROVE  AnnotationInv'
  BY <1>2, Taking DEF Asked
<1>3. ASSUME NEW a \in Annotators,
             \/ Annotation!Check(a) \/ Annotation!Decode(a) \/ Annotation!Recheck(a)
             \/ \E first \in Annotation!MayReturn(a) : Annotation!Infer(a, first)
             \/ Annotation!InferEnds(a) \/ Annotation!OpenChunk(a) \/ Annotation!CompleteClip(a)
      PROVE  AnnotationInv'
  BY <1>3, Checking, Decoding, Rechecking, Inferring, Estimated, Opening, Completing
<1>4. CASE UNCHANGED Annotation!vars
  <2>1. /\ UNCHANGED <<source, whole, config, files, meta, given>> /\ spot' = spot /\ call' = call
    BY <1>4 DEF Annotation!vars
  <2>2. /\ AnnotationTyped /\ OneWriter /\ Closed /\ Annotation!Answered
        /\ \A b \in Annotators : CallGood(call[b], spot[b])
    BY DEF AnnotationInv
  <2>3. Closed'
    BY <2>1, <2>2, ClosedStays
  <2>4. Annotation!Answered'
    <3>1. given' \ given = {}
      BY <2>1
    <3> QED
      BY <2>1, <2>2, <3>1, AnswersStay
  <2>5. AnnotationTyped' /\ OneWriter'
    BY <2>1, <2>2 DEF AnnotationTyped, OneWriter, AtRest, CallSet, ClipSet, Asked, Estimates, Early, Late
  <2>6. ASSUME NEW b \in Annotators PROVE CallGood(call[b], spot[b])'
    <3>1. PICK e, sp : e = call[b] /\ sp = spot[b]
      OBVIOUS
    <3>2. CallGood(e, sp)
      BY <2>2, <3>1
    <3>3. sp \in Late => meta = Annotation!NoDoc \/ (whole /\ meta = Document(e.clip))
      BY <3>2 DEF CallGood
    <3>4. \A k : Stored(Document(e.clip), k) => Stored(Document(e.clip), k)'
      <4>1. \A d, k : Stored(d, k)' <=> Stored(d, k)
        BY <2>1, StoredStays
      <4>2. Document(e.clip)' = Document(e.clip)
        BY <2>1, ClipsStay
      <4> QED
        BY <4>1, <4>2
    <3>5. meta' = meta
      BY <2>1
    <3>6. CallGood(e, sp)'
      BY <2>1, <3>2, <3>3, <3>4, <3>5, CallKeeps
    <3>7. call'[b] = e /\ spot'[b] = sp
      BY <2>1, <3>1
    <3> QED
      BY <3>6, <3>7 DEF CallGood, Writing
  <2> QED
    BY <2>3, <2>4, <2>5, <2>6 DEF AnnotationInv
<1> QED
  BY <1>1, <1>2, <1>3, <1>4 DEF Annotation!Next

LEMMA ClosedIsWhole ==
  ASSUME AnnotationInv
  PROVE  AnnotationSound
<1>1. Closed /\ Annotation!Answered
  BY DEF AnnotationInv
<1>2. Annotation!Whole
  <2> SUFFICES ASSUME meta # Annotation!NoDoc
               PROVE  /\ meta.frames = Cardinality(Annotation!Ticks(meta.span, meta.step))
                      /\ Annotation!Readable(meta)
                      /\ Len(Annotation!Rows(meta)) = meta.frames
                      /\ \A k \in 1 .. meta.frames : Annotation!Right(meta, k, Annotation!Rows(meta)[k])
    BY AnnotationLibrary DEF Annotation!Whole
  <2>1. /\ meta.frames \in Nat \ {0} /\ meta.chunk \in Nat \ {0}
        /\ meta.frames = Cardinality(Annotation!Ticks(meta.span, meta.step))
        /\ \A k \in 1 .. Annotation!ChunkCount(meta.frames, meta.chunk) : Stored(meta, k)
    BY <1>1 DEF Closed
  <2> QED
    BY <2>1, RowsAre
<1> QED
  BY <1>1, <1>2 DEF AnnotationSound, Annotation!AnnotationSound

\* Whatever runs and tasks come, under whatever options, and wherever they fail: a completion record closes
\* the right row of each frame of its clip, and what a task was answered with stays what it asked for.
THEOREM AnnotationIsSound == Annotation!Spec => []AnnotationSound
<1>1. Annotation!Init => AnnotationInv
  BY AnnotationBegins
<1>2. AnnotationInv /\ [Annotation!Next]_Annotation!vars => AnnotationInv'
  BY AnnotationGoesOn
<1>3. AnnotationInv => AnnotationSound
  BY ClosedIsWhole
<1> QED
  BY <1>1, <1>2, <1>3, PTL DEF Annotation!Spec
=============================================================================
