------------------------- MODULE SplitStages_proofs -------------------------
(* Parts of the pipelines that MCSplitFlow checks on instances.  The         *)
(* synchronous runners of vllm_caption, for any number of windows and any    *)
(* limit: the types, each caption in its place, and that they keep the       *)
(* promise of CaptionBatch.  The image pipeline, for any images and models:  *)
(* each answer is to its own question, and what is written is sorted and     *)
(* accounted for.  The stages of the split pipeline, for any clips and       *)
(* command lines: they fit together.                                         *)
EXTENDS SplitStages, SequenceLemmas

-----------------------------------------------------------------------------
(* SyncCaptioner                                                           *)

AllRequests == [of : Windows, stage : {1, 2}]

\* The requests under way, wherever they are.
Underway == ToSet(queue) \cup inflight \cup ToSet(finished)

\* Each is in one place, once, and the only one of its window.
OncePlaced ==
  /\ IsInjective(queue) /\ IsInjective(finished) /\ IsFiniteSet(inflight)
  /\ ToSet(queue) \cap inflight = {}
  /\ ToSet(queue) \cap ToSet(finished) = {}
  /\ inflight \cap ToSet(finished) = {}
  /\ \A r, q \in Underway : r.of = q.of => r = q

\* Its id leads to its window, which has no result yet; the answers counted so far
\* are those of the stages before.
RequestHolds(r) ==
  /\ r \in DOMAIN index
  /\ r.of \notin DOMAIN results
  /\ tokens[r.of] = r.stage - 1
  /\ r.stage = 2 => r.of \in twoStage

IndexHolds == \A r \in DOMAIN index : index[r] = r.of

ResultHolds(w) ==
  /\ results[w].of = w
  /\ results[w].stage = LastStage(w)
  /\ tokens[w] = LastStage(w)

CaptionInv ==
  /\ TypeOK
  /\ OncePlaced
  /\ IndexHolds
  /\ \A r \in Underway : RequestHolds(r)
  /\ \A w \in DOMAIN results : ResultHolds(w)
  /\ run = "returned" => DOMAIN results = Windows

LEMMA CaptionInit == Init => CaptionInv
<1> SUFFICES ASSUME Init PROVE CaptionInv
  OBVIOUS
<1> USE SyncAssumption
<1>1. \A w \in Windows : Request(w, 1) \in AllRequests /\ Request(w, 1).of = w /\ Request(w, 1).stage = 1
  BY DEF AllRequests, Request
<1>2. queue \in Seq(AllRequests) /\ DOMAIN queue = Windows /\ \A w \in Windows : queue[w] = Request(w, 1)
  <2>1. queue \in [1 .. N -> AllRequests]
    BY <1>1 DEF Init, Windows
  <2> QED
    BY <2>1, SeqDef DEF Init, Windows
<1>3. ToSet(queue) = {Request(w, 1) : w \in Windows} /\ Underway = ToSet(queue)
  <2>1. ToSet(queue) = {Request(w, 1) : w \in Windows}
    BY <1>2 DEF ToSet
  <2>2. inflight = {} /\ ToSet(finished) = {}
    BY DEF Init, ToSet
  <2> QED
    BY <2>1, <2>2 DEF Underway
<1>4. IsInjective(queue) /\ IsInjective(finished)
  BY <1>1, <1>2 DEF IsInjective, Init
<1>5. IsFiniteSet(inflight)
  BY FS_EmptySet DEF Init
<1>6. DOMAIN index = {Request(w, 1) : w \in Windows} /\ \A r \in DOMAIN index : index[r] = r.of
  BY DEF Init
<1>7. DOMAIN results = {}
  BY DEF Init
<1>8. tokens \in [Windows -> Nat] /\ \A w \in Windows : tokens[w] = 0
  BY DEF Init
<1>9. TypeOK
  <2>1. limit \in 0 .. MaxLimit
    BY DEF Init
  <2>2. DOMAIN index \subseteq AllRequests /\ index \in [DOMAIN index -> Windows]
    BY <1>1, <1>6 DEF Init
  <2>3. results \in [DOMAIN results -> [of : Windows, stage : {1, 2}, text : {"caption", "unknown"}]]
    BY <1>7 DEF Init
  <2> QED
    BY <1>2, <1>7, <1>8, <2>1, <2>2, <2>3 DEF Init, TypeOK, AllRequests
<1>10. OncePlaced
  BY <1>1, <1>3, <1>4, <1>5 DEF OncePlaced, Init, ToSet
<1>11. \A r \in Underway : RequestHolds(r)
  BY <1>1, <1>3, <1>6, <1>7, <1>8 DEF RequestHolds
<1> QED
  BY <1>6, <1>7, <1>9, <1>10, <1>11 DEF CaptionInv, IndexHolds, Init

\* A step that moves requests, or drops some, and leaves the rest alone.
LEMMA MoveKeeps ==
  ASSUME CaptionInv, Underway' \subseteq Underway, OncePlaced',
         queue' \in Seq(AllRequests), inflight' \subseteq AllRequests, finished' \in Seq(AllRequests),
         run' \in {"engine", "step", "handle"},
         UNCHANGED <<call, index, results, tokens>>
  PROVE  CaptionInv'
<1>1. TypeOK'
  BY DEF CaptionInv, TypeOK, AllRequests, call
<1>2. IndexHolds' /\ \A r \in Underway' : RequestHolds(r)'
  BY DEF CaptionInv, IndexHolds, RequestHolds, call
<1>3. \A w \in (DOMAIN results)' : ResultHolds(w)'
  BY DEF CaptionInv, ResultHolds, LastStage, call
<1> QED
  BY <1>1, <1>2, <1>3 DEF CaptionInv

LEMMA CaptionStep ==
  ASSUME CaptionInv, [Next]_vars
  PROVE  CaptionInv'
<1> USE DEF CaptionInv
<1>0. /\ queue \in Seq(AllRequests) /\ finished \in Seq(AllRequests) /\ inflight \subseteq AllRequests
      /\ IsInjective(queue) /\ IsInjective(finished) /\ IsFiniteSet(inflight)
      /\ ToSet(queue) \cap inflight = {} /\ ToSet(queue) \cap ToSet(finished) = {}
      /\ inflight \cap ToSet(finished) = {}
      /\ \A r, q \in Underway : r.of = q.of => r = q
  BY DEF TypeOK, AllRequests, OncePlaced
<1>1. CASE Submit
  <2> DEFINE r == Head(queue)
  <2>1. queue # <<>> /\ queue' = Tail(queue) /\ inflight' = inflight \cup {r} /\ finished' = finished
        /\ run' = "step" /\ UNCHANGED <<call, index, results, tokens>>
    BY <1>1 DEF Submit
  <2>2. /\ r \in AllRequests /\ queue' \in Seq(AllRequests) /\ IsInjective(queue')
        /\ r \notin ToSet(queue') /\ ToSet(queue) = {r} \cup ToSet(queue')
    BY <1>0, <2>1, TakeOnce
  <2>3. IsFiniteSet(inflight') /\ inflight' \subseteq AllRequests
    BY <1>0, <2>1, <2>2, FS_AddElement
  <2> HIDE DEF r
  <2>4. Underway' = Underway
    BY <2>1, <2>2 DEF Underway
  <2>5. OncePlaced'
    BY <1>0, <2>1, <2>2, <2>3, <2>4 DEF OncePlaced
  <2> QED
    BY <1>0, <2>1, <2>2, <2>3, <2>4, <2>5, MoveKeeps
<1>2. CASE SubmitNothing \/ Generated \/ Handled
  <2>1. UNCHANGED <<queue, inflight, finished, call, index, results, tokens>> /\ run' \in {"engine", "step", "handle"}
    BY <1>2 DEF SubmitNothing, Generated, Handled
  <2>2. Underway' = Underway /\ OncePlaced'
    BY <1>0, <2>1 DEF Underway, OncePlaced
  <2> QED
    BY <1>0, <2>1, <2>2, MoveKeeps
<1>3. ASSUME NEW done \in SUBSET inflight, Step(done)
      PROVE  CaptionInv'
  <2>1. finished' \in SetToSeqs(done) /\ inflight' = inflight \ done /\ run' = "handle" /\ queue' = queue
        /\ UNCHANGED <<call, index, results, tokens>>
    BY <1>3 DEF Step
  <2>2. finished' \in Seq(done) /\ IsInjective(finished') /\ ToSet(finished') = done
    BY <1>0, <2>1, ArrangedOnce, FS_Subset
  <2>3. finished' \in Seq(AllRequests)
    BY <1>0, <2>2, SeqMonotonic
  <2>4. IsFiniteSet(inflight')
    BY <1>0, <2>1, FS_Subset
  <2>5. Underway' \subseteq Underway
    BY <2>1, <2>2 DEF Underway
  <2>6. OncePlaced'
    BY <1>0, <2>1, <2>2, <2>4, <2>5 DEF OncePlaced
  <2> QED
    BY <1>0, <2>1, <2>3, <2>5, <2>6, MoveKeeps
<1>4. CASE Generate
  <2> DEFINE n == Smaller(limit, Len(queue))
             a == SubSeq(queue, 1, n)
             b == SubSeq(queue, n + 1, Len(queue))
  <2>1. finished' = finished \o a /\ queue' = b /\ inflight' = inflight /\ run' = run /\ run = "engine"
        /\ UNCHANGED <<call, index, results, tokens>>
    BY <1>4 DEF Generate
  <2>2. n \in 0 .. Len(queue)
    BY <1>0, SyncAssumption DEF TypeOK, Smaller
  <2> HIDE DEF n
  <2>3. /\ a \in Seq(AllRequests) /\ b \in Seq(AllRequests) /\ IsInjective(a) /\ IsInjective(b)
        /\ ToSet(a) \cap ToSet(b) = {} /\ ToSet(a) \cup ToSet(b) = ToSet(queue)
    BY <1>0, <2>2, CutOnce
  <2> HIDE DEF a, b
  <2>4. ToSet(finished) \cap ToSet(a) = {}
    BY <1>0, <2>3
  <2>5. /\ finished \o a \in Seq(AllRequests) /\ IsInjective(finished \o a)
        /\ ToSet(finished \o a) = ToSet(finished) \cup ToSet(a)
    BY <1>0, <2>3, <2>4, ConcatOnce
  <2>6. Underway' = Underway
    BY <2>1, <2>3, <2>5 DEF Underway
  <2>7. OncePlaced'
    BY <1>0, <2>1, <2>3, <2>5, <2>6 DEF OncePlaced
  <2> QED
    BY <1>0, <2>1, <2>3, <2>5, <2>6, <2>7, MoveKeeps
<1> DEFINE r == Head(finished)
<1>5. ASSUME finished # <<>>, finished' = Tail(finished)
      PROVE  /\ r \in AllRequests /\ finished' \in Seq(AllRequests) /\ IsInjective(finished')
             /\ r \notin ToSet(finished') /\ ToSet(finished) = {r} \cup ToSet(finished')
             /\ r \in Underway /\ r.of \in Windows /\ r.stage \in {1, 2}
             /\ r.of \notin DOMAIN results /\ tokens[r.of] = r.stage - 1 /\ index[r] = r.of
             /\ (r.stage = 2 => r.of \in twoStage) /\ r \in DOMAIN index
  <2>1. /\ r \in AllRequests /\ finished' \in Seq(AllRequests) /\ IsInjective(finished')
        /\ r \notin ToSet(finished') /\ ToSet(finished) = {r} \cup ToSet(finished')
    BY <1>0, <1>5, TakeOnce
  <2> HIDE DEF r
  <2>2. r \in Underway
    BY <2>1 DEF Underway
  <2> QED
    BY <2>1, <2>2 DEF RequestHolds, IndexHolds, AllRequests
<1>6. CASE HandleFinal
  <2>1. finished # <<>> /\ finished' = Tail(finished)
    BY <1>6 DEF HandleFinal
  <2>2. PICK text \in {"caption", "unknown"} :
          /\ ~Refines(r) /\ run = "handle" /\ UNCHANGED <<call, run, queue, inflight, index>>
          /\ tokens' = [tokens EXCEPT ![r.of] = @ + 1]
          /\ results' = [j \in DOMAIN results \cup {r.of} |->
                          IF j = r.of THEN [of |-> r.of, stage |-> r.stage, text |-> text] ELSE results[j]]
    <3>1. index[Head(finished)] = Head(finished).of
      BY <1>5, <2>1
    <3> QED
      BY <1>6, <3>1 DEF HandleFinal, Counted
  <2> HIDE DEF r
  <2>3. r.stage = LastStage(r.of)
    BY <1>5, <2>1, <2>2 DEF Refines, LastStage
  <2>4. \A q \in Underway' : q \in Underway /\ q.of # r.of /\ q \in AllRequests
    <3>1. Underway' = Underway \ {r}
      BY <1>0, <1>5, <2>1, <2>2 DEF Underway
    <3>2. Underway \subseteq AllRequests
      BY <1>0, ElementsOf DEF Underway
    <3> QED
      BY <1>0, <1>5, <2>1, <3>1, <3>2
  <2>5. tokens' \in [Windows -> Nat] /\ \A w \in Windows : tokens'[w] = IF w = r.of THEN r.stage ELSE tokens[w]
    BY <1>5, <2>1, <2>2 DEF TypeOK
  <2>6. /\ DOMAIN results' = DOMAIN results \cup {r.of}
        /\ DOMAIN results' \subseteq Windows
        /\ results' \in [DOMAIN results' -> [of : Windows, stage : {1, 2}, text : {"caption", "unknown"}]]
    BY <1>5, <2>1, <2>2 DEF TypeOK
  <2>7. TypeOK'
    BY <1>0, <1>5, <2>1, <2>2, <2>5, <2>6 DEF TypeOK, call, AllRequests
  <2>8. OncePlaced'
    BY <1>0, <1>5, <2>1, <2>2, <2>4 DEF OncePlaced
  <2>9. IndexHolds'
    BY <2>2 DEF IndexHolds
  <2>10. \A q \in Underway' : RequestHolds(q)'
    BY <2>2, <2>4, <2>5, <2>6 DEF RequestHolds, AllRequests, call
  <2>11. \A w \in DOMAIN results' : ResultHolds(w)'
    <3> SUFFICES ASSUME NEW w \in DOMAIN results' PROVE ResultHolds(w)'
      OBVIOUS
    <3>1. LastStage(w)' = LastStage(w) /\ w \in Windows
      BY <2>2, <2>6 DEF LastStage, call
    <3>2. CASE w = r.of
      BY <1>5, <2>1, <2>2, <2>3, <2>5, <3>1, <3>2 DEF ResultHolds
    <3>3. CASE w # r.of
      BY <2>2, <2>5, <2>6, <3>1, <3>3 DEF ResultHolds
    <3> QED
      BY <3>2, <3>3
  <2> QED
    BY <2>2, <2>7, <2>8, <2>9, <2>10, <2>11
<1>7. CASE HandleRefined
  <2> DEFINE refined == Request(r.of, 2)
  <2>1. finished # <<>> /\ finished' = Tail(finished)
    BY <1>7 DEF HandleRefined
  <2>2. /\ Refines(r) /\ run = "handle" /\ UNCHANGED <<call, run, inflight, results>>
        /\ tokens' = [tokens EXCEPT ![r.of] = @ + 1]
        /\ queue' = Append(queue, refined)
        /\ index' = [q \in DOMAIN index \cup {refined} |-> IF q = refined THEN r.of ELSE index[q]]
    <3>1. index[Head(finished)] = Head(finished).of
      BY <1>5, <2>1
    <3> QED
      BY <1>7, <3>1 DEF HandleRefined, Counted
  <2>3. refined \in AllRequests /\ refined.of = r.of /\ refined.stage = 2
    BY <1>5, <2>1 DEF Request, AllRequests
  <2> HIDE DEF r, refined
  <2>4. r.stage = 1 /\ r.of \in twoStage
    BY <2>2 DEF Refines
  <2>5. refined \notin Underway
    BY <1>0, <1>5, <2>1, <2>3, <2>4
  <2>6. queue' \in Seq(AllRequests) /\ IsInjective(queue') /\ ToSet(queue') = ToSet(queue) \cup {refined}
    BY <1>0, <2>2, <2>3, <2>5, AppendOnce DEF Underway
  <2>7. Underway' = (Underway \ {r}) \cup {refined}
    BY <1>0, <1>5, <2>1, <2>2, <2>5, <2>6 DEF Underway
  <2>8. \A q \in Underway' : q = refined \/ (q \in Underway /\ q.of # r.of /\ q \in AllRequests)
    <3>1. Underway \subseteq AllRequests
      BY <1>0, ElementsOf DEF Underway
    <3>2. \A q \in Underway : q.of = r.of => q = r
      BY <1>0, <1>5, <2>1
    <3> QED
      BY <2>7, <3>1, <3>2
  <2>9. tokens' \in [Windows -> Nat] /\ \A w \in Windows : tokens'[w] = IF w = r.of THEN r.stage ELSE tokens[w]
    <3>1. tokens \in [Windows -> Nat] /\ r.of \in Windows /\ tokens[r.of] = 0
      BY <1>5, <2>1, <2>4 DEF TypeOK
    <3> QED
      BY <2>2, <2>4, <3>1
  <2>10. DOMAIN index' = DOMAIN index \cup {refined} /\ \A q \in DOMAIN index' : index'[q] = q.of
    BY <2>2, <2>3 DEF IndexHolds
  <2>11. DOMAIN index' \subseteq AllRequests /\ index' \in [DOMAIN index' -> Windows]
    BY <1>5, <2>1, <2>2, <2>3 DEF TypeOK, AllRequests
  <2>12. TypeOK'
    BY <1>0, <1>5, <2>1, <2>2, <2>6, <2>9, <2>11 DEF TypeOK, call, AllRequests
  <2>13. OncePlaced'
    BY <1>0, <1>5, <2>1, <2>2, <2>3, <2>5, <2>6, <2>8 DEF OncePlaced, Underway
  <2>14. \A q \in Underway' : RequestHolds(q)'
    BY <1>5, <2>1, <2>2, <2>3, <2>4, <2>8, <2>9, <2>10 DEF RequestHolds, AllRequests, call
  <2>15. \A w \in DOMAIN results' : ResultHolds(w)'
    BY <1>5, <2>1, <2>2, <2>9 DEF ResultHolds, LastStage, call, TypeOK
  <2> QED
    BY <2>2, <2>10, <2>12, <2>13, <2>14, <2>15 DEF IndexHolds
<1>8. CASE Return \/ Raise \/ UNCHANGED vars
  <2>1. UNCHANGED <<call, queue, inflight, finished, index, results, tokens>>
    BY <1>8 DEF Return, Raise, vars, call
  <2>2. run' \in {"engine", "step", "handle", "returned", "raised"}
    BY <1>8 DEF Return, Raise, vars, TypeOK
  <2>3. run' = "returned" => DOMAIN results = Windows
    BY <1>8 DEF Return, Raise, vars, TypeOK
  <2>4. Underway' = Underway /\ OncePlaced'
    BY <1>0, <2>1 DEF Underway, OncePlaced
  <2>5. TypeOK'
    BY <2>1, <2>2 DEF TypeOK, call
  <2>6. IndexHolds' /\ \A q \in Underway' : RequestHolds(q)'
    BY <2>1, <2>4 DEF IndexHolds, RequestHolds, call
  <2>7. \A w \in DOMAIN results' : ResultHolds(w)'
    BY <2>1 DEF ResultHolds, LastStage, call
  <2> QED
    BY <2>1, <2>3, <2>4, <2>5, <2>6, <2>7
<1> QED
  BY <1>1, <1>2, <1>3, <1>4, <1>6, <1>7, <1>8 DEF Next, Goes, Steps

LEMMA CaptionInvariant == Spec => []CaptionInv
BY CaptionInit, CaptionStep, PTL DEF Spec

\* The variables of a call have their types: no index, result or count outside its windows.
THEOREM Typing == Spec => []TypeOK
<1>1. CaptionInv => TypeOK
  BY DEF CaptionInv
<1> QED
  BY <1>1, CaptionInvariant, PTL

\* Each place holds the answer of the last stage of its window and counts all its stages,
\* in whatever order requests are finished and refined ones come back.
THEOREM InPlace == Spec => []CaptionsInPlace
<1>1. CaptionInv => CaptionsInPlace
  BY DEF CaptionInv, CaptionsInPlace, ResultHolds
<1> QED
  BY <1>1, CaptionInvariant, PTL

-----------------------------------------------------------------------------
(* The refinement of CaptionBatch.                                           *)

LEMMA PromiseStep ==
  ASSUME CaptionInv, [Next]_vars
  PROVE  [Batch!Next]_(Batch!vars)
<1>1. ASSUME run' = run \/ {run, run'} \subseteq {"engine", "step", "handle"}, results' = results
      PROVE  UNCHANGED Batch!vars
  BY <1>1 DEF Batch!vars, Verdict, State
<1>2. CASE Submit \/ SubmitNothing \/ Generate \/ Generated \/ HandleRefined \/ Handled \/ Steps \/ UNCHANGED vars
  BY <1>1, <1>2 DEF Submit, SubmitNothing, Generate, Generated, HandleRefined, Handled, Steps, Step, vars
<1>3. CASE HandleFinal
  <2> DEFINE r == Head(finished)
  <2>1. index[r] = r.of /\ r.of \in Windows /\ r.of \notin DOMAIN results
    <3>1. finished \in Seq(AllRequests) /\ finished # <<>>
      BY <1>3 DEF HandleFinal, CaptionInv, TypeOK, AllRequests
    <3>2. r \in AllRequests /\ r \in Underway
      <4>1. r = finished[1] /\ 1 \in DOMAIN finished /\ r \in AllRequests
        BY <3>1
      <4> QED
        BY <4>1 DEF Underway, ToSet
    <3> QED
      BY <3>2 DEF CaptionInv, IndexHolds, RequestHolds, AllRequests
  <2>2. PICK w \in Windows : w = r.of /\ w \notin DOMAIN results
    BY <2>1
  <2>3. PICK text \in {"caption", "unknown"} :
          /\ run = "handle" /\ run' = run
          /\ results' = [j \in DOMAIN results \cup {w} |->
                          IF j = w THEN [of |-> r.of, stage |-> r.stage, text |-> text] ELSE results[j]]
    BY <1>3, <2>1, <2>2 DEF HandleFinal
  <2>4. Verdict' = [Verdict EXCEPT ![w] = text]
    <3>1. Verdict'[w] = text
      BY <2>3 DEF Verdict
    <3>2. \A v \in Windows : v # w => Verdict'[v] = Verdict[v]
      BY <2>3 DEF Verdict
    <3> QED
      BY <3>1, <3>2 DEF Verdict
  <2>5. Verdict[w] = "none" /\ State = "running" /\ State' = "running"
    BY <2>2, <2>3 DEF Verdict, State
  <2> QED
    BY <2>4, <2>5 DEF Batch!Next, Batch!Decide
<1>4. CASE Return
  <2>1. Verdict' = Verdict
    BY <1>4 DEF Return, Verdict
  <2>2. State = "running"
    BY <1>4 DEF Return, AtEnd, State
  <2>3. CASE Windows \subseteq DOMAIN results
    <3>1. State' = "returned"
      BY <1>4, <2>3 DEF Return, State
    <3>2. \A w \in Windows : Verdict[w] # "none"
      BY <2>3 DEF Verdict, CaptionInv, TypeOK
    <3> QED
      BY <2>1, <2>2, <3>1, <3>2 DEF Batch!Next, Batch!Return
  <2>4. CASE ~(Windows \subseteq DOMAIN results)
    <3>1. State' = "abandoned"
      BY <1>4, <2>4 DEF Return, State
    <3> QED
      BY <2>1, <2>2, <3>1 DEF Batch!Next, Batch!Abandon
  <2> QED
    BY <2>3, <2>4
<1>5. CASE Raise
  <2>1. Verdict' = Verdict /\ State = "running" /\ State' = "abandoned"
    BY <1>5 DEF Raise, Verdict, State
  <2> QED
    BY <2>1 DEF Batch!Next, Batch!Abandon
<1> QED
  BY <1>2, <1>3, <1>4, <1>5 DEF Next, Goes

\* vllm_caption decides the windows one by one and returns when all are decided, as the
\* asynchronous captioner does.
THEOREM SyncKeepsPromise == Spec => KeepsPromise
<1>1. Init => Batch!Init
  BY DEF Init, Batch!Init, Verdict, State
<1>2. CaptionInv /\ [Next]_vars => [Batch!Next]_(Batch!vars)
  BY PromiseStep
<1> QED
  BY <1>1, <1>2, CaptionInvariant, PTL DEF Spec, KeepsPromise, Batch!Spec

-----------------------------------------------------------------------------
(* ImageAnnotate: an answer is about its own question, and what is written is *)
(* sorted by the answers and accounted for, for any images and models.        *)

\* How many stages ask a model, and how many ask it and judge the answer.
AskSize(m)   == IF m = "off" THEN 0 ELSE IF m \in {"vllm", "openai"} THEN 2 ELSE 1
JudgeSize(m) == IF m = "off" THEN 0 ELSE AskSize(m) + 1

\* Where the stages of each part of the pipeline end.
SemanticEnd   == 1 + JudgeSize(setup.semantic)
ClassifierEnd == SemanticEnd + JudgeSize(setup.classifier)
EmbedEnd      == ClassifierEnd + IF setup.embed THEN 1 ELSE 0
CaptionEnd    == EmbedEnd + AskSize(setup.caption)

\* The place of the stage that asks the model.
AskAt(p) == IF p = "semantic" THEN 1 + AskSize(setup.semantic)
            ELSE IF p = "classifier" THEN SemanticEnd + AskSize(setup.classifier)
            ELSE CaptionEnd

Fields == {"data", "frames", "filtered", "embedded", "errors", "answers", "status", "inputs"}

\* An image is a record with an answer, a status and a request to each of its questions.
IsImage(r) ==
  /\ r = [w \in Fields |-> r[w]]
  /\ r.data \in BOOLEAN /\ r.filtered \in BOOLEAN
  /\ r.answers = [p \in Image!Purposes |-> r.answers[p]] /\ r.status = [p \in Image!Purposes |-> r.status[p]]
  /\ r.inputs = [m \in {"vllm", "openai"} |-> r.inputs[m]]

Passed(r, p) ==
  \/ ~Image!Asked(p)
  \/ r.answers[p].says = "pass"
  \/ p = "semantic" /\ setup.scoreOnly
  \/ p = "classifier" /\ r.answers[p].says = "malformed" /\ ~setup.allow

\* A request stands on an image from its prep stage to the next one, which asks.
RequestsHold(r, k) ==
  /\ \A m \in {"vllm", "openai"} : r.inputs[m] # "none" =>
       ~r.filtered /\ \E p \in Image!Purposes : r.inputs[m] = p /\ Image!Model(p) = m /\ k = AskAt(p)
  /\ Image!Model("caption") \in {"vllm", "openai"} /\ k = AskAt("caption") /\ ~r.filtered =>
       r.inputs[Image!Model("caption")] = "caption" \/ "caption_prep" \in r.errors

AnswersHold(r, k) ==
  \A p \in Image!Purposes :
    /\ ~Image!Asked(p) \/ k <= AskAt(p) => r.answers[p] = Image!NoAnswer /\ r.status[p] = "none"
    /\ r.answers[p] # Image!NoAnswer =>
         /\ r.status[p] = "success" /\ r.answers[p].about \in {p, "raw"}
         /\ Image!Model(p) = "vllm" => r.answers[p].about = p
         /\ Image!Model(p) \in {"raw", "gemini"} => r.answers[p].about = "raw"

FilterHolds(r, k) ==
  /\ k <= SemanticEnd => ~r.filtered
  /\ k > SemanticEnd /\ k <= ClassifierEnd => (r.filtered <=> ~Passed(r, "semantic"))
  /\ k > ClassifierEnd => (r.filtered <=> ~(Passed(r, "semantic") /\ Passed(r, "classifier")))
  /\ k > SemanticEnd /\ ~Passed(r, "semantic") => r.status["classifier"] = "none"
  /\ k > ClassifierEnd /\ r.filtered => r.status["caption"] = "none"

ReasonsHold(r, k) ==
  /\ k > 1 => r.data \/ "download" \in r.errors
  /\ k > SemanticEnd /\ Image!Asked("semantic") /\ r.status["semantic"] = "none" =>
       Image!Model("semantic") \in r.errors
  /\ k > ClassifierEnd /\ Image!Asked("classifier") /\ r.status["classifier"] = "none" /\ Passed(r, "semantic") =>
       Image!Model("classifier") \in r.errors
  /\ k > EmbedEnd /\ setup.embed => r.embedded \/ "embedding" \in r.errors
  /\ k > CaptionEnd /\ Image!Asked("caption") /\ ~r.filtered =>
       r.status["caption"] # "none" \/ "caption_prep" \in r.errors

\* What an image carries before stage k.
CarriesAt(r, k) ==
  /\ IsImage(r) /\ k \in 1 .. CaptionEnd + 4
  /\ RequestsHold(r, k) /\ AnswersHold(r, k) /\ FilterHolds(r, k) /\ ReasonsHold(r, k)

\* The files of an image, by the stages of the writer that it has passed.
FilesHold(x) ==
  /\ at[x] \in {CaptionEnd + 2, CaptionEnd + 3} => images[x].data
  /\ at[x] > CaptionEnd + 1 /\ images[x].data => <<Image!Directory(x), x>> \in files
  /\ at[x] > CaptionEnd + 2 /\ images[x].data => metas[x] = Image!Directory(x)
  /\ at[x] > CaptionEnd + 3 /\ images[x].data /\ images[x].embedded => x \in npys

ImageInv ==
  /\ setup \in Setups /\ taken \subseteq Image!All
  /\ images = [x \in Image!All |-> images[x]] /\ at = [x \in Image!All |-> at[x]]
  /\ metas = [x \in Image!All |-> metas[x]]
  /\ \A x \in Image!All : CarriesAt(images[x], at[x]) /\ FilesHold(x)
  /\ \A x \in Image!All : metas[x] # Image!NoMeta => <<metas[x], x>> \in files
  /\ phase = "finished" => \A x \in taken : at[x] > CaptionEnd + 3

LEMMA SetupIs ==
  ASSUME setup \in Setups
  PROVE  /\ setup.semantic \in {"off", "vllm", "openai", "gemini"}
         /\ setup.classifier \in {"off", "vllm", "openai", "gemini"}
         /\ setup.caption \in {"off", "vllm", "openai", "gemini", "raw"}
         /\ setup.n \in Nat /\ setup.embed \in BOOLEAN /\ setup.scoreOnly \in BOOLEAN /\ setup.allow \in BOOLEAN
<1>1. setup \in [n : Nat, limit : Nat, semantic : {"off", "vllm", "openai", "gemini"},
                 classifier : {"off", "vllm", "openai", "gemini"}, scoreOnly : BOOLEAN, allow : BOOLEAN,
                 embed : BOOLEAN, caption : {"off", "vllm", "openai", "gemini", "raw"}]
  BY ImageAssumption
<1> QED
  BY <1>1

\* The places of the stages, one after the other.
LEMMA Places3 ==
  ASSUME setup \in Setups
  PROVE  /\ SemanticEnd \in Nat /\ ClassifierEnd \in Nat /\ EmbedEnd \in Nat /\ CaptionEnd \in Nat
         /\ 1 <= SemanticEnd /\ SemanticEnd <= ClassifierEnd /\ ClassifierEnd <= EmbedEnd /\ EmbedEnd <= CaptionEnd
         /\ \A p \in Image!Purposes : AskAt(p) \in Nat
         /\ Image!Asked("semantic") => 1 < AskAt("semantic") /\ AskAt("semantic") + 1 = SemanticEnd
         /\ ~Image!Asked("semantic") => SemanticEnd = 1
         /\ Image!Asked("classifier") => SemanticEnd < AskAt("classifier") /\ AskAt("classifier") + 1 = ClassifierEnd
         /\ ~Image!Asked("classifier") => ClassifierEnd = SemanticEnd
         /\ AskAt("caption") = CaptionEnd
         /\ Image!Asked("caption") => EmbedEnd < CaptionEnd
         /\ ~Image!Asked("caption") => EmbedEnd = CaptionEnd
         /\ EmbedEnd = IF setup.embed THEN ClassifierEnd + 1 ELSE ClassifierEnd
<1>1. /\ setup.semantic \in {"off", "vllm", "openai", "gemini"}
      /\ setup.classifier \in {"off", "vllm", "openai", "gemini"}
      /\ setup.caption \in {"off", "vllm", "openai", "gemini", "raw"} /\ setup.embed \in BOOLEAN
  BY SetupIs
<1>2. /\ Image!Model("semantic") = setup.semantic /\ Image!Model("classifier") = setup.classifier
      /\ Image!Model("caption") = setup.caption
  BY DEF Image!Model
<1>3. \A m : /\ AskSize(m) \in {0, 1, 2} /\ (m = "off" <=> AskSize(m) = 0)
             /\ JudgeSize(m) = IF m = "off" THEN 0 ELSE AskSize(m) + 1
  BY DEF AskSize, JudgeSize
<1>4. PICK a, b, c : a = AskSize(setup.semantic) /\ b = AskSize(setup.classifier) /\ c = AskSize(setup.caption)
  OBVIOUS
<1>5. a \in {0, 1, 2} /\ b \in {0, 1, 2} /\ c \in {0, 1, 2}
  BY <1>3, <1>4
<1>6. /\ SemanticEnd = 1 + (IF setup.semantic = "off" THEN 0 ELSE a + 1)
      /\ ClassifierEnd = SemanticEnd + (IF setup.classifier = "off" THEN 0 ELSE b + 1)
      /\ EmbedEnd = ClassifierEnd + (IF setup.embed THEN 1 ELSE 0)
      /\ CaptionEnd = EmbedEnd + c
  BY <1>3, <1>4 DEF SemanticEnd, ClassifierEnd, EmbedEnd, CaptionEnd
<1>7. /\ AskAt("semantic") = 1 + a /\ AskAt("classifier") = SemanticEnd + b /\ AskAt("caption") = CaptionEnd
  BY <1>4 DEF AskAt
<1>8. (setup.semantic = "off" <=> a = 0) /\ (setup.classifier = "off" <=> b = 0) /\ (setup.caption = "off" <=> c = 0)
  BY <1>3, <1>4
<1>9. /\ Image!Asked("semantic") <=> setup.semantic # "off"
      /\ Image!Asked("classifier") <=> setup.classifier # "off"
      /\ Image!Asked("caption") <=> setup.caption # "off"
  BY <1>2 DEF Image!Asked
<1>10. \A p \in Image!Purposes : p = "semantic" \/ p = "classifier" \/ p = "caption"
  BY DEF Image!Purposes
<1> QED
  BY ONLY <1>1, <1>5, <1>6, <1>7, <1>8, <1>9, <1>10

Words == {"load", "prep", "ask", "judge", "embed", "write image", "write meta", "write embedding", "all", "none",
          "semantic", "classifier", "caption", "vllm", "openai", "gemini"}
StageRecords == [do : Words, for : Words, by : Words \cup {"raw"}]

LEMMA AskingIs ==
  ASSUME NEW p \in Image!Purposes, NEW m \in {"vllm", "openai", "gemini", "raw"}
  PROVE  LET q == Image!Asking(p, m) IN
         /\ q \in Seq(StageRecords) /\ Len(q) = AskSize(m)
         /\ m \in {"vllm", "openai"} => q[1] = Image!Does("prep", p, m)
         /\ q[AskSize(m)] = Image!Does("ask", p, IF m = "raw" THEN "openai" ELSE m)
<1>1. /\ Image!Does("prep", p, m) \in StageRecords /\ Image!Does("ask", p, m) \in StageRecords
      /\ Image!Does("ask", p, "openai") \in StageRecords
  BY DEF Image!Does, StageRecords, Words, Image!Purposes
<1>2. PICK x, y, z : /\ x \in StageRecords /\ x = Image!Does("prep", p, m)
                     /\ y \in StageRecords /\ y = Image!Does("ask", p, m)
                     /\ z \in StageRecords /\ z = Image!Does("ask", p, "openai")
  BY <1>1
<1>3. Image!Asking(p, m) = IF m = "gemini" THEN <<y>> ELSE IF m = "raw" THEN <<z>> ELSE <<x, y>>
  BY <1>2 DEF Image!Asking
<1>4. CASE m = "gemini"
  BY <1>2, <1>3, <1>4 DEF AskSize
<1>5. CASE m = "raw"
  BY <1>2, <1>3, <1>5 DEF AskSize
<1>6. CASE m \in {"vllm", "openai"}
  BY <1>2, <1>3, <1>6 DEF AskSize
<1> QED
  BY <1>4, <1>5, <1>6

LEMMA JudgingIs ==
  ASSUME NEW p \in Image!Purposes, NEW m \in {"off", "vllm", "openai", "gemini"}
  PROVE  LET q == Image!Judging(p, m) IN
         /\ q \in Seq(StageRecords) /\ Len(q) = JudgeSize(m)
         /\ m \in {"vllm", "openai"} => q[1] = Image!Does("prep", p, m)
         /\ m # "off" => /\ q[AskSize(m)] = Image!Does("ask", p, m)
                         /\ q[AskSize(m) + 1] = Image!Does("judge", p, m)
<1>1. CASE m = "off"
  BY <1>1 DEF Image!Judging, JudgeSize
<1>2. CASE m # "off"
  <2> DEFINE s == Image!Asking(p, m)
             y == Image!Does("judge", p, m)
             q == s \o <<y>>
  <2>1. /\ s \in Seq(StageRecords) /\ Len(s) = AskSize(m)
        /\ m \in {"vllm", "openai"} => s[1] = Image!Does("prep", p, m)
        /\ s[AskSize(m)] = Image!Does("ask", p, m)
    BY <1>2, AskingIs
  <2>2. y \in StageRecords
    BY <1>2 DEF Image!Does, StageRecords, Words, Image!Purposes
  <2> HIDE DEF s, y
  <2>3. <<y>> \in Seq(StageRecords) /\ Len(<<y>>) = 1 /\ <<y>>[1] = y
    BY <2>2
  <2>4. /\ q \in Seq(StageRecords) /\ Len(q) = Len(s) + 1
        /\ \A k \in 1 .. Len(s) + 1 : q[k] = IF k <= Len(s) THEN s[k] ELSE <<y>>[k - Len(s)]
    BY <2>1, <2>3, ConcatProperties
  <2>5. Image!Judging(p, m) = q
    BY <1>2 DEF Image!Judging, s, y
  <2> HIDE DEF q
  <2>6. AskSize(m) \in {1, 2} /\ JudgeSize(m) = AskSize(m) + 1
    BY <1>2 DEF AskSize, JudgeSize
  <2>7. CASE AskSize(m) = 1
    BY <2>1, <2>3, <2>4, <2>5, <2>6, <2>7 DEF y, AskSize
  <2>8. CASE AskSize(m) = 2
    BY <2>1, <2>3, <2>4, <2>5, <2>6, <2>8 DEF y
  <2> QED
    BY <2>6, <2>7, <2>8
<1> QED
  BY <1>1, <1>2

\* What two sequences joined hold, each in its place.
LEMMA JoinedAre ==
  ASSUME NEW T, NEW s \in Seq(T), NEW u \in Seq(T), NEW m \in Nat, NEW l \in Nat, Len(s) = m, Len(u) = l
  PROVE  /\ s \o u \in Seq(T) /\ Len(s \o u) = m + l
         /\ \A k \in 1 .. m : (s \o u)[k] = s[k]
         /\ \A k \in 1 .. l : (s \o u)[m + k] = u[k]
<1> DEFINE v == s \o u
<1>1. /\ v \in Seq(T) /\ Len(v) = m + l
      /\ \A k \in 1 .. m + l : v[k] = IF k <= m THEN s[k] ELSE u[k - m]
  BY ConcatProperties
<1> HIDE DEF v
<1>2. ASSUME NEW k \in 1 .. m PROVE v[k] = s[k]
  BY <1>1
<1>3. ASSUME NEW k \in 1 .. l PROVE v[m + k] = u[k]
  <2>1. m + k \in 1 .. m + l /\ ~(m + k <= m) /\ m + k - m = k
    OBVIOUS
  <2> QED
    BY <1>1, <2>1
<1> QED
  BY <1>1, <1>2, <1>3 DEF v

\* A stage in its place: what it does, and for which question.
StageHolds(s, k) ==
  \/ k = 1 /\ s.do = "load"
  \/ \E p \in Image!Purposes : /\ Image!Asked(p) /\ Image!Model(p) \in {"vllm", "openai"} /\ k + 1 = AskAt(p)
                               /\ s = Image!Does("prep", p, Image!Model(p))
  \/ \E p \in Image!Purposes : /\ Image!Asked(p) /\ k = AskAt(p)
                               /\ s = Image!Does("ask", p, IF Image!Model(p) = "raw" THEN "openai" ELSE Image!Model(p))
  \/ \E p \in {"semantic", "classifier"} : /\ Image!Asked(p) /\ k = AskAt(p) + 1
                                           /\ s = Image!Does("judge", p, Image!Model(p))
  \/ setup.embed /\ k = EmbedEnd /\ s.do = "embed"
  \/ k = CaptionEnd + 1 /\ s.do = "write image"
  \/ k = CaptionEnd + 2 /\ s.do = "write meta"
  \/ k = CaptionEnd + 3 /\ s.do = "write embedding"

LEMMA StagesAre ==
  ASSUME setup \in Setups
  PROVE  /\ Len(Image!Stages) = CaptionEnd + 3
         /\ \A k \in 1 .. CaptionEnd + 3 : StageHolds(Image!Stages[k], k)
<1>1. PICK s, l, e, m : s = setup.semantic /\ l = setup.classifier /\ e = setup.embed /\ m = setup.caption
  OBVIOUS
<1>2. /\ s \in {"off", "vllm", "openai", "gemini"} /\ l \in {"off", "vllm", "openai", "gemini"} /\ e \in BOOLEAN
      /\ m \in {"off", "vllm", "openai", "gemini", "raw"}
  BY <1>1, SetupIs
<1>3. /\ Image!Model("semantic") = s /\ Image!Model("classifier") = l /\ Image!Model("caption") = m
      /\ Image!Asked("semantic") <=> s # "off"
      /\ Image!Asked("classifier") <=> l # "off"
      /\ Image!Asked("caption") <=> m # "off"
  BY <1>1 DEF Image!Model, Image!Asked
<1>4. Image!Purposes = {"semantic", "classifier", "caption"}
  BY DEF Image!Purposes
<1> DEFINE first == <<Image!Does("load", "all", "none")>>
           sem == Image!Judging("semantic", s)
           cls == Image!Judging("classifier", l)
           emb == IF e THEN <<Image!Does("embed", "all", "none")>> ELSE <<>>
           cap == IF m = "off" THEN <<>> ELSE Image!Asking("caption", m)
           out == [k \in 1 .. 3 |-> Image!Does(<<"write image", "write meta", "write embedding">>[k], "all", "none")]
<1>5. Image!Stages = first \o sem \o cls \o emb \o cap \o out
  BY <1>1, Zenon DEF Image!Stages
<1>6. PICK ns, nl, ne, nm : ns = JudgeSize(s) /\ nl = JudgeSize(l) /\ ne = (IF e THEN 1 ELSE 0) /\ nm = AskSize(m)
  OBVIOUS
<1>7. ns \in {0, 2, 3} /\ nl \in {0, 2, 3} /\ ne \in {0, 1} /\ nm \in {0, 1, 2}
  BY <1>6 DEF JudgeSize, AskSize
<1>8. first \in Seq(StageRecords) /\ Len(first) = 1 /\ first[1].do = "load"
  BY DEF Image!Does, StageRecords, Words
<1>9. /\ sem \in Seq(StageRecords) /\ Len(sem) = ns
      /\ s \in {"vllm", "openai"} => sem[1] = Image!Does("prep", "semantic", s)
      /\ s # "off" => /\ sem[AskSize(s)] = Image!Does("ask", "semantic", s)
                      /\ sem[AskSize(s) + 1] = Image!Does("judge", "semantic", s)
  BY <1>2, <1>4, <1>6, JudgingIs
<1>10. /\ cls \in Seq(StageRecords) /\ Len(cls) = nl
       /\ l \in {"vllm", "openai"} => cls[1] = Image!Does("prep", "classifier", l)
       /\ l # "off" => /\ cls[AskSize(l)] = Image!Does("ask", "classifier", l)
                       /\ cls[AskSize(l) + 1] = Image!Does("judge", "classifier", l)
  BY <1>2, <1>4, <1>6, JudgingIs
<1>11. emb \in Seq(StageRecords) /\ Len(emb) = ne /\ (e => emb[1].do = "embed")
  <2>1. Image!Does("embed", "all", "none") \in StageRecords /\ Image!Does("embed", "all", "none").do = "embed"
    BY DEF Image!Does, StageRecords, Words
  <2>2. PICK z : z = Image!Does("embed", "all", "none") /\ z \in StageRecords /\ z.do = "embed"
    BY <2>1
  <2>3. emb = IF e THEN <<z>> ELSE <<>>
    BY ONLY <2>2 DEF emb
  <2> HIDE DEF emb
  <2>4. CASE e
    BY <1>6, <2>2, <2>3, <2>4
  <2>5. CASE ~e
    BY <1>6, <2>3, <2>5
  <2> QED
    BY <2>4, <2>5
<1>12. /\ cap \in Seq(StageRecords) /\ Len(cap) = nm
       /\ m \in {"vllm", "openai"} => cap[1] = Image!Does("prep", "caption", m)
       /\ m # "off" => cap[AskSize(m)] = Image!Does("ask", "caption", IF m = "raw" THEN "openai" ELSE m)
  <2>1. CASE m = "off"
    BY <1>6, <2>1 DEF AskSize
  <2>2. CASE m # "off"
    BY <1>2, <1>4, <1>6, <2>2, AskingIs
  <2> QED
    BY <2>1, <2>2
<1>13. /\ out \in Seq(StageRecords) /\ Len(out) = 3
       /\ out[1].do = "write image" /\ out[2].do = "write meta" /\ out[3].do = "write embedding"
  <2>1. \A z \in {"write image", "write meta", "write embedding"} :
          Image!Does(z, "all", "none") \in StageRecords /\ Image!Does(z, "all", "none").do = z
    BY DEF Image!Does, StageRecords, Words
  <2>2. PICK words : words = <<"write image", "write meta", "write embedding">>
    OBVIOUS
  <2>3. words[1] = "write image" /\ words[2] = "write meta" /\ words[3] = "write embedding"
    BY <2>2
  <2>4. out = [k \in 1 .. 3 |-> Image!Does(words[k], "all", "none")]
    BY ONLY <2>2 DEF out
  <2> HIDE DEF out
  <2>5. out = [k \in 1 .. 3 |-> out[k]] /\ \A k \in 1 .. 3 : out[k] = Image!Does(words[k], "all", "none")
    BY ONLY <2>4
  <2>6. /\ out = [k \in 1 .. 3 |-> out[k]]
        /\ out[1] = Image!Does("write image", "all", "none")
        /\ out[2] = Image!Does("write meta", "all", "none")
        /\ out[3] = Image!Does("write embedding", "all", "none")
    <3>1. 1 \in 1 .. 3 /\ 2 \in 1 .. 3 /\ 3 \in 1 .. 3
      OBVIOUS
    <3> QED
      BY <2>3, <2>5, <3>1, Zenon
  <2>7. out \in [1 .. 3 -> StageRecords]
    <3>1. \A k \in 1 .. 3 : out[k] \in StageRecords
      <4>1. \A k \in 1 .. 3 : k = 1 \/ k = 2 \/ k = 3
        OBVIOUS
      <4> QED
        BY <2>1, <2>6, <4>1
    <3> QED
      BY <2>6, <3>1
  <2>8. out \in Seq(StageRecords) /\ Len(out) = 3
    <3>1. PICK three \in Nat : three = 3 /\ out \in [1 .. three -> StageRecords]
      BY <2>7
    <3>2. out \in Seq(StageRecords)
      BY <3>1, SeqDef, Zenon
    <3>3. PICK m2 : m2 = Len(out) /\ m2 \in Nat /\ DOMAIN out = 1 .. m2
      BY <3>2
    <3>4. 1 .. m2 = 1 .. three
      BY <3>1, <3>3
    <3>5. m2 = three
      BY <3>3, <3>4
    <3> QED
      BY <3>1, <3>2, <3>3, <3>5
  <2> QED
    BY <2>1, <2>6, <2>8
<1> HIDE DEF first, sem, cls, emb, cap, out
<1>14. PICK v, w, x, y : v = 1 + ns /\ w = v + nl /\ x = w + ne /\ y = x + nm
  OBVIOUS
<1>15. v \in Nat /\ w \in Nat /\ x \in Nat /\ y \in Nat /\ ns \in Nat /\ nl \in Nat /\ ne \in Nat /\ nm \in Nat /\ 1 <= v
  BY <1>7, <1>14
<1> DEFINE a == first \o sem
           b == a \o cls
           c == b \o emb
           d == c \o cap
           f == d \o out
<1>16. /\ a \in Seq(StageRecords) /\ Len(a) = v /\ (\A k \in 1 .. 1 : a[k] = first[k])
       /\ \A k \in 1 .. ns : a[1 + k] = sem[k]
  <2>1. PICK one : one = 1
    OBVIOUS
  <2>2. /\ first \in Seq(StageRecords) /\ Len(first) = one /\ one \in Nat
        /\ sem \in Seq(StageRecords) /\ Len(sem) = ns /\ ns \in Nat
    BY <1>8, <1>9, <1>15, <2>1
  <2>3. /\ a \in Seq(StageRecords) /\ Len(a) = one + ns /\ (\A k \in 1 .. one : a[k] = first[k])
        /\ \A k \in 1 .. ns : a[one + k] = sem[k]
    BY ONLY <2>2, JoinedAre
  <2> QED
    BY <1>14, <2>3, <2>1
<1> HIDE DEF a
<1>17. /\ b \in Seq(StageRecords) /\ Len(b) = w /\ (\A k \in 1 .. v : b[k] = a[k])
       /\ \A k \in 1 .. nl : b[v + k] = cls[k]
  <2>1. /\ a \in Seq(StageRecords) /\ Len(a) = v /\ v \in Nat
        /\ cls \in Seq(StageRecords) /\ Len(cls) = nl /\ nl \in Nat
    BY <1>16, <1>10, <1>15
  <2>2. /\ b \in Seq(StageRecords) /\ Len(b) = v + nl /\ (\A k \in 1 .. v : b[k] = a[k])
        /\ \A k \in 1 .. nl : b[v + k] = cls[k]
    BY ONLY <2>1, JoinedAre
  <2> QED
    BY <1>14, <2>2
<1> HIDE DEF b
<1>18. /\ c \in Seq(StageRecords) /\ Len(c) = x /\ (\A k \in 1 .. w : c[k] = b[k])
       /\ \A k \in 1 .. ne : c[w + k] = emb[k]
  <2>1. /\ b \in Seq(StageRecords) /\ Len(b) = w /\ w \in Nat
        /\ emb \in Seq(StageRecords) /\ Len(emb) = ne /\ ne \in Nat
    BY <1>17, <1>11, <1>15
  <2>2. /\ c \in Seq(StageRecords) /\ Len(c) = w + ne /\ (\A k \in 1 .. w : c[k] = b[k])
        /\ \A k \in 1 .. ne : c[w + k] = emb[k]
    BY ONLY <2>1, JoinedAre
  <2> QED
    BY <1>14, <2>2
<1> HIDE DEF c
<1>19. /\ d \in Seq(StageRecords) /\ Len(d) = y /\ (\A k \in 1 .. x : d[k] = c[k])
       /\ \A k \in 1 .. nm : d[x + k] = cap[k]
  <2>1. /\ c \in Seq(StageRecords) /\ Len(c) = x /\ x \in Nat
        /\ cap \in Seq(StageRecords) /\ Len(cap) = nm /\ nm \in Nat
    BY <1>18, <1>12, <1>15
  <2>2. /\ d \in Seq(StageRecords) /\ Len(d) = x + nm /\ (\A k \in 1 .. x : d[k] = c[k])
        /\ \A k \in 1 .. nm : d[x + k] = cap[k]
    BY ONLY <2>1, JoinedAre
  <2> QED
    BY <1>14, <2>2
<1> HIDE DEF d
<1>20. /\ f \in Seq(StageRecords) /\ Len(f) = y + 3 /\ (\A k \in 1 .. y : f[k] = d[k])
       /\ \A k \in 1 .. 3 : f[y + k] = out[k]
  <2>1. PICK three : three = 3
    OBVIOUS
  <2>2. /\ d \in Seq(StageRecords) /\ Len(d) = y /\ y \in Nat
        /\ out \in Seq(StageRecords) /\ Len(out) = three /\ three \in Nat
    BY <1>19, <1>13, <1>15, <2>1
  <2>3. /\ f \in Seq(StageRecords) /\ Len(f) = y + three /\ (\A k \in 1 .. y : f[k] = d[k])
        /\ \A k \in 1 .. three : f[y + k] = out[k]
    BY ONLY <2>2, JoinedAre
  <2> QED
    BY <2>3, <2>1
<1>21. Image!Stages = f
  BY <1>5 DEF a, b, c, d
<1> HIDE DEF f
<1>22. SemanticEnd = v /\ ClassifierEnd = w /\ EmbedEnd = x /\ CaptionEnd = y
  BY <1>1, <1>6, <1>14 DEF SemanticEnd, ClassifierEnd, EmbedEnd, CaptionEnd
<1>23. /\ AskAt("semantic") = 1 + AskSize(s) /\ AskAt("classifier") = v + AskSize(l) /\ AskAt("caption") = y
  BY <1>1, <1>22 DEF AskAt
<1>24. Len(f) = y + 3
  BY <1>20
<1>25. 1 <= v /\ v <= w /\ w <= x /\ x <= y
  BY <1>14, <1>15
<1>26. /\ f[1].do = "load"
       /\ \A k \in 1 .. ns : f[1 + k] = sem[k]
       /\ \A k \in 1 .. nl : f[v + k] = cls[k]
       /\ \A k \in 1 .. ne : f[w + k] = emb[k]
       /\ \A k \in 1 .. nm : f[x + k] = cap[k]
       /\ \A k \in 1 .. 3 : f[y + k] = out[k]
  <2>1. /\ \A k \in 1 .. x : f[k] = c[k]
        /\ \A k \in 1 .. w : f[k] = b[k]
        /\ \A k \in 1 .. v : f[k] = a[k]
    <3>1. \A k \in 1 .. x : f[k] = c[k]
      BY <1>19, <1>20, <1>15, <1>25
    <3>2. \A k \in 1 .. w : f[k] = b[k]
      BY <1>18, <1>15, <1>25, <3>1
    <3> QED
      BY <1>17, <1>15, <1>25, <3>1, <3>2
  <2>2. f[1].do = "load"
    BY <1>8, <1>16, <1>15, <2>1
  <2>3. \A k \in 1 .. ns : 1 + k \in 1 .. v
    BY <1>14, <1>15
  <2>4. \A k \in 1 .. nl : v + k \in 1 .. w
    BY <1>14, <1>15
  <2>5. \A k \in 1 .. ne : w + k \in 1 .. x
    BY <1>14, <1>15
  <2>6. \A k \in 1 .. nm : x + k \in 1 .. y
    BY <1>14, <1>15
  <2>7. \A k \in 1 .. ns : f[1 + k] = sem[k]
    BY <1>16, <2>1, <2>3
  <2>8. \A k \in 1 .. nl : f[v + k] = cls[k]
    BY <1>17, <2>1, <2>4
  <2>9. \A k \in 1 .. ne : f[w + k] = emb[k]
    BY <1>18, <2>1, <2>5
  <2>10. \A k \in 1 .. nm : f[x + k] = cap[k]
    BY <1>19, <1>20, <2>6
  <2> QED
    BY <1>20, <2>2, <2>7, <2>8, <2>9, <2>10
<1>27. ASSUME NEW q \in Image!Purposes, NEW u, u \in {"vllm", "openai", "gemini", "raw"}, Image!Model(q) = u,
              NEW z \in Nat, NEW h, AskAt(q) = z + AskSize(u), Image!Asked(q),
              u \in {"vllm", "openai"} => h[1] = Image!Does("prep", q, u),
              h[AskSize(u)] = Image!Does("ask", q, IF u = "raw" THEN "openai" ELSE u),
              q # "caption" => h[AskSize(u) + 1] = Image!Does("judge", q, u),
              NEW k \in 1 .. (IF q = "caption" THEN AskSize(u) ELSE AskSize(u) + 1), NEW g, g = h[k]
       PROVE  StageHolds(g, z + k)
  <2>1. AskSize(u) \in {1, 2} /\ (u \in {"vllm", "openai"} <=> AskSize(u) = 2)
    BY <1>27 DEF AskSize
  <2>2. CASE k = AskSize(u)
    BY <1>27, <2>2 DEF StageHolds
  <2>3. CASE k = AskSize(u) + 1
    <3>1. q \in {"semantic", "classifier"} /\ g = Image!Does("judge", q, u) /\ z + k = AskAt(q) + 1
      BY <1>4, <1>27, <2>1, <2>3
    <3> QED
      BY <1>27, <3>1 DEF StageHolds
  <2>4. CASE k = 1 /\ AskSize(u) = 2
    <3>1. u \in {"vllm", "openai"} /\ g = Image!Does("prep", q, u) /\ z + k + 1 = AskAt(q)
      BY <1>27, <2>1, <2>4
    <3> QED
      BY <1>27, <3>1 DEF StageHolds
  <2> QED
    BY <2>1, <2>2, <2>3, <2>4
<1>28. ASSUME NEW k \in 1 .. y + 3 PROVE StageHolds(f[k], k)
  <2>1. CASE k = 1
    BY <1>26, <2>1 DEF StageHolds
  <2>2. ASSUME NEW j \in 1 .. ns, k = 1 + j PROVE StageHolds(f[k], k)
    <3>1. s # "off" /\ ns = AskSize(s) + 1
      BY <1>6, <1>7, <2>2 DEF JudgeSize
    <3>2. f[k] = sem[j]
      BY <1>26, <2>2
    <3>3. s # "raw" /\ 1 \in Nat /\ "semantic" # "caption" /\ "semantic" \in Image!Purposes
      BY <1>2, <1>4
    <3> QED
      BY <1>2, <1>3, <1>9, <1>23, <1>27, <2>2, <3>1, <3>2, <3>3
  <2>3. ASSUME NEW j \in 1 .. nl, k = v + j PROVE StageHolds(f[k], k)
    <3>1. l # "off" /\ nl = AskSize(l) + 1
      BY <1>6, <1>7, <2>3 DEF JudgeSize
    <3>2. f[k] = cls[j]
      BY <1>26, <2>3
    <3>3. l # "raw" /\ v \in Nat /\ "classifier" # "caption" /\ "classifier" \in Image!Purposes
      BY <1>2, <1>4, <1>7, <1>14
    <3> QED
      BY <1>2, <1>3, <1>10, <1>23, <1>27, <2>3, <3>1, <3>2, <3>3
  <2>4. ASSUME NEW j \in 1 .. ne, k = w + j PROVE StageHolds(f[k], k)
    <3>1. e /\ j = 1 /\ k = x
      BY <1>2, <1>6, <1>7, <1>14, <2>4
    <3> QED
      BY <1>1, <1>11, <1>22, <1>26, <2>4, <3>1 DEF StageHolds
  <2>5. ASSUME NEW j \in 1 .. nm, k = x + j PROVE StageHolds(f[k], k)
    <3>1. m # "off" /\ nm = AskSize(m)
      BY <1>6, <1>7, <2>5 DEF AskSize
    <3>2. f[k] = cap[j]
      BY <1>26, <2>5
    <3>3. x \in Nat /\ "caption" \in Image!Purposes /\ y = x + AskSize(m)
      BY <1>4, <1>6, <1>7, <1>14
    <3> QED
      BY <1>2, <1>3, <1>12, <1>23, <1>27, <2>5, <3>1, <3>2, <3>3
  <2>6. ASSUME NEW j \in 1 .. 3, k = y + j PROVE StageHolds(f[k], k)
    <3>1. f[k] = out[j] /\ (j = 1 \/ j = 2 \/ j = 3)
      BY <1>26, <2>6
    <3> QED
      BY <1>13, <1>22, <2>6, <3>1 DEF StageHolds
  <2>7. \/ k = 1
        \/ \E j \in 1 .. ns : k = 1 + j
        \/ \E j \in 1 .. nl : k = v + j
        \/ \E j \in 1 .. ne : k = w + j
        \/ \E j \in 1 .. nm : k = x + j
        \/ \E j \in 1 .. 3 : k = y + j
    <3>1. ns \in Nat /\ nl \in Nat /\ ne \in Nat /\ nm \in Nat /\ k \in Nat
      BY <1>7, <1>14
    <3>2. \/ k = 1 \/ k - 1 \in 1 .. ns \/ k - v \in 1 .. nl \/ k - w \in 1 .. ne \/ k - x \in 1 .. nm \/ k - y \in 1 .. 3
      BY <1>14, <3>1
    <3>3. k = 1 + (k - 1) /\ k = v + (k - v) /\ k = w + (k - w) /\ k = x + (k - x) /\ k = y + (k - y)
      BY <1>14, <3>1
    <3> QED
      BY ONLY <3>2, <3>3
  <2> QED
    BY <2>1, <2>2, <2>3, <2>4, <2>5, <2>6, <2>7
<1> QED
  BY <1>21, <1>22, <1>24, <1>28

\* Which stages there are at a place.
PlaceIs(s, k) ==
  /\ s.do = "load" => k = 1
  /\ s.do = "prep" => \E p \in Image!Purposes :
       Image!Asked(p) /\ Image!Model(p) \in {"vllm", "openai"} /\ k + 1 = AskAt(p) /\ s.for = p /\ s.by = Image!Model(p)
  /\ s.do = "ask" => \E p \in Image!Purposes :
       /\ Image!Asked(p) /\ k = AskAt(p) /\ s.for = p
       /\ s.by = IF Image!Model(p) = "raw" THEN "openai" ELSE Image!Model(p)
  /\ s.do = "judge" => \E p \in {"semantic", "classifier"} :
       Image!Asked(p) /\ k = AskAt(p) + 1 /\ s.for = p /\ s.by = Image!Model(p)
  /\ s.do = "embed" => setup.embed /\ k = EmbedEnd
  /\ s.do = "write image" => k = CaptionEnd + 1
  /\ s.do = "write meta" => k = CaptionEnd + 2
  /\ s.do = "write embedding" => k = CaptionEnd + 3

LEMMA Located ==
  ASSUME setup \in Setups, NEW s, NEW k \in Nat, StageHolds(s, k)
  PROVE  PlaceIs(s, k)
<1>1. CASE k = 1 /\ s.do = "load"
  BY <1>1 DEF PlaceIs
<1>2. ASSUME NEW p \in Image!Purposes, Image!Asked(p), Image!Model(p) \in {"vllm", "openai"}, k + 1 = AskAt(p),
             s = Image!Does("prep", p, Image!Model(p))
      PROVE  s.do = "prep" /\ s.for = p /\ s.by = Image!Model(p)
  BY <1>2 DEF Image!Does
<1>3. ASSUME NEW p \in Image!Purposes, NEW u, s = Image!Does("ask", p, u)
      PROVE  s.do = "ask" /\ s.for = p /\ s.by = u
  BY <1>3 DEF Image!Does
<1>4. ASSUME NEW p, s = Image!Does("judge", p, Image!Model(p))
      PROVE  s.do = "judge" /\ s.for = p /\ s.by = Image!Model(p)
  BY <1>4 DEF Image!Does
<1>5. CASE \E p \in Image!Purposes : /\ Image!Asked(p) /\ Image!Model(p) \in {"vllm", "openai"} /\ k + 1 = AskAt(p)
                                     /\ s = Image!Does("prep", p, Image!Model(p))
  BY <1>2, <1>5 DEF PlaceIs
<1>6. CASE \E p \in Image!Purposes : /\ Image!Asked(p) /\ k = AskAt(p)
                                     /\ s = Image!Does("ask", p, IF Image!Model(p) = "raw" THEN "openai" ELSE Image!Model(p))
  <2>1. PICK p \in Image!Purposes : /\ Image!Asked(p) /\ k = AskAt(p)
                                    /\ s = Image!Does("ask", p, IF Image!Model(p) = "raw" THEN "openai" ELSE Image!Model(p))
    BY <1>6
  <2>2. s.do = "ask" /\ s.for = p /\ s.by = IF Image!Model(p) = "raw" THEN "openai" ELSE Image!Model(p)
    BY <1>3, <2>1
  <2> QED
    BY <2>1, <2>2 DEF PlaceIs
<1>7. CASE \E p \in {"semantic", "classifier"} : /\ Image!Asked(p) /\ k = AskAt(p) + 1
                                                 /\ s = Image!Does("judge", p, Image!Model(p))
  BY <1>4, <1>7 DEF PlaceIs
<1> QED
  BY <1>1, <1>5, <1>6, <1>7 DEF StageHolds, PlaceIs

\* The places in order, with room for the stage that prepares a request.
LEMMA Ordered ==
  ASSUME setup \in Setups
  PROVE  /\ Image!Model("semantic") \in {"vllm", "openai"} => AskAt("semantic") = 3
         /\ Image!Model("classifier") \in {"vllm", "openai"} => AskAt("classifier") = SemanticEnd + 2
         /\ Image!Model("caption") \in {"vllm", "openai"} => AskAt("caption") = EmbedEnd + 2
         /\ \A p \in Image!Purposes : Image!Model(p) \in {"off", "vllm", "openai", "gemini", "raw"}
         /\ \A p \in {"semantic", "classifier"} : Image!Model(p) # "raw"
         /\ Image!Purposes = {"semantic", "classifier", "caption"}
<1>1. /\ Image!Model("semantic") = setup.semantic /\ Image!Model("classifier") = setup.classifier
      /\ Image!Model("caption") = setup.caption
  BY DEF Image!Model
<1>2. /\ setup.semantic \in {"vllm", "openai"} => AskSize(setup.semantic) = 2
      /\ setup.classifier \in {"vllm", "openai"} => AskSize(setup.classifier) = 2
      /\ setup.caption \in {"vllm", "openai"} => AskSize(setup.caption) = 2
  BY DEF AskSize
<1>3. SemanticEnd \in Nat /\ EmbedEnd \in Nat /\ CaptionEnd = EmbedEnd + AskSize(setup.caption)
  BY Places3 DEF CaptionEnd
<1>4. /\ AskAt("semantic") = 1 + AskSize(setup.semantic)
      /\ AskAt("classifier") = SemanticEnd + AskSize(setup.classifier) /\ AskAt("caption") = CaptionEnd
  BY DEF AskAt
<1>5. Image!Purposes = {"semantic", "classifier", "caption"}
  BY DEF Image!Purposes
<1>6. \A p \in Image!Purposes : Image!Model(p) \in {"off", "vllm", "openai", "gemini", "raw"}
  BY <1>1, <1>5, SetupIs
<1>7. \A p \in {"semantic", "classifier"} : Image!Model(p) # "raw"
  BY <1>1, SetupIs
<1> QED
  BY <1>1, <1>2, <1>3, <1>4, <1>5, <1>6, <1>7

\* A question is asked once: two requests that wait at one place are one.
LEMMA AskedOnce ==
  ASSUME setup \in Setups, NEW p \in Image!Purposes, NEW q \in Image!Purposes,
         Image!Asked(p), Image!Asked(q), AskAt(p) = AskAt(q)
  PROVE  p = q
<1>1. p \in {"semantic", "classifier", "caption"} /\ q \in {"semantic", "classifier", "caption"}
  BY Ordered
<1> QED
  BY <1>1, Places3

-----------------------------------------------------------------------------
\* Stages that do not change what they do not name.

LEMMA AnswersKept ==
  ASSUME setup \in Setups, NEW k \in Nat, NEW r, NEW r2, AnswersHold(r, k), r2.answers = r.answers, r2.status = r.status
  PROVE  AnswersHold(r2, k + 1)
<1>1. \A p \in Image!Purposes : AskAt(p) \in Nat
  BY Places3
<1> QED
  BY <1>1 DEF AnswersHold

LEMMA FilterKept ==
  ASSUME setup \in Setups, NEW k \in Nat, NEW r, NEW r2, FilterHolds(r, k),
         r2.answers = r.answers, r2.status = r.status, r2.filtered = r.filtered,
         AnswersHold(r, k),
         k = SemanticEnd => ~Image!Asked("semantic"), k = ClassifierEnd => ~Image!Asked("classifier")
  PROVE  FilterHolds(r2, k + 1)
<1>1. SemanticEnd \in Nat /\ ClassifierEnd \in Nat /\ SemanticEnd <= ClassifierEnd
  BY Places3
<1>2. \A p : Passed(r2, p) <=> Passed(r, p)
  BY DEF Passed
<1>3. /\ ~Image!Asked("semantic") => Passed(r, "semantic")
      /\ ~Image!Asked("classifier") => Passed(r, "classifier")
  BY DEF Passed
<1>4. CASE k # SemanticEnd /\ k # ClassifierEnd
  BY <1>1, <1>2, <1>4 DEF FilterHolds
<1>5. CASE k = SemanticEnd /\ k # ClassifierEnd
  BY <1>1, <1>2, <1>3, <1>5 DEF FilterHolds
<1>6. CASE k = SemanticEnd /\ k = ClassifierEnd
  BY <1>1, <1>2, <1>3, <1>6 DEF FilterHolds
<1>7. CASE k # SemanticEnd /\ k = ClassifierEnd
  <2>1. k > SemanticEnd /\ k + 1 > SemanticEnd /\ k <= ClassifierEnd /\ k + 1 > ClassifierEnd
    BY <1>1, <1>7
  <2>2. Passed(r, "classifier")
    BY <1>3, <1>7
  <2>3. Image!Asked("classifier") = FALSE /\ ClassifierEnd = SemanticEnd
    BY <1>7, Places3
  <2> QED
    BY <1>7, <2>3
<1> QED
  BY <1>4, <1>5, <1>6, <1>7

LEMMA ReasonsKept ==
  ASSUME setup \in Setups, NEW k \in Nat, NEW r, NEW r2, ReasonsHold(r, k),
         r2.answers = r.answers, r2.status = r.status, r2.filtered = r.filtered,
         r.data => r2.data, r.embedded => r2.embedded, r.errors \subseteq r2.errors,
         k >= 1,
         k = 1 => r2.data \/ "download" \in r2.errors,
         k = SemanticEnd => ~Image!Asked("semantic"), k = ClassifierEnd => ~Image!Asked("classifier"),
         k = EmbedEnd => ~setup.embed \/ r2.embedded \/ "embedding" \in r2.errors,
         k = CaptionEnd => ~Image!Asked("caption")
  PROVE  ReasonsHold(r2, k + 1)
<1>1. SemanticEnd \in Nat /\ ClassifierEnd \in Nat /\ EmbedEnd \in Nat /\ CaptionEnd \in Nat
  BY Places3
<1>2. \A p : Passed(r2, p) <=> Passed(r, p)
  BY DEF Passed
<1>3. k + 1 > 1 => r2.data \/ "download" \in r2.errors
  BY DEF ReasonsHold
<1>4. k + 1 > SemanticEnd /\ Image!Asked("semantic") => k > SemanticEnd
  BY <1>1
<1>5. k + 1 > ClassifierEnd /\ Image!Asked("classifier") => k > ClassifierEnd
  BY <1>1
<1>6. k + 1 > EmbedEnd /\ setup.embed => k > EmbedEnd \/ r2.embedded \/ "embedding" \in r2.errors
  BY <1>1
<1>7. k + 1 > CaptionEnd /\ Image!Asked("caption") => k > CaptionEnd
  BY <1>1
<1> QED
  BY <1>2, <1>3, <1>4, <1>5, <1>6, <1>7 DEF ReasonsHold

\* No request waits at a place where no model is asked.
LEMMA NothingWaits ==
  ASSUME setup \in Setups, NEW k \in Nat, NEW r, RequestsHold(r, k),
         \A p \in Image!Purposes : Image!Asked(p) => k # AskAt(p)
  PROVE  \A m \in {"vllm", "openai"} : r.inputs[m] = "none"
<1>1. \A p : Image!Model(p) \in {"vllm", "openai"} => Image!Asked(p)
  BY DEF Image!Asked
<1> QED
  BY <1>1 DEF RequestsHold

LEMMA StillNothing ==
  ASSUME setup \in Setups, NEW k \in Nat, NEW r, \A m \in {"vllm", "openai"} : r.inputs[m] = "none",
         Image!Model("caption") \in {"vllm", "openai"} => k + 1 # AskAt("caption")
  PROVE  RequestsHold(r, k + 1)
BY DEF RequestsHold

\* A stage that asks nothing, prepares nothing and judges nothing.
LEMMA CarriedOn ==
  ASSUME setup \in Setups, NEW k \in Nat, NEW r, NEW r2, CarriesAt(r, k), IsImage(r2), k <= CaptionEnd + 3,
         \A p \in Image!Purposes : Image!Asked(p) => k # AskAt(p),
         Image!Model("caption") \in {"vllm", "openai"} => k + 1 # AskAt("caption"),
         r2.inputs = r.inputs, r2.answers = r.answers, r2.status = r.status, r2.filtered = r.filtered,
         r.data => r2.data, r.embedded => r2.embedded, r.errors \subseteq r2.errors,
         k = 1 => r2.data \/ "download" \in r2.errors,
         k = SemanticEnd => ~Image!Asked("semantic"), k = ClassifierEnd => ~Image!Asked("classifier"),
         k = EmbedEnd => ~setup.embed \/ r2.embedded \/ "embedding" \in r2.errors
  PROVE  CarriesAt(r2, k + 1)
<1>1. /\ IsImage(r) /\ k \in 1 .. CaptionEnd + 4
      /\ RequestsHold(r, k) /\ AnswersHold(r, k) /\ FilterHolds(r, k) /\ ReasonsHold(r, k)
  BY DEF CarriesAt
<1>2. CaptionEnd \in Nat /\ AskAt("caption") = CaptionEnd /\ "caption" \in Image!Purposes
  BY Places3, Ordered
<1>3. k = CaptionEnd => ~Image!Asked("caption")
  BY <1>2
<1>4. k >= 1 /\ k + 1 \in 1 .. CaptionEnd + 4
  BY <1>1, <1>2
<1>5. \A m \in {"vllm", "openai"} : r2.inputs[m] = "none"
  BY <1>1, NothingWaits
<1>6. RequestsHold(r2, k + 1)
  BY <1>5, StillNothing
<1>7. AnswersHold(r2, k + 1)
  BY <1>1, AnswersKept
<1>8. FilterHolds(r2, k + 1)
  BY <1>1, FilterKept
<1>9. ReasonsHold(r2, k + 1)
  BY <1>1, <1>3, <1>4, ReasonsKept
<1> QED
  BY <1>4, <1>6, <1>7, <1>8, <1>9 DEF CarriesAt

\* What is known of an image before a stage.
LEMMA Standing ==
  ASSUME ImageInv, NEW x \in Image!All, NEW what, Image!Before(x, what)
  PROVE  /\ setup \in Setups /\ phase = "running" /\ x \in taken
         /\ at[x] \in 1 .. CaptionEnd + 3 /\ CaptionEnd \in Nat
         /\ CarriesAt(images[x], at[x])
         /\ PlaceIs(Image!Stage(x), at[x]) /\ Image!Stage(x).do = what
<1>1. Len(Image!Stages) = CaptionEnd + 3 /\ \A k \in 1 .. CaptionEnd + 3 : StageHolds(Image!Stages[k], k)
  BY StagesAre DEF ImageInv
<1>2. CarriesAt(images[x], at[x]) /\ setup \in Setups
  BY DEF ImageInv
<1>3. at[x] \in 1 .. CaptionEnd + 4
  BY <1>2 DEF CarriesAt
<1>4. CaptionEnd \in Nat
  BY <1>2, Places3
<1>5. at[x] <= CaptionEnd + 3 /\ Image!Stage(x).do = what /\ phase = "running" /\ x \in taken
  BY <1>1 DEF Image!Before
<1>6. at[x] \in 1 .. CaptionEnd + 3
  BY <1>3, <1>4, <1>5
<1>7. StageHolds(Image!Stage(x), at[x]) /\ at[x] \in Nat
  BY <1>1, <1>6 DEF Image!Stage
<1>8. PlaceIs(Image!Stage(x), at[x])
  BY <1>2, <1>7, Located
<1> QED
  BY <1>2, <1>4, <1>5, <1>6, <1>8

\* The bytes and their decoding.
LEMMA LoadCarries ==
  ASSUME ImageInv, NEW x \in Image!All, Image!Load(x)
  PROVE  \E r2 : images' = [images EXCEPT ![x] = r2] /\ CarriesAt(r2, at[x] + 1) /\ at[x] <= CaptionEnd
<1>1. PICK k, r : k = at[x] /\ r = images[x]
  OBVIOUS
<1>2. /\ setup \in Setups /\ k \in Nat /\ k = 1 /\ CarriesAt(r, k) /\ IsImage(r) /\ CaptionEnd \in Nat
  <2>1. Image!Before(x, "load")
    BY DEF Image!Load
  <2>2. /\ CarriesAt(images[x], at[x]) /\ setup \in Setups /\ at[x] \in 1 .. CaptionEnd + 3 /\ CaptionEnd \in Nat
        /\ PlaceIs(Image!Stage(x), at[x]) /\ Image!Stage(x).do = "load"
    BY <2>1, Standing, Zenon
  <2>3. at[x] = 1 /\ at[x] \in Nat
    BY <2>2 DEF PlaceIs
  <2> QED
    BY <1>1, <2>3, <2>2 DEF CarriesAt
<1>3. /\ \A p \in Image!Purposes : Image!Asked(p) => k # AskAt(p)
      /\ Image!Model("caption") \in {"vllm", "openai"} => k + 1 # AskAt("caption")
      /\ k = SemanticEnd => ~Image!Asked("semantic")
      /\ k = ClassifierEnd => ~Image!Asked("classifier")
      /\ k = EmbedEnd => ~setup.embed
      /\ k <= CaptionEnd
  BY <1>2, Places3, Ordered
<1>4. PICK y : \/ images' = [images EXCEPT ![x].data = TRUE, ![x].frames = TRUE]
               \/ y = r.errors \cup {"decode"} /\ images' = [images EXCEPT ![x].data = TRUE, ![x].errors = y]
               \/ y = r.errors \cup {"download"} /\ images' = [images EXCEPT ![x].errors = y]
  <2>1. CASE images' = [images EXCEPT ![x].data = TRUE, ![x].frames = TRUE]
    BY <2>1
  <2>2. CASE images' = [images EXCEPT ![x].data = TRUE, ![x].errors = @ \cup {"decode"}]
    BY <1>1, <2>2
  <2>3. CASE images' = [images EXCEPT ![x].errors = @ \cup {"download"}]
    BY <1>1, <2>3
  <2> QED
    BY <2>1, <2>2, <2>3 DEF Image!Load
<1>5. ASSUME NEW r2, IsImage(r2), r2.inputs = r.inputs, r2.answers = r.answers, r2.status = r.status,
             r2.filtered = r.filtered, r.data => r2.data, r.embedded => r2.embedded, r.errors \subseteq r2.errors,
             r2.data \/ "download" \in r2.errors, images' = [images EXCEPT ![x] = r2]
      PROVE  \E z : images' = [images EXCEPT ![x] = z] /\ CarriesAt(z, at[x] + 1) /\ at[x] <= CaptionEnd
  <2>1. CarriesAt(r2, k + 1)
    BY <1>2, <1>3, <1>5, CarriedOn
  <2> QED
    BY <1>1, <1>3, <1>5, <2>1
<1>6. CASE images' = [images EXCEPT ![x].data = TRUE, ![x].frames = TRUE]
  <2>1. PICK r2 : r2 = [r EXCEPT !.data = TRUE, !.frames = TRUE]
    OBVIOUS
  <2>2. /\ IsImage(r2) /\ r2.inputs = r.inputs /\ r2.answers = r.answers /\ r2.status = r.status
        /\ r2.filtered = r.filtered /\ r2.data /\ r2.embedded = r.embedded /\ r2.errors = r.errors
    BY <1>2, <2>1 DEF IsImage, Fields
  <2>3. images' = [images EXCEPT ![x] = r2]
    BY <1>1, <1>6, <2>1
  <2> QED
    BY <1>5, <2>2, <2>3
<1>7. CASE y = r.errors \cup {"decode"} /\ images' = [images EXCEPT ![x].data = TRUE, ![x].errors = y]
  <2>1. PICK r2 : r2 = [r EXCEPT !.data = TRUE, !.errors = y]
    OBVIOUS
  <2>2. /\ IsImage(r2) /\ r2.inputs = r.inputs /\ r2.answers = r.answers /\ r2.status = r.status
        /\ r2.filtered = r.filtered /\ r2.data /\ r2.embedded = r.embedded /\ r2.errors = y
    BY <1>2, <2>1 DEF IsImage, Fields
  <2>3. images' = [images EXCEPT ![x] = r2]
    BY <1>1, <1>7, <2>1
  <2> QED
    BY <1>5, <1>7, <2>2, <2>3
<1>8. CASE y = r.errors \cup {"download"} /\ images' = [images EXCEPT ![x].errors = y]
  <2>1. PICK r2 : r2 = [r EXCEPT !.errors = y]
    OBVIOUS
  <2>2. /\ IsImage(r2) /\ r2.inputs = r.inputs /\ r2.answers = r.answers /\ r2.status = r.status
        /\ r2.filtered = r.filtered /\ r2.data = r.data /\ r2.embedded = r.embedded /\ r2.errors = y
    BY <1>2, <2>1 DEF IsImage, Fields
  <2>3. images' = [images EXCEPT ![x] = r2]
    BY <1>1, <1>8, <2>1
  <2> QED
    BY <1>5, <1>8, <2>2, <2>3
<1> QED
  BY <1>4, <1>6, <1>7, <1>8

\* The embedding: filtered images are not left out.
LEMMA EmbedCarries ==
  ASSUME ImageInv, NEW x \in Image!All, Image!Embed(x)
  PROVE  \E r2 : images' = [images EXCEPT ![x] = r2] /\ CarriesAt(r2, at[x] + 1) /\ at[x] <= CaptionEnd
<1>1. PICK k, r : k = at[x] /\ r = images[x]
  OBVIOUS
<1>2. /\ setup \in Setups /\ k \in Nat /\ k = EmbedEnd /\ setup.embed /\ CarriesAt(r, k) /\ IsImage(r) /\ CaptionEnd \in Nat
  <2>1. Image!Before(x, "embed")
    BY DEF Image!Embed
  <2>2. /\ CarriesAt(images[x], at[x]) /\ setup \in Setups /\ at[x] \in 1 .. CaptionEnd + 3 /\ CaptionEnd \in Nat
        /\ PlaceIs(Image!Stage(x), at[x]) /\ Image!Stage(x).do = "embed"
    BY <2>1, Standing, Zenon
  <2>3. at[x] = EmbedEnd /\ setup.embed /\ at[x] \in Nat
    BY <2>2 DEF PlaceIs
  <2> QED
    BY <1>1, <2>3, <2>2 DEF CarriesAt
<1>3. /\ \A p \in Image!Purposes : Image!Asked(p) => k # AskAt(p)
      /\ Image!Model("caption") \in {"vllm", "openai"} => k + 1 # AskAt("caption")
      /\ k # 1 /\ k # SemanticEnd /\ k # ClassifierEnd /\ k <= CaptionEnd
  <2>1. \A p \in Image!Purposes : p = "semantic" \/ p = "classifier" \/ p = "caption"
    BY <1>2, Ordered
  <2> QED
    BY <1>2, <2>1, Places3, Ordered
<1>4. \/ images' = [images EXCEPT ![x].embedded = TRUE]
      \/ images' = [images EXCEPT ![x].errors = r.errors \cup {"embedding"}]
  BY <1>1 DEF Image!Embed
<1>5. PICK r2 : /\ images' = [images EXCEPT ![x] = r2]
                /\ r2 = [r EXCEPT !.embedded = TRUE] \/ r2 = [r EXCEPT !.errors = r.errors \cup {"embedding"}]
  BY <1>1, <1>4
<1>6. /\ IsImage(r2) /\ r2.inputs = r.inputs /\ r2.answers = r.answers /\ r2.status = r.status
      /\ r2.filtered = r.filtered /\ r2.data = r.data /\ (r.embedded => r2.embedded) /\ r.errors \subseteq r2.errors
      /\ r2.embedded \/ "embedding" \in r2.errors
  BY <1>2, <1>5 DEF IsImage, Fields
<1>7. CarriesAt(r2, k + 1)
  BY <1>2, <1>3, <1>6, CarriedOn
<1> QED
  BY <1>1, <1>3, <1>5, <1>7

\* The request is put on the image, or the image says that it could not be.
LEMMA PrepCarries ==
  ASSUME ImageInv, NEW x \in Image!All, Image!Prep(x)
  PROVE  \E r2 : images' = [images EXCEPT ![x] = r2] /\ CarriesAt(r2, at[x] + 1) /\ at[x] <= CaptionEnd
<1>1. PICK k, r, s : k = at[x] /\ r = images[x] /\ s = Image!Stage(x)
  OBVIOUS
<1>2. /\ CarriesAt(r, k) /\ setup \in Setups /\ k \in 1 .. CaptionEnd + 3 /\ CaptionEnd \in Nat
      /\ PlaceIs(s, k) /\ s.do = "prep" /\ images = [z \in Image!All |-> images[z]]
  <2>1. Image!Before(x, "prep")
    BY DEF Image!Prep
  <2>2. /\ CarriesAt(images[x], at[x]) /\ setup \in Setups /\ at[x] \in 1 .. CaptionEnd + 3 /\ CaptionEnd \in Nat
        /\ PlaceIs(Image!Stage(x), at[x]) /\ Image!Stage(x).do = "prep"
    BY <2>1, Standing, Zenon
  <2> QED
    BY <1>1, <2>2 DEF ImageInv
<1>3. PICK p \in Image!Purposes :
        Image!Asked(p) /\ Image!Model(p) \in {"vllm", "openai"} /\ k + 1 = AskAt(p) /\ s.for = p /\ s.by = Image!Model(p)
  BY <1>2 DEF PlaceIs
<1>4. /\ IsImage(r) /\ k \in Nat /\ k >= 1
      /\ RequestsHold(r, k) /\ AnswersHold(r, k) /\ FilterHolds(r, k) /\ ReasonsHold(r, k)
  BY <1>2 DEF CarriesAt
<1>5. /\ k # 1 /\ k # SemanticEnd /\ k # ClassifierEnd /\ k # EmbedEnd /\ k # CaptionEnd /\ k <= CaptionEnd
      /\ \A q \in Image!Purposes : Image!Asked(q) => k # AskAt(q)
  <2>1. \A q \in Image!Purposes : q = "semantic" \/ q = "classifier" \/ q = "caption"
    BY <1>2, Ordered
  <2>2. CASE p = "semantic"
    BY <1>2, <1>3, <1>4, <2>1, <2>2, Places3, Ordered
  <2>3. CASE p = "classifier"
    BY <1>2, <1>3, <1>4, <2>1, <2>3, Places3, Ordered
  <2>4. CASE p = "caption"
    BY <1>2, <1>3, <1>4, <2>1, <2>4, Places3, Ordered
  <2> QED
    BY <2>1, <2>2, <2>3, <2>4
<1>6. \A m \in {"vllm", "openai"} : r.inputs[m] = "none"
  BY <1>2, <1>4, <1>5, NothingWaits
<1>7. k + 1 = AskAt("caption") /\ Image!Model("caption") \in {"vllm", "openai"} => p = "caption"
  <2>1. Image!Model("caption") \in {"vllm", "openai"} => Image!Asked("caption")
    BY DEF Image!Asked
  <2>2. "caption" \in Image!Purposes
    BY <1>2, Ordered
  <2> QED
    BY <1>2, <1>3, <2>1, <2>2, AskedOnce
<1>8. PICK r2 : /\ images' = [images EXCEPT ![x] = r2]
                /\ \/ r.filtered /\ r2 = r
                   \/ r2 = [r EXCEPT !.errors = r.errors \cup {"caption_prep"}]
                   \/ ~r.filtered /\ r2 = [r EXCEPT !.inputs[Image!Model(p)] = p]
  <2>1. \/ r.filtered /\ images' = images
        \/ images' = [images EXCEPT ![x].errors = r.errors \cup {"caption_prep"}]
        \/ ~r.filtered /\ images' = [images EXCEPT ![x].inputs[s.by] = s.for]
    BY <1>1 DEF Image!Prep
  <2>2. CASE r.filtered /\ images' = images
    BY <1>1, <1>2, <2>2
  <2>3. CASE images' = [images EXCEPT ![x].errors = r.errors \cup {"caption_prep"}]
    BY <1>1, <2>3
  <2>4. CASE ~r.filtered /\ images' = [images EXCEPT ![x].inputs[s.by] = s.for]
    <3>1. images' = [images EXCEPT ![x] = [r EXCEPT !.inputs[Image!Model(p)] = p]]
      BY <1>1, <1>3, <2>4
    <3> QED
      BY <2>4, <3>1
  <2> QED
    BY <2>1, <2>2, <2>3, <2>4
<1>9. /\ IsImage(r2) /\ r2.answers = r.answers /\ r2.status = r.status /\ r2.filtered = r.filtered
      /\ r2.data = r.data /\ r2.embedded = r.embedded /\ r.errors \subseteq r2.errors
      /\ \/ r2.inputs = r.inputs /\ (r.filtered \/ "caption_prep" \in r2.errors)
         \/ /\ ~r.filtered
            /\ \A m \in {"vllm", "openai"} : r2.inputs[m] = IF m = Image!Model(p) THEN p ELSE r.inputs[m]
  <2>1. CASE r.filtered /\ r2 = r
    BY <1>4, <2>1
  <2>2. CASE r2 = [r EXCEPT !.errors = r.errors \cup {"caption_prep"}]
    BY <1>4, <2>2 DEF IsImage, Fields
  <2>3. CASE ~r.filtered /\ r2 = [r EXCEPT !.inputs[Image!Model(p)] = p]
    BY <1>3, <1>4, <2>3 DEF IsImage, Fields
  <2> QED
    BY <1>8, <2>1, <2>2, <2>3
<1>10. RequestsHold(r2, k + 1)
  <2>1. \A m \in {"vllm", "openai"} : r2.inputs[m] # "none" => m = Image!Model(p) /\ r2.inputs[m] = p /\ ~r2.filtered
    BY <1>6, <1>9
  <2>2. /\ Image!Model("caption") \in {"vllm", "openai"} /\ k + 1 = AskAt("caption") /\ ~r2.filtered =>
             r2.inputs[Image!Model("caption")] = "caption" \/ "caption_prep" \in r2.errors
    BY <1>3, <1>7, <1>9
  <2> QED
    BY <1>3, <2>1, <2>2 DEF RequestsHold
<1>11. AnswersHold(r2, k + 1)
  BY <1>2, <1>4, <1>9, AnswersKept
<1>12. FilterHolds(r2, k + 1)
  BY <1>2, <1>4, <1>5, <1>9, FilterKept
<1>13. ReasonsHold(r2, k + 1)
  BY <1>2, <1>4, <1>5, <1>9, ReasonsKept
<1>14. CarriesAt(r2, k + 1)
  BY <1>2, <1>4, <1>9, <1>10, <1>11, <1>12, <1>13 DEF CarriesAt
<1> QED
  BY <1>1, <1>5, <1>8, <1>14

\* What asking for p leaves on an image: an answer to p, or none.
Asks(r, r2, p) ==
  /\ IsImage(r2) /\ r2.filtered = r.filtered /\ r2.data = r.data /\ r2.embedded = r.embedded /\ r2.errors = r.errors
  /\ \A m \in {"vllm", "openai"} : r2.inputs[m] = "none"
  /\ \A q \in Image!Purposes \ {p} : r2.answers[q] = r.answers[q] /\ r2.status[q] = r.status[q]
  /\ r.filtered => r2.answers[p] = r.answers[p] /\ r2.status[p] = r.status[p]
  /\ r2.answers[p] # Image!NoAnswer =>
       /\ r2.status[p] = "success" /\ r2.answers[p].about \in {p, "raw"}
       /\ Image!Model(p) = "vllm" => r2.answers[p].about = p
       /\ Image!Model(p) \in {"raw", "gemini"} => r2.answers[p].about = "raw"
  /\ p = "caption" /\ ~r.filtered => r2.status[p] # "none" \/ "caption_prep" \in r2.errors

LEMMA AskCarries ==
  ASSUME setup \in Setups, NEW p \in Image!Purposes, Image!Asked(p), NEW k \in Nat, k = AskAt(p), k >= 1,
         NEW r, CarriesAt(r, k), NEW r2, Asks(r, r2, p)
  PROVE  CarriesAt(r2, k + 1) /\ k <= CaptionEnd
<1>1. IsImage(r) /\ AnswersHold(r, k) /\ FilterHolds(r, k) /\ ReasonsHold(r, k)
  BY DEF CarriesAt
<1>2. p = "semantic" \/ p = "classifier" \/ p = "caption"
  BY Ordered
<1>3. /\ SemanticEnd \in Nat /\ ClassifierEnd \in Nat /\ EmbedEnd \in Nat /\ CaptionEnd \in Nat
      /\ SemanticEnd <= ClassifierEnd /\ ClassifierEnd <= EmbedEnd /\ EmbedEnd <= CaptionEnd
      /\ \A q \in Image!Purposes : AskAt(q) \in Nat
      /\ p = "semantic" => 1 < k /\ k < SemanticEnd
      /\ p = "classifier" => SemanticEnd < k /\ k < ClassifierEnd
      /\ p = "caption" => EmbedEnd < k /\ k = CaptionEnd
  BY Places3
<1>4. k <= CaptionEnd /\ k + 1 \in 1 .. CaptionEnd + 4 /\ k > 1
  BY <1>2, <1>3, Places3
<1>5. RequestsHold(r2, k + 1)
  <2>1. Image!Model("caption") \in {"vllm", "openai"} => k + 1 # AskAt("caption")
    BY <1>2, <1>3, Places3, Ordered
  <2> QED
    BY <2>1, StillNothing DEF Asks
<1>6. AnswersHold(r2, k + 1)
  <2>1. ASSUME NEW q \in Image!Purposes, q # p
        PROVE  r2.answers[q] = r.answers[q] /\ r2.status[q] = r.status[q] /\ (k + 1 <= AskAt(q) => k <= AskAt(q))
    BY <1>3, <2>1 DEF Asks
  <2>2. ~(k + 1 <= AskAt(p))
    BY <1>3
  <2> QED
    BY <1>1, <2>1, <2>2 DEF AnswersHold, Asks
<1>7. \A q \in Image!Purposes \ {p} : Passed(r2, q) <=> Passed(r, q)
  BY DEF Passed, Asks
<1>8. CASE p = "semantic"
  BY <1>1, <1>3, <1>4, <1>5, <1>6, <1>8 DEF FilterHolds, ReasonsHold, CarriesAt, Asks
<1>9. CASE p = "classifier"
  <2>1. "semantic" \in Image!Purposes \ {p} /\ (Passed(r2, "semantic") <=> Passed(r, "semantic"))
    BY <1>7, <1>9, Ordered
  <2>2. FilterHolds(r2, k + 1)
    BY <1>1, <1>3, <1>9, <2>1 DEF FilterHolds, Asks
  <2>3. ReasonsHold(r2, k + 1)
    BY <1>1, <1>3, <1>4, <1>9, <2>1 DEF ReasonsHold, Asks
  <2> QED
    BY <1>4, <1>5, <1>6, <2>2, <2>3 DEF CarriesAt, Asks
<1>10. CASE p = "caption"
  <2>1. /\ "semantic" \in Image!Purposes \ {p} /\ "classifier" \in Image!Purposes \ {p}
        /\ Passed(r2, "semantic") <=> Passed(r, "semantic")
        /\ Passed(r2, "classifier") <=> Passed(r, "classifier")
    BY <1>7, <1>10, Ordered
  <2>2. FilterHolds(r2, k + 1)
    BY <1>1, <1>3, <1>10, <2>1 DEF FilterHolds, Asks
  <2>3. ReasonsHold(r2, k + 1)
    BY <1>1, <1>3, <1>4, <1>10, <2>1 DEF ReasonsHold, Asks
  <2> QED
    BY <1>4, <1>5, <1>6, <2>2, <2>3 DEF CarriesAt, Asks
<1> QED
  BY <1>2, <1>4, <1>8, <1>9, <1>10

\* What comes of a question: an answer with what it is about, or a status that says why there is none.
IsAnswered(e, r, p, b) ==
  \E y, z : \/ e = [r EXCEPT !.answers[p] = [says |-> z, about |-> b], !.status[p] = "success"]
            \/ y \in {"blocked", "error"} /\ e = [r EXCEPT !.status[p] = y]

LEMMA AnsweredIs ==
  ASSUME NEW x, NEW s, NEW b, NEW p, s.for = p, NEW r, r = images[x], NEW e, e \in Image!Answered(x, s, b)
  PROVE  IsAnswered(e, r, p, b)
<1>1. Image!Key(s.for, s.by) = p
  BY DEF Image!Key
<1>2. PICK T, U : T = Image!Texts(s.for) /\ U = IF s.by = "vllm" THEN {"error"} ELSE {"blocked", "error"}
  OBVIOUS
<1>3. Image!Answered(x, s, b) =
        {[r EXCEPT !.answers[p] = [says |-> z, about |-> b], !.status[p] = "success"] : z \in T} \cup
        {[r EXCEPT !.status[p] = y] : y \in U}
  BY <1>1, <1>2, Zenon DEF Image!Answered
<1>4. U \subseteq {"blocked", "error"}
  BY <1>2
<1>5. CASE \E z \in T : e = [r EXCEPT !.answers[p] = [says |-> z, about |-> b], !.status[p] = "success"]
  BY <1>5 DEF IsAnswered
<1>6. CASE \E y \in U : e = [r EXCEPT !.status[p] = y]
  BY <1>4, <1>6 DEF IsAnswered
<1> QED
  BY <1>3, <1>5, <1>6

LEMMA NoRequests ==
  \E h : /\ h = Image!Fresh.inputs /\ h = [m \in {"vllm", "openai"} |-> h[m]]
         /\ \A m \in {"vllm", "openai"} : h[m] = "none"
<1>1. PICK h : h = [m \in {"vllm", "openai"} |-> "none"]
  OBVIOUS
<1>2. Image!Fresh.inputs = h
  BY <1>1 DEF Image!Fresh
<1>3. h = [m \in {"vllm", "openai"} |-> h[m]] /\ \A m \in {"vllm", "openai"} : h[m] = "none"
  BY <1>1
<1> QED
  BY <1>2, <1>3

LEMMA VllmCarries ==
  ASSUME ImageInv, NEW x \in Image!All, Image!AskVllm(x)
  PROVE  \E r2 : images' = [images EXCEPT ![x] = r2] /\ CarriesAt(r2, at[x] + 1) /\ at[x] <= CaptionEnd
<1>1. PICK k, r, s : k = at[x] /\ r = images[x] /\ s = Image!Stage(x)
  OBVIOUS
<1>2. /\ CarriesAt(r, k) /\ setup \in Setups /\ k \in 1 .. CaptionEnd + 3 /\ CaptionEnd \in Nat
      /\ PlaceIs(s, k) /\ s.do = "ask"
  <2>1. Image!Before(x, "ask")
    BY DEF Image!AskVllm
  <2>2. /\ CarriesAt(images[x], at[x]) /\ setup \in Setups /\ at[x] \in 1 .. CaptionEnd + 3 /\ CaptionEnd \in Nat
        /\ PlaceIs(Image!Stage(x), at[x]) /\ Image!Stage(x).do = "ask"
    BY <2>1, Standing, Zenon
  <2> QED
    BY <1>1, <2>2
<1>3. PICK p \in Image!Purposes : /\ Image!Asked(p) /\ k = AskAt(p) /\ s.for = p
                                  /\ s.by = IF Image!Model(p) = "raw" THEN "openai" ELSE Image!Model(p)
  BY <1>2 DEF PlaceIs
<1>4. s.by = "vllm" /\ Image!Model(p) = "vllm"
  BY <1>1, <1>3 DEF Image!AskVllm
<1>5. IsImage(r) /\ k \in Nat /\ k >= 1 /\ RequestsHold(r, k) /\ AnswersHold(r, k)
  BY <1>2 DEF CarriesAt
<1>6. r.answers[p] = Image!NoAnswer /\ r.status[p] = "none"
  BY <1>3, <1>5 DEF AnswersHold
<1>7. r.inputs["vllm"] # "none" => r.inputs["vllm"] = p
  <2>1. ASSUME r.inputs["vllm"] # "none" PROVE r.inputs["vllm"] = p
    <3>1. PICK q \in Image!Purposes : r.inputs["vllm"] = q /\ Image!Model(q) = "vllm" /\ k = AskAt(q)
      BY <1>5, <2>1 DEF RequestsHold
    <3>2. p = q
      BY <1>2, <1>3, <3>1, AskedOnce DEF Image!Asked
    <3> QED
      BY <3>1, <3>2
  <2> QED
    BY <2>1
<1>8. p = "caption" /\ ~r.filtered => r.inputs["vllm"] # "none" \/ "caption_prep" \in r.errors
  BY <1>3, <1>4, <1>5 DEF RequestsHold
<1>9. PICK e, r2 : /\ images' = [images EXCEPT ![x] = r2] /\ r2 = [e EXCEPT !.inputs = Image!Fresh.inputs]
                   /\ \/ /\ e = r
                         /\ r.filtered \/ r.inputs["vllm"] = "none" \/ "caption_prep" \in r.errors
                      \/ /\ e \in Image!Answered(x, s, r.inputs["vllm"])
                         /\ ~r.filtered /\ r.inputs["vllm"] # "none"
  <2>1. Image!Key(s.for, s.by) = p
    BY <1>3 DEF Image!Key
  <2>2. Image!Skipped(x, s) <=> r.filtered
    BY <1>1, <1>6, <2>1 DEF Image!Skipped
  <2>3. PICK out : /\ out = IF r.filtered \/ r.inputs["vllm"] = "none" \/ "caption_prep" \in r.errors
                            THEN {r} ELSE Image!Answered(x, s, r.inputs["vllm"])
                   /\ \E e \in out : images' = [images EXCEPT ![x] = [e EXCEPT !.inputs = Image!Fresh.inputs]]
    BY <1>1, <2>2 DEF Image!AskVllm
  <2>4. PICK e \in out : images' = [images EXCEPT ![x] = [e EXCEPT !.inputs = Image!Fresh.inputs]]
    BY <2>3
  <2> QED
    BY <2>3, <2>4
<1>10. PICK h : /\ h = Image!Fresh.inputs /\ h = [m \in {"vllm", "openai"} |-> h[m]]
                /\ \A m \in {"vllm", "openai"} : h[m] = "none"
  BY NoRequests
<1>11. Asks(r, r2, p)
  <2>1. CASE e = r /\ (r.filtered \/ r.inputs["vllm"] = "none" \/ "caption_prep" \in r.errors)
    <3>1. /\ IsImage(r2) /\ r2.filtered = r.filtered /\ r2.data = r.data /\ r2.embedded = r.embedded
          /\ r2.errors = r.errors /\ r2.inputs = h /\ r2.answers = r.answers /\ r2.status = r.status
      BY <1>5, <1>9, <1>10, <2>1 DEF IsImage, Fields
    <3> QED
      BY <1>6, <1>8, <1>10, <2>1, <3>1 DEF Asks
  <2>2. CASE e \in Image!Answered(x, s, r.inputs["vllm"]) /\ ~r.filtered /\ r.inputs["vllm"] # "none"
    <3>1. r.inputs["vllm"] = p
      BY <1>7, <2>2
    <3>2. PICK y, z : \/ e = [r EXCEPT !.answers[p] = [says |-> z, about |-> p], !.status[p] = "success"]
                      \/ y \in {"blocked", "error"} /\ e = [r EXCEPT !.status[p] = y]
      <4>1. s.for = p /\ r = images[x] /\ e \in Image!Answered(x, s, p)
        BY <1>1, <1>3, <2>2, <3>1
      <4> QED
        <5>1. IsAnswered(e, r, p, p)
          BY ONLY <4>1, AnsweredIs
        <5> QED
          BY ONLY <5>1 DEF IsAnswered
    <3>3. CASE e = [r EXCEPT !.answers[p] = [says |-> z, about |-> p], !.status[p] = "success"]
      <4>1. [says |-> z, about |-> p].about = p
        OBVIOUS
      <4>2. PICK a : a = [says |-> z, about |-> p] /\ a.about = p
        BY <4>1
      <4>3. /\ IsImage(r2) /\ r2.filtered = r.filtered /\ r2.data = r.data /\ r2.embedded = r.embedded
            /\ r2.errors = r.errors /\ r2.inputs = h
            /\ \A q \in Image!Purposes : /\ r2.answers[q] = IF q = p THEN a ELSE r.answers[q]
                                         /\ r2.status[q] = IF q = p THEN "success" ELSE r.status[q]
        BY <1>5, <1>9, <1>10, <3>3, <4>2 DEF IsImage, Fields
      <4> QED
        BY <1>4, <1>10, <2>2, <4>2, <4>3 DEF Asks
    <3>4. CASE y \in {"blocked", "error"} /\ e = [r EXCEPT !.status[p] = y]
      <4>1. /\ IsImage(r2) /\ r2.filtered = r.filtered /\ r2.data = r.data /\ r2.embedded = r.embedded
            /\ r2.errors = r.errors /\ r2.inputs = h /\ r2.answers = r.answers
            /\ \A q \in Image!Purposes : r2.status[q] = IF q = p THEN y ELSE r.status[q]
        BY <1>5, <1>9, <1>10, <3>4 DEF IsImage, Fields
      <4> QED
        BY <1>6, <1>10, <2>2, <3>4, <4>1 DEF Asks
    <3> QED
      BY <3>2, <3>3, <3>4
  <2> QED
    BY <1>9, <2>1, <2>2
<1>12. CarriesAt(r2, k + 1) /\ k <= CaptionEnd
  BY <1>2, <1>3, <1>5, <1>11, AskCarries
<1> QED
  BY <1>1, <1>9, <1>12

LEMMA ApiCarries ==
  ASSUME ImageInv, NEW x \in Image!All, Image!AskApi(x)
  PROVE  \E r2 : images' = [images EXCEPT ![x] = r2] /\ CarriesAt(r2, at[x] + 1) /\ at[x] <= CaptionEnd
<1>1. PICK k, r, s : k = at[x] /\ r = images[x] /\ s = Image!Stage(x)
  OBVIOUS
<1>2. /\ CarriesAt(r, k) /\ setup \in Setups /\ k \in 1 .. CaptionEnd + 3 /\ CaptionEnd \in Nat
      /\ PlaceIs(s, k) /\ s.do = "ask" /\ images = [z \in Image!All |-> images[z]]
  <2>1. Image!Before(x, "ask")
    BY DEF Image!AskApi
  <2>2. /\ CarriesAt(images[x], at[x]) /\ setup \in Setups /\ at[x] \in 1 .. CaptionEnd + 3 /\ CaptionEnd \in Nat
        /\ PlaceIs(Image!Stage(x), at[x]) /\ Image!Stage(x).do = "ask"
    BY <2>1, Standing, Zenon
  <2> QED
    BY <1>1, <2>2 DEF ImageInv
<1>3. PICK p \in Image!Purposes : /\ Image!Asked(p) /\ k = AskAt(p) /\ s.for = p
                                  /\ s.by = IF Image!Model(p) = "raw" THEN "openai" ELSE Image!Model(p)
  BY <1>2 DEF PlaceIs
<1>4. /\ s.by \in {"openai", "gemini"} /\ Image!Model(p) \in {"raw", "openai", "gemini"}
      /\ (s.by = "gemini" <=> Image!Model(p) = "gemini")
  <2>1. s.by \in {"openai", "gemini"} /\ Image!Model(p) \in {"off", "vllm", "openai", "gemini", "raw"}
    BY <1>1, <1>2, Ordered DEF Image!AskApi
  <2>2. Image!Model(p) # "off"
    BY <1>3 DEF Image!Asked
  <2> QED
    BY <1>3, <2>1, <2>2
<1>5. IsImage(r) /\ k \in Nat /\ k >= 1 /\ RequestsHold(r, k) /\ AnswersHold(r, k)
  BY <1>2 DEF CarriesAt
<1>6. r.answers[p] = Image!NoAnswer /\ r.status[p] = "none"
  BY <1>3, <1>5 DEF AnswersHold
<1>7. \A m \in {"vllm", "openai"} : r.inputs[m] # "none" => r.inputs[m] = p /\ Image!Model(p) = m /\ ~r.filtered
  <2>1. ASSUME NEW m \in {"vllm", "openai"}, r.inputs[m] # "none"
        PROVE  r.inputs[m] = p /\ Image!Model(p) = m /\ ~r.filtered
    <3>1. PICK q \in Image!Purposes : r.inputs[m] = q /\ Image!Model(q) = m /\ k = AskAt(q) /\ ~r.filtered
      BY <1>5, <2>1 DEF RequestsHold
    <3>2. p = q
      BY <1>2, <1>3, <2>1, <3>1, AskedOnce DEF Image!Asked
    <3> QED
      BY <3>1, <3>2
  <2> QED
    BY <2>1
<1>8. PICK b : b = IF s.by = "openai" /\ r.inputs["openai"] # "none" THEN r.inputs["openai"] ELSE "raw"
  OBVIOUS
<1>9. b \in {p, "raw"} /\ (Image!Model(p) \in {"raw", "gemini"} => b = "raw")
  BY <1>4, <1>7, <1>8
<1>10. PICK e, r2 : /\ images' = [images EXCEPT ![x] = r2]
                    /\ \/ r.filtered /\ e = r /\ r2 = r
                       \/ /\ ~r.filtered /\ (e \in Image!Answered(x, s, b) \/ e = [r EXCEPT !.status[p] = "error"])
                          /\ r2 = IF s.by = "openai" THEN [e EXCEPT !.inputs["openai"] = "none"] ELSE e
  <2>1. Image!Key(s.for, s.by) = p
    BY <1>3 DEF Image!Key
  <2>2. Image!Skipped(x, s) <=> r.filtered
    BY <1>1, <1>6, <2>1 DEF Image!Skipped
  <2>3. CASE r.filtered
    <3>1. images' = images
      BY <1>1, <2>2, <2>3 DEF Image!AskApi
    <3>2. images' = [images EXCEPT ![x] = r]
      BY <1>1, <1>2, <3>1
    <3> QED
      BY <2>3, <3>2
  <2>4. CASE ~r.filtered
    <3>1. PICK f : f = [r EXCEPT !.status[p] = "error"]
      OBVIOUS
    <3>2. [images[x] EXCEPT !.status[Image!Key(s.for, s.by)] = "error"] = f
      BY <1>1, <2>1, <3>1, Zenon
    <3>3. PICK out : /\ out = Image!Answered(x, s, b) \/ out = {f}
                     /\ \E e \in out : images' = [images EXCEPT ![x] =
                                         IF s.by = "openai" THEN Image!DropPayload(e) ELSE e]
      BY <1>1, <1>8, <2>2, <2>4, <3>2 DEF Image!AskApi
    <3>4. PICK e \in out : images' = [images EXCEPT ![x] = IF s.by = "openai" THEN Image!DropPayload(e) ELSE e]
      BY <3>3
    <3>5. Image!DropPayload(e) = [e EXCEPT !.inputs["openai"] = "none"]
      BY DEF Image!DropPayload
    <3> QED
      <4>1. PICK r2 : r2 = IF s.by = "openai" THEN [e EXCEPT !.inputs["openai"] = "none"] ELSE e
        OBVIOUS
      <4>2. images' = [images EXCEPT ![x] = r2]
        BY <3>4, <3>5, <4>1
      <4>3. e \in Image!Answered(x, s, b) \/ e = [r EXCEPT !.status[p] = "error"]
        BY <3>1, <3>3
      <4> QED
        BY <2>4, <4>1, <4>2, <4>3
  <2> QED
    BY <2>3, <2>4
<1>11. Asks(r, r2, p)
  <2>1. CASE r.filtered /\ r2 = r
    BY <1>5, <1>6, <1>7, <2>1 DEF Asks
  <2>2. CASE /\ ~r.filtered /\ (e \in Image!Answered(x, s, b) \/ e = [r EXCEPT !.status[p] = "error"])
             /\ r2 = IF s.by = "openai" THEN [e EXCEPT !.inputs["openai"] = "none"] ELSE e
    <3>1. PICK y, z : \/ e = [r EXCEPT !.answers[p] = [says |-> z, about |-> b], !.status[p] = "success"]
                      \/ y \in {"blocked", "error"} /\ e = [r EXCEPT !.status[p] = y]
      <4>1. CASE e \in Image!Answered(x, s, b)
        <5>1. s.for = p /\ r = images[x] /\ e \in Image!Answered(x, s, b)
          BY <1>1, <1>3, <4>1
        <5> QED
          <6>1. IsAnswered(e, r, p, b)
            BY ONLY <5>1, AnsweredIs
          <6> QED
            BY ONLY <6>1 DEF IsAnswered
      <4> QED
        BY <2>2, <4>1
    <3>2. /\ IsImage(e) /\ e.filtered = r.filtered /\ e.data = r.data /\ e.embedded = r.embedded
          /\ e.errors = r.errors /\ e.inputs = r.inputs
          /\ \A q \in Image!Purposes \ {p} : e.answers[q] = r.answers[q] /\ e.status[q] = r.status[q]
          /\ \/ e.status[p] = "success" /\ e.answers[p].about = b
             \/ e.status[p] \in {"blocked", "error"} /\ e.answers[p] = r.answers[p]
      <4>1. CASE e = [r EXCEPT !.answers[p] = [says |-> z, about |-> b], !.status[p] = "success"]
        <5>1. [says |-> z, about |-> b].about = b
          OBVIOUS
        <5>2. PICK a : a = [says |-> z, about |-> b] /\ a.about = b
          BY <5>1
        <5> QED
          BY <1>5, <4>1, <5>2 DEF IsImage, Fields
      <4>2. CASE y \in {"blocked", "error"} /\ e = [r EXCEPT !.status[p] = y]
        BY <1>5, <4>2 DEF IsImage, Fields
      <4> QED
        BY <3>1, <4>1, <4>2
    <3>3. /\ IsImage(r2) /\ r2.filtered = e.filtered /\ r2.data = e.data /\ r2.embedded = e.embedded
          /\ r2.errors = e.errors /\ r2.answers = e.answers /\ r2.status = e.status
          /\ r2.inputs["vllm"] = e.inputs["vllm"]
          /\ r2.inputs["openai"] = IF s.by = "openai" THEN "none" ELSE e.inputs["openai"]
      <4>1. CASE s.by = "openai"
        BY <2>2, <3>2, <4>1 DEF IsImage, Fields
      <4>2. CASE s.by # "openai"
        BY <2>2, <3>2, <4>2
      <4> QED
        BY <4>1, <4>2
    <3>4. \A m \in {"vllm", "openai"} : r2.inputs[m] = "none"
      BY <1>4, <1>7, <3>2, <3>3
    <3> QED
      BY <1>4, <1>6, <1>9, <2>2, <3>2, <3>3, <3>4 DEF Asks
  <2> QED
    BY <1>10, <2>1, <2>2
<1>12. CarriesAt(r2, k + 1) /\ k <= CaptionEnd
  BY <1>2, <1>3, <1>5, <1>11, AskCarries
<1> QED
  BY <1>1, <1>10, <1>12

\* The filters: an image stays only with an answer that lets it through.
LEMMA JudgeCarries ==
  ASSUME ImageInv, NEW x \in Image!All, Image!Judge(x)
  PROVE  \E r2 : images' = [images EXCEPT ![x] = r2] /\ CarriesAt(r2, at[x] + 1) /\ at[x] <= CaptionEnd
<1>1. PICK k, r, s : k = at[x] /\ r = images[x] /\ s = Image!Stage(x)
  OBVIOUS
<1>2. /\ CarriesAt(r, k) /\ setup \in Setups /\ k \in 1 .. CaptionEnd + 3 /\ CaptionEnd \in Nat
      /\ PlaceIs(s, k) /\ s.do = "judge" /\ images = [z \in Image!All |-> images[z]]
  <2>1. Image!Before(x, "judge")
    BY DEF Image!Judge
  <2>2. /\ CarriesAt(images[x], at[x]) /\ setup \in Setups /\ at[x] \in 1 .. CaptionEnd + 3 /\ CaptionEnd \in Nat
        /\ PlaceIs(Image!Stage(x), at[x]) /\ Image!Stage(x).do = "judge"
    BY <2>1, Standing, Zenon
  <2> QED
    BY <1>1, <2>2 DEF ImageInv
<1>3. PICK p \in {"semantic", "classifier"} : Image!Asked(p) /\ k = AskAt(p) + 1 /\ s.for = p /\ s.by = Image!Model(p)
  BY <1>2 DEF PlaceIs
<1>4. IsImage(r) /\ k \in Nat /\ RequestsHold(r, k) /\ AnswersHold(r, k) /\ FilterHolds(r, k) /\ ReasonsHold(r, k)
  BY <1>2 DEF CarriesAt
<1>5. /\ SemanticEnd \in Nat /\ ClassifierEnd \in Nat /\ EmbedEnd \in Nat
      /\ SemanticEnd <= ClassifierEnd /\ ClassifierEnd <= EmbedEnd /\ EmbedEnd <= CaptionEnd
      /\ k > 1 /\ (p = "semantic" => k = SemanticEnd) /\ (p = "classifier" => k = ClassifierEnd /\ k > SemanticEnd)
      /\ k = SemanticEnd => Image!Asked("semantic") /\ p = "semantic"
      /\ p = "semantic" /\ Image!Asked("classifier") => k < AskAt("classifier")
      /\ p = "semantic" /\ Image!Asked("classifier") => k < ClassifierEnd
      /\ p = "semantic" /\ ~Image!Asked("classifier") => k = ClassifierEnd
      /\ k = EmbedEnd => ~setup.embed
      /\ k = CaptionEnd => ~Image!Asked("caption")
      /\ AskAt("caption") = CaptionEnd /\ k <= CaptionEnd
  <2>1. /\ AskAt("semantic") \in Nat /\ AskAt("classifier") \in Nat /\ AskAt("caption") \in Nat /\ k \in Nat
        /\ setup.embed \in BOOLEAN
    BY <1>2, Places3, Ordered, SetupIs
  <2>2. CASE p = "semantic"
    BY <1>2, <1>3, <2>2, <2>1, Places3
  <2>3. CASE p = "classifier"
    BY <1>2, <1>3, <2>3, <2>1, Places3
  <2> QED
    BY <2>2, <2>3
<1>6. /\ \A m \in {"vllm", "openai"} : r.inputs[m] = "none"
      /\ Image!Model("caption") \in {"vllm", "openai"} => k + 1 # AskAt("caption")
  <2>1. \A q \in Image!Purposes : q = "semantic" \/ q = "classifier" \/ q = "caption"
    BY <1>2, Ordered
  <2>2. \A q \in Image!Purposes : Image!Asked(q) => k # AskAt(q)
    BY <1>2, <1>3, <1>5, <2>1, Places3
  <2>3. Image!Model("caption") \in {"vllm", "openai"} => k + 1 # AskAt("caption")
    BY <1>2, <1>5, Ordered, Places3 DEF Image!Asked
  <2> QED
    BY <1>2, <1>4, <2>2, <2>3, NothingWaits
<1>7. PICK y, z : /\ z \in BOOLEAN
                  /\ r.filtered => y = r.errors /\ z = TRUE
                  /\ ~r.filtered =>
                       /\ z = ~Passed(r, p)
                       /\ r.errors \subseteq y
                       /\ r.status[p] = "none" => Image!Model(p) \in y
                  /\ images' = [images EXCEPT ![x] = [r EXCEPT !.errors = y, !.filtered = z]]
  <2>1. Image!Key(s.for, s.by) = p
    BY <1>3 DEF Image!Key
  <2>2. CASE r.filtered
    <3>1. images' = images
      BY <1>1, <2>2 DEF Image!Judge
    <3>2. [r EXCEPT !.errors = r.errors, !.filtered = TRUE] = r
      BY <1>4, <2>2 DEF IsImage, Fields
    <3>3. images' = [images EXCEPT ![x] = r]
      BY <1>1, <1>2, <3>1
    <3>4. images' = [images EXCEPT ![x] = [r EXCEPT !.errors = r.errors, !.filtered = TRUE]]
      BY ONLY <3>2, <3>3
    <3> QED
      BY <2>2, <3>4
  <2>3. CASE ~r.filtered
    <3>1. PICK y, z : /\ y = IF Image!Missed(x, s) THEN r.errors \cup {s.by} ELSE r.errors
                      /\ z = ~Image!PassesFilter(s, r.answers[p].says)
      OBVIOUS
    <3>2. images' = [images EXCEPT ![x].errors = y, ![x].filtered = z]
      BY <1>1, <2>1, <2>3, <3>1 DEF Image!Judge
    <3>3. images' = [images EXCEPT ![x] = [r EXCEPT !.errors = y, !.filtered = z]]
      BY <1>1, <3>2
    <3>4. z = ~Passed(r, p) /\ z \in BOOLEAN
      BY <1>3, <3>1 DEF Passed, Image!PassesFilter
    <3>5. r.errors \subseteq y
      BY <3>1
    <3>6. r.status[p] = "none" => Image!Model(p) \in y
      <4>1. p \in Image!Purposes
        BY <1>2, <1>3, Ordered
      <4>2. r.status[p] = "none" => r.answers[p] = Image!NoAnswer
        BY <1>4, <4>1 DEF AnswersHold
      <4>3. r.status[p] = "none" => Image!Missed(x, s)
        BY <1>1, <2>1, <4>2 DEF Image!Missed
      <4> QED
        BY <1>3, <3>1, <4>3
    <3> QED
      BY <2>3, <3>3, <3>4, <3>5, <3>6
  <2> QED
    BY <2>2, <2>3
<1>8. PICK r2 : r2 = [r EXCEPT !.errors = y, !.filtered = z]
  OBVIOUS
<1>9. /\ IsImage(r2) /\ r2.errors = y /\ r2.filtered = z /\ r2.data = r.data /\ r2.embedded = r.embedded
      /\ r2.answers = r.answers /\ r2.status = r.status /\ r2.inputs = r.inputs
  BY <1>4, <1>7, <1>8 DEF IsImage, Fields
<1>10. RequestsHold(r2, k + 1)
  BY <1>2, <1>4, <1>6, <1>9, StillNothing
<1>11. AnswersHold(r2, k + 1)
  BY <1>2, <1>4, <1>9, AnswersKept
<1>12. \A q : Passed(r2, q) <=> Passed(r, q)
  BY <1>9 DEF Passed
<1>13. r.errors \subseteq y
  BY <1>7, <1>4 DEF IsImage
<1>14. /\ r.status["classifier"] = "none" \/ p = "classifier"
       /\ r.status["caption"] = "none"
  <2>1. "classifier" \in Image!Purposes /\ "caption" \in Image!Purposes
    BY <1>2, Ordered
  <2> QED
    <3>1. /\ p = "semantic" => ~Image!Asked("classifier") \/ k <= AskAt("classifier")
          /\ k <= AskAt("caption")
      BY <1>2, <1>4, <1>5, <2>1, Places3
    <3> QED
      BY <1>3, <1>4, <2>1, <3>1 DEF AnswersHold
<1>15. FilterHolds(r2, k + 1) /\ ReasonsHold(r2, k + 1)
  <2>1. CASE p = "semantic"
    <3>1. ~r.filtered /\ r2.filtered = ~Passed(r, "semantic")
      BY <1>4, <1>5, <1>7, <1>9, <2>1 DEF FilterHolds
    <3>2. ~Image!Asked("classifier") => Passed(r, "classifier")
      BY DEF Passed
    <3>3. FilterHolds(r2, k + 1)
      <4>1. k + 1 > SemanticEnd /\ k <= ClassifierEnd /\ k = SemanticEnd
        BY <1>4, <1>5, <2>1
      <4>2. k + 1 > ClassifierEnd => Passed(r, "classifier")
        BY <1>4, <1>5, <2>1, <3>2
      <4>3. r.status["classifier"] = "none" /\ r.status["caption"] = "none"
        <5>1. "classifier" \in Image!Purposes
          BY <1>2, Ordered
        <5>2. ~Image!Asked("classifier") \/ k <= AskAt("classifier")
          BY <1>2, <1>4, <1>5, <2>1, <5>1, Places3
        <5> QED
          BY <1>4, <1>14, <5>1, <5>2 DEF AnswersHold
      <4>4. ~(k + 1 <= SemanticEnd)
        BY <1>4, <1>5, <2>1
      <4> QED
        BY <1>9, <1>12, <3>1, <4>1, <4>2, <4>3, <4>4 DEF FilterHolds
    <3>4. ReasonsHold(r2, k + 1)
      <4>1. k + 1 > 1 => r2.data \/ "download" \in r2.errors
        BY <1>4, <1>5, <1>9, <1>13 DEF ReasonsHold
      <4>2. r2.status["semantic"] = "none" => Image!Model("semantic") \in r2.errors
        BY <1>7, <1>9, <2>1, <3>1
      <4>3. ~(k + 1 > ClassifierEnd /\ Image!Asked("classifier"))
        BY <1>4, <1>5, <2>1
      <4>4. ~(k + 1 > EmbedEnd /\ setup.embed)
        BY <1>4, <1>5, <2>1
      <4>5. ~(k + 1 > CaptionEnd /\ Image!Asked("caption"))
        BY <1>2, <1>4, <1>5, <2>1
      <4> QED
        BY <4>1, <4>2, <4>3, <4>4, <4>5 DEF ReasonsHold
    <3> QED
      BY <3>3, <3>4
  <2>2. CASE p = "classifier"
    <3>1. /\ r.filtered <=> ~Passed(r, "semantic")
          /\ r2.filtered <=> ~(Passed(r, "semantic") /\ Passed(r, "classifier"))
      BY <1>4, <1>5, <1>7, <1>9, <2>2 DEF FilterHolds
    <3>2. ~Passed(r, "semantic") => r.status["classifier"] = "none"
      BY <1>4, <1>5, <2>2 DEF FilterHolds
    <3>3. FilterHolds(r2, k + 1)
      BY <1>5, <1>9, <1>12, <1>14, <2>2, <3>1, <3>2 DEF FilterHolds
    <3>4. ReasonsHold(r2, k + 1)
      <4>1. k + 1 > 1 => r2.data \/ "download" \in r2.errors
        BY <1>4, <1>5, <1>9, <1>13 DEF ReasonsHold
      <4>2. k > SemanticEnd
        BY <1>5, <2>2
      <4>3. Image!Asked("semantic") /\ r2.status["semantic"] = "none" => Image!Model("semantic") \in r2.errors
        BY <1>4, <1>9, <1>13, <4>2 DEF ReasonsHold
      <4>4. r2.status["classifier"] = "none" /\ Passed(r2, "semantic") => Image!Model("classifier") \in r2.errors
        BY <1>7, <1>9, <1>12, <2>2, <3>1
      <4>5. ~(k + 1 > EmbedEnd /\ setup.embed)
        BY <1>4, <1>5, <2>2
      <4>6. ~(k + 1 > CaptionEnd /\ Image!Asked("caption"))
        BY <1>2, <1>4, <1>5, <2>2
      <4> QED
        BY <4>1, <4>3, <4>4, <4>5, <4>6 DEF ReasonsHold
    <3> QED
      BY <3>3, <3>4
  <2> QED
    BY <2>1, <2>2
<1>16. CarriesAt(r2, k + 1)
  BY <1>2, <1>9, <1>10, <1>11, <1>15 DEF CarriesAt
<1> QED
  BY <1>1, <1>5, <1>7, <1>8, <1>16

-----------------------------------------------------------------------------
\* What is said of an image is said of it after a step that leaves the command line alone.
LEMMA StillCarries ==
  ASSUME setup' = setup, NEW r, NEW k, CarriesAt(r, k), NEW z, images'[z] = r, at'[z] = k
  PROVE  CarriesAt(images[z], at[z])'
<1>1. SemanticEnd' = SemanticEnd /\ ClassifierEnd' = ClassifierEnd /\ EmbedEnd' = EmbedEnd /\ CaptionEnd' = CaptionEnd
  BY DEF SemanticEnd, ClassifierEnd, EmbedEnd, CaptionEnd
<1>2. \A p : AskAt(p)' = AskAt(p)
  BY <1>1 DEF AskAt
<1>3. \A p : Image!Model(p)' = Image!Model(p)
  BY DEF Image!Model
<1>4. \A p : Image!Asked(p)' <=> Image!Asked(p)
  BY <1>3 DEF Image!Asked
<1>5. \A p : Passed(images[z], p)' <=> Passed(r, p)
  BY <1>4 DEF Passed
<1>6. IsImage(images[z])'
  BY DEF CarriesAt, IsImage
<1>7. RequestsHold(images[z], at[z])'
  BY <1>2, <1>3 DEF CarriesAt, RequestsHold
<1>8. AnswersHold(images[z], at[z])'
  BY <1>2, <1>3, <1>4 DEF CarriesAt, AnswersHold
<1>9. FilterHolds(images[z], at[z])'
  BY <1>1, <1>5 DEF CarriesAt, FilterHolds
<1>10. ReasonsHold(images[z], at[z])'
  BY <1>1, <1>3, <1>4, <1>5 DEF CarriesAt, ReasonsHold
<1> QED
  BY <1>1, <1>6, <1>7, <1>8, <1>9, <1>10 DEF CarriesAt

\* A step of one image leaves the others alone.
LEMMA OneMoves ==
  ASSUME ImageInv, NEW x \in Image!All, NEW r2, NEW k2, NEW d,
         setup' = setup, taken' = taken, phase' # "finished",
         images' = [images EXCEPT ![x] = r2], at' = [at EXCEPT ![x] = k2], metas' = [metas EXCEPT ![x] = d],
         files \subseteq files', npys \subseteq npys',
         CarriesAt(r2, k2), FilesHold(x)', d # Image!NoMeta => <<d, x>> \in files'
  PROVE  ImageInv'
<1>1. Image!All' = Image!All /\ CaptionEnd' = CaptionEnd
  BY DEF Image!All, CaptionEnd, EmbedEnd, ClassifierEnd, SemanticEnd
<1>2. /\ images = [z \in Image!All |-> images[z]] /\ at = [z \in Image!All |-> at[z]]
      /\ metas = [z \in Image!All |-> metas[z]]
      /\ setup \in Setups /\ taken \subseteq Image!All
  BY DEF ImageInv
<1>3. /\ images' = [z \in Image!All |-> images'[z]] /\ at' = [z \in Image!All |-> at'[z]]
      /\ metas' = [z \in Image!All |-> metas'[z]]
      /\ images'[x] = r2 /\ at'[x] = k2 /\ metas'[x] = d
      /\ \A z \in Image!All \ {x} : images'[z] = images[z] /\ at'[z] = at[z] /\ metas'[z] = metas[z]
  BY <1>2
<1>4. ASSUME NEW z \in Image!All PROVE CarriesAt(images[z], at[z])' /\ FilesHold(z)'
  <2>1. CASE z = x
    <3>1. CarriesAt(images[x], at[x])'
      BY <1>3, StillCarries
    <3> QED
      BY <2>1, <3>1
  <2>2. CASE z # x
    <3>1. /\ CarriesAt(images[z], at[z]) /\ FilesHold(z)
          /\ images'[z] = images[z] /\ at'[z] = at[z] /\ metas'[z] = metas[z]
      BY <1>3, <2>2 DEF ImageInv
    <3>2. CarriesAt(images[z], at[z])'
      BY <3>1, StillCarries
    <3>3. Image!Directory(z)' = Image!Directory(z)
      BY <3>1 DEF Image!Directory
    <3>4. FilesHold(z)'
      BY <1>1, <3>1, <3>3 DEF FilesHold
    <3> QED
      BY <3>2, <3>4
  <2> QED
    BY <2>1, <2>2
<1>5. ASSUME NEW z \in Image!All, metas'[z] # Image!NoMeta PROVE <<metas'[z], z>> \in files'
  <2>1. CASE z = x
    BY <1>3, <1>5, <2>1
  <2>2. CASE z # x
    BY <1>3, <1>5, <2>2 DEF ImageInv
  <2> QED
    BY <2>1, <2>2
<1> QED
  BY <1>1, <1>2, <1>3, <1>4, <1>5 DEF ImageInv, Image!NoMeta

\* Before the writer, nothing is written.
LEMMA NotYetWritten ==
  ASSUME ImageInv, NEW x \in Image!All, Image!GoOn(x), Image!Unchanged, phase = "running",
         \E r2 : images' = [images EXCEPT ![x] = r2] /\ CarriesAt(r2, at[x] + 1) /\ at[x] <= CaptionEnd
  PROVE  ImageInv'
<1>1. PICK r2 : images' = [images EXCEPT ![x] = r2] /\ CarriesAt(r2, at[x] + 1) /\ at[x] <= CaptionEnd
  OBVIOUS
<1>2. PICK k, d : k = at[x] /\ d = metas[x]
  OBVIOUS
<1>3. /\ CarriesAt(images[x], at[x]) /\ metas = [z \in Image!All |-> metas[z]] /\ at = [z \in Image!All |-> at[z]]
      /\ d # Image!NoMeta => <<d, x>> \in files
      /\ setup \in Setups
  BY <1>2 DEF ImageInv
<1>4. CaptionEnd \in Nat /\ k \in Nat
  BY <1>2, <1>3, Places3 DEF CarriesAt
<1>5. /\ setup' = setup /\ taken' = taken /\ phase' # "finished" /\ files' = files /\ npys' = npys
      /\ metas' = metas /\ at' = [at EXCEPT ![x] = k + 1] /\ at'[x] = k + 1
  BY <1>2, <1>3 DEF Image!Unchanged, Image!GoOn
<1>6. metas' = [metas EXCEPT ![x] = d]
  BY <1>2, <1>3, <1>5
<1>7. CaptionEnd' = CaptionEnd
  BY <1>5 DEF CaptionEnd, EmbedEnd, ClassifierEnd, SemanticEnd
<1>8. at'[x] <= CaptionEnd' + 1 /\ at'[x] \in Nat
  BY <1>1, <1>2, <1>4, <1>5, <1>7
<1>9. FilesHold(x)'
  BY <1>4, <1>7, <1>8 DEF FilesHold
<1> QED
  BY <1>1, <1>2, <1>3, <1>5, <1>6, <1>9, OneMoves

\* The writer's stages come after every question, filter and embedding.
LEMMA Behind ==
  ASSUME setup \in Setups, NEW k \in Nat, k > CaptionEnd, k <= CaptionEnd + 3, NEW r, CarriesAt(r, k)
  PROVE  /\ CarriesAt(r, k + 1) /\ CarriesAt(r, CaptionEnd + 1)
         /\ \A r2 : r2 = [r EXCEPT !.errors = r.errors \cup {"write"}] => CarriesAt(r2, CaptionEnd + 4) /\ r2.data = r.data
<1>1. /\ SemanticEnd \in Nat /\ ClassifierEnd \in Nat /\ EmbedEnd \in Nat /\ CaptionEnd \in Nat /\ 1 <= SemanticEnd
      /\ SemanticEnd <= ClassifierEnd /\ ClassifierEnd <= EmbedEnd /\ EmbedEnd <= CaptionEnd
      /\ \A p \in Image!Purposes : AskAt(p) \in Nat
  BY Places3
<1>2. /\ \A p \in Image!Purposes : Image!Asked(p) => AskAt(p) <= CaptionEnd
      /\ AskAt("caption") = CaptionEnd
  <2>1. Image!Purposes = {"semantic", "classifier", "caption"}
    BY Ordered
  <2> QED
    BY <1>1, <2>1, Places3
<1>3. IsImage(r) /\ RequestsHold(r, k) /\ AnswersHold(r, k) /\ FilterHolds(r, k) /\ ReasonsHold(r, k)
  BY DEF CarriesAt
<1>4. \A m \in {"vllm", "openai"} : r.inputs[m] = "none"
  <2>1. \A p \in Image!Purposes : Image!Asked(p) => k # AskAt(p)
    BY <1>1, <1>2
  <2> QED
    BY <1>3, <2>1, NothingWaits
<1>5. ASSUME NEW j \in Nat, j > CaptionEnd, j <= CaptionEnd + 4, NEW e, IsImage(e), e.inputs = r.inputs,
             e.answers = r.answers, e.status = r.status, e.filtered = r.filtered, e.data = r.data,
             e.embedded = r.embedded, r.errors \subseteq e.errors
      PROVE  CarriesAt(e, j)
  <2>1. j > 1 /\ j > SemanticEnd /\ j > ClassifierEnd /\ j > EmbedEnd /\ ~(j <= SemanticEnd) /\ ~(j <= ClassifierEnd)
    BY <1>1, <1>5
  <2>2. k > 1 /\ k > SemanticEnd /\ k > ClassifierEnd /\ k > EmbedEnd /\ ~(k <= SemanticEnd) /\ ~(k <= ClassifierEnd)
    BY <1>1
  <2>3. \A p \in Image!Purposes : Image!Asked(p) => j # AskAt(p) /\ ~(j <= AskAt(p))
    BY <1>1, <1>2, <1>5
  <2>4. RequestsHold(e, j)
    BY <1>1, <1>2, <1>4, <1>5 DEF RequestsHold
  <2>5. AnswersHold(e, j)
    BY <1>3, <1>5, <2>3 DEF AnswersHold
  <2>6. \A p : Passed(e, p) <=> Passed(r, p)
    BY <1>5 DEF Passed
  <2>7. FilterHolds(e, j)
    BY <1>3, <1>5, <2>1, <2>2, <2>6 DEF FilterHolds
  <2>8. ReasonsHold(e, j)
    BY <1>3, <1>5, <2>1, <2>2, <2>6 DEF ReasonsHold
  <2>9. j \in 1 .. CaptionEnd + 4
    BY <1>1, <1>5
  <2> QED
    BY <1>5, <2>4, <2>5, <2>7, <2>8, <2>9 DEF CarriesAt
<1>6. /\ k + 1 \in Nat /\ k + 1 > CaptionEnd /\ k + 1 <= CaptionEnd + 4
      /\ CaptionEnd + 1 \in Nat /\ CaptionEnd + 1 > CaptionEnd /\ CaptionEnd + 1 <= CaptionEnd + 4
      /\ CaptionEnd + 4 \in Nat /\ CaptionEnd + 4 > CaptionEnd /\ CaptionEnd + 4 <= CaptionEnd + 4
  BY <1>1
<1>7. CarriesAt(r, k + 1) /\ CarriesAt(r, CaptionEnd + 1)
  BY <1>3, <1>5, <1>6
<1>8. ASSUME NEW r2, r2 = [r EXCEPT !.errors = r.errors \cup {"write"}]
      PROVE  CarriesAt(r2, CaptionEnd + 4) /\ r2.data = r.data
  <2>1. /\ IsImage(r2) /\ r2.inputs = r.inputs /\ r2.answers = r.answers /\ r2.status = r.status
        /\ r2.filtered = r.filtered /\ r2.data = r.data /\ r2.embedded = r.embedded /\ r.errors \subseteq r2.errors
    BY <1>3, <1>8 DEF IsImage, Fields
  <2> QED
    BY <1>5, <1>6, <2>1
<1> QED
  BY <1>7, <1>8

LEMMA WriterPlaces ==
  \A c \in Nat : \A k \in 1 .. c + 3 :
    k \in Nat /\ k <= c + 3 /\ (k = c + 1 => k > c) /\ (k = c + 2 => k > c) /\ (k = c + 3 => k > c)
OBVIOUS

\* What is known of an image before a stage of the writer.
LEMMA AtWriter ==
  ASSUME ImageInv, NEW x \in Image!All, NEW what, what \in {"write image", "write meta", "write embedding"},
         Image!Before(x, what)
  PROVE  /\ setup \in Setups /\ phase = "running" /\ at[x] \in Nat /\ CaptionEnd \in Nat
         /\ what = "write image" => at[x] = CaptionEnd + 1
         /\ what = "write meta" => at[x] = CaptionEnd + 2
         /\ what = "write embedding" => at[x] = CaptionEnd + 3
         /\ CarriesAt(images[x], at[x]) /\ FilesHold(x)
         /\ at[x] > CaptionEnd /\ at[x] <= CaptionEnd + 3
         /\ images = [z \in Image!All |-> images[z]] /\ at = [z \in Image!All |-> at[z]]
         /\ metas = [z \in Image!All |-> metas[z]]
         /\ metas[x] # Image!NoMeta => <<metas[x], x>> \in files
<1>1. /\ setup \in Setups /\ phase = "running" /\ at[x] \in 1 .. CaptionEnd + 3 /\ CaptionEnd \in Nat
      /\ CarriesAt(images[x], at[x]) /\ PlaceIs(Image!Stage(x), at[x]) /\ Image!Stage(x).do = what
  BY Standing, Zenon
<1>2. /\ what = "write image" => at[x] = CaptionEnd + 1
      /\ what = "write meta" => at[x] = CaptionEnd + 2
      /\ what = "write embedding" => at[x] = CaptionEnd + 3
  BY <1>1 DEF PlaceIs
<1>3. at[x] \in Nat /\ at[x] > CaptionEnd /\ at[x] <= CaptionEnd + 3
  BY <1>1, <1>2, WriterPlaces, Zenon
<1> QED
  BY <1>1, <1>2, <1>3 DEF ImageInv

LEMMA WriteImageKeeps ==
  ASSUME ImageInv, NEW x \in Image!All, Image!WriteImage(x)
  PROVE  ImageInv'
<1>1. PICK k, r, d : k = at[x] /\ r = images[x] /\ d = metas[x]
  OBVIOUS
<1>2. /\ setup \in Setups /\ phase = "running" /\ k \in Nat /\ CaptionEnd \in Nat /\ k = CaptionEnd + 1
      /\ CarriesAt(r, k) /\ k > CaptionEnd /\ k <= CaptionEnd + 3
      /\ images = [z \in Image!All |-> images[z]] /\ at = [z \in Image!All |-> at[z]]
      /\ metas = [z \in Image!All |-> metas[z]] /\ (d # Image!NoMeta => <<d, x>> \in files)
  <2>1. Image!Before(x, "write image")
    BY DEF Image!WriteImage
  <2> QED
    BY <1>1, <2>1, AtWriter
<1>3. /\ setup' = setup /\ taken' = taken /\ phase' # "finished" /\ npys' = npys /\ metas' = metas
  BY <1>2 DEF Image!WriteImage
<1>4. CaptionEnd' = CaptionEnd
  BY <1>3 DEF CaptionEnd, EmbedEnd, ClassifierEnd, SemanticEnd
<1>5. metas' = [metas EXCEPT ![x] = d]
  BY <1>1, <1>2, <1>3
<1>6. CASE r.data
  <2>1. files' = Image!Put(x) /\ Image!GoOn(x) /\ images' = images
    BY <1>1, <1>6 DEF Image!WriteImage
  <2>2. at' = [at EXCEPT ![x] = k + 1] /\ at'[x] = k + 1 /\ images' = [images EXCEPT ![x] = r] /\ images'[x] = r
    BY <1>1, <1>2, <2>1 DEF Image!GoOn
  <2>3. files \subseteq files' /\ <<Image!Directory(x), x>> \in files' /\ Image!Directory(x)' = Image!Directory(x)
    BY <2>1 DEF Image!Put, Image!Directory
  <2>4. at'[x] = CaptionEnd' + 2 /\ ~(at'[x] > CaptionEnd' + 2) /\ ~(at'[x] > CaptionEnd' + 3)
    BY <1>2, <1>4, <2>2
  <2>5. FilesHold(x)'
    BY <1>6, <2>2, <2>3, <2>4 DEF FilesHold
  <2>6. CarriesAt(r, k + 1)
    BY <1>2, Behind
  <2> QED
    BY <1>2, <1>3, <1>5, <2>2, <2>3, <2>5, <2>6, OneMoves
<1>7. CASE ~r.data
  <2>1. PICK r2 : r2 = [r EXCEPT !.errors = r.errors \cup {"write"}]
    OBVIOUS
  <2>2. /\ images' = [images EXCEPT ![x] = r2] /\ at' = [at EXCEPT ![x] = CaptionEnd + 4] /\ files' = files
    <3>1. /\ images' = [images EXCEPT ![x].errors = r.errors \cup {"write"}]
          /\ at' = [at EXCEPT ![x] = Len(Image!Stages) + 1] /\ files' = files
      BY <1>1, <1>7 DEF Image!WriteImage
    <3>2. Len(Image!Stages) + 1 = CaptionEnd + 4
      BY <1>2, StagesAre
    <3> QED
      BY <1>1, <2>1, <3>1, <3>2
  <2>3. CarriesAt(r2, CaptionEnd + 4) /\ r2.data = r.data
    BY <1>2, <2>1, Behind
  <2>4. images'[x] = r2 /\ at'[x] = CaptionEnd + 4
    BY <1>2, <2>2
  <2>5. ~images'[x].data /\ at'[x] \notin {CaptionEnd' + 2, CaptionEnd' + 3}
    BY <1>2, <1>4, <1>7, <2>3, <2>4
  <2>6. FilesHold(x)'
    BY <2>5 DEF FilesHold
  <2> QED
    BY <1>2, <1>3, <1>5, <2>2, <2>3, <2>6, OneMoves
<1> QED
  BY <1>6, <1>7

LEMMA WriteMetaKeeps ==
  ASSUME ImageInv, NEW x \in Image!All, Image!WriteMeta(x)
  PROVE  ImageInv'
<1>1. PICK k, r, d : k = at[x] /\ r = images[x] /\ d = Image!Directory(x)
  OBVIOUS
<1>2. /\ setup \in Setups /\ phase = "running" /\ k \in Nat /\ CaptionEnd \in Nat /\ k = CaptionEnd + 2
      /\ CarriesAt(r, k) /\ k > CaptionEnd /\ k <= CaptionEnd + 3 /\ FilesHold(x)
      /\ images = [z \in Image!All |-> images[z]] /\ at = [z \in Image!All |-> at[z]]
      /\ metas = [z \in Image!All |-> metas[z]]
  <2>1. Image!Before(x, "write meta")
    BY DEF Image!WriteMeta
  <2> QED
    BY <1>1, <2>1, AtWriter
<1>3. /\ setup' = setup /\ taken' = taken /\ phase' # "finished" /\ npys' = npys /\ files' = files
      /\ images' = images /\ Image!GoOn(x) /\ metas' = [metas EXCEPT ![x] = d]
  BY <1>1, <1>2 DEF Image!WriteMeta
<1>4. CaptionEnd' = CaptionEnd /\ Image!Directory(x)' = Image!Directory(x)
  BY <1>3 DEF CaptionEnd, EmbedEnd, ClassifierEnd, SemanticEnd, Image!Directory
<1>5. /\ at' = [at EXCEPT ![x] = k + 1] /\ at'[x] = k + 1 /\ images' = [images EXCEPT ![x] = r] /\ images'[x] = r
      /\ metas'[x] = d
  BY <1>1, <1>2, <1>3 DEF Image!GoOn
<1>6. r.data /\ <<d, x>> \in files
  BY <1>1, <1>2 DEF FilesHold
<1>7. at'[x] = CaptionEnd' + 3 /\ ~(at'[x] > CaptionEnd' + 3)
  BY <1>2, <1>4, <1>5
<1>8. FilesHold(x)'
  BY <1>1, <1>3, <1>4, <1>5, <1>6, <1>7 DEF FilesHold
<1>9. CarriesAt(r, k + 1)
  BY <1>2, Behind
<1> QED
  BY <1>2, <1>3, <1>5, <1>6, <1>8, <1>9, OneMoves

LEMMA WriteEmbeddingKeeps ==
  ASSUME ImageInv, NEW x \in Image!All, Image!WriteEmbedding(x)
  PROVE  ImageInv'
<1>1. PICK k, r, d : k = at[x] /\ r = images[x] /\ d = metas[x]
  OBVIOUS
<1>2. /\ setup \in Setups /\ phase = "running" /\ k \in Nat /\ CaptionEnd \in Nat /\ k = CaptionEnd + 3
      /\ CarriesAt(r, k) /\ k > CaptionEnd /\ k <= CaptionEnd + 3 /\ FilesHold(x)
      /\ images = [z \in Image!All |-> images[z]] /\ at = [z \in Image!All |-> at[z]]
      /\ metas = [z \in Image!All |-> metas[z]] /\ (d # Image!NoMeta => <<d, x>> \in files)
  <2>1. Image!Before(x, "write embedding")
    BY DEF Image!WriteEmbedding
  <2> QED
    BY <1>1, <2>1, AtWriter
<1>3. /\ setup' = setup /\ taken' = taken /\ phase' # "finished" /\ files' = files /\ metas' = metas
      /\ images' = images /\ Image!GoOn(x) /\ npys \subseteq npys' /\ (r.embedded => x \in npys')
  BY <1>1, <1>2 DEF Image!WriteEmbedding
<1>4. CaptionEnd' = CaptionEnd /\ Image!Directory(x)' = Image!Directory(x)
  BY <1>3 DEF CaptionEnd, EmbedEnd, ClassifierEnd, SemanticEnd, Image!Directory
<1>5. /\ at' = [at EXCEPT ![x] = k + 1] /\ at'[x] = k + 1 /\ images' = [images EXCEPT ![x] = r] /\ images'[x] = r
      /\ metas' = [metas EXCEPT ![x] = d] /\ metas'[x] = d
  BY <1>1, <1>2, <1>3 DEF Image!GoOn
<1>6. r.data /\ <<Image!Directory(x), x>> \in files /\ d = Image!Directory(x)
  BY <1>1, <1>2 DEF FilesHold
<1>7. at'[x] = CaptionEnd' + 4 /\ at'[x] \notin {CaptionEnd' + 2, CaptionEnd' + 3}
  BY <1>2, <1>4, <1>5
<1>8. FilesHold(x)'
  BY <1>3, <1>4, <1>5, <1>6, <1>7 DEF FilesHold
<1>9. CarriesAt(r, k + 1)
  BY <1>2, Behind
<1> QED
  BY <1>2, <1>3, <1>5, <1>8, <1>9, OneMoves

LEMMA WriteAgainKeeps ==
  ASSUME ImageInv, NEW x \in Image!All, Image!WriteAgain(x)
  PROVE  ImageInv'
<1>1. PICK k, r, d : k = at[x] /\ r = images[x] /\ d = metas[x]
  OBVIOUS
<1>2. /\ setup \in Setups /\ phase = "running" /\ k \in Nat /\ CaptionEnd \in Nat
      /\ CarriesAt(r, k) /\ k > CaptionEnd /\ k <= CaptionEnd + 3
      /\ images = [z \in Image!All |-> images[z]] /\ at = [z \in Image!All |-> at[z]]
      /\ metas = [z \in Image!All |-> metas[z]] /\ (d # Image!NoMeta => <<d, x>> \in files)
  <2>1. Image!Before(x, "write meta") \/ Image!Before(x, "write embedding")
    BY DEF Image!WriteAgain
  <2> QED
    BY <1>1, <2>1, AtWriter
<1>3. (CHOOSE j \in 1 .. Len(Image!Stages) : Image!Stages[j].do = "write image") = CaptionEnd + 1
  <2>1. Len(Image!Stages) = CaptionEnd + 3 /\ \A j \in 1 .. CaptionEnd + 3 : StageHolds(Image!Stages[j], j)
    BY <1>2, StagesAre
  <2>2. \A j \in 1 .. CaptionEnd + 3 : Image!Stages[j].do = "write image" => j = CaptionEnd + 1
    <3>1. ASSUME NEW j \in 1 .. CaptionEnd + 3, Image!Stages[j].do = "write image" PROVE j = CaptionEnd + 1
      <4>1. j \in Nat /\ StageHolds(Image!Stages[j], j)
        BY <1>2, <2>1
      <4>2. PlaceIs(Image!Stages[j], j)
        BY <1>2, <4>1, Located
      <4> QED
        BY <3>1, <4>2 DEF PlaceIs
    <3> QED
      BY <3>1
  <2>3. CaptionEnd + 1 \in 1 .. CaptionEnd + 3 /\ Image!Stages[CaptionEnd + 1].do = "write image"
    <3>1. CaptionEnd + 1 \in 1 .. CaptionEnd + 3
      BY <1>2
    <3>2. StageHolds(Image!Stages[CaptionEnd + 1], CaptionEnd + 1)
      BY <2>1, <3>1
    <3>3. /\ CaptionEnd + 1 # 1 /\ CaptionEnd + 1 # CaptionEnd + 2 /\ CaptionEnd + 1 # CaptionEnd + 3
          /\ CaptionEnd + 1 # EmbedEnd
          /\ \A p \in Image!Purposes : Image!Asked(p) =>
               CaptionEnd + 1 + 1 # AskAt(p) /\ CaptionEnd + 1 # AskAt(p) /\ (p # "caption" => CaptionEnd + 1 # AskAt(p) + 1)
      <4>1. Image!Purposes = {"semantic", "classifier", "caption"}
        BY <1>2, Ordered
      <4> QED
        BY <1>2, <4>1, Places3
    <3>4. "semantic" \in Image!Purposes /\ "classifier" \in Image!Purposes
      BY <1>2, Ordered
    <3> QED
      BY <3>1, <3>2, <3>3, <3>4 DEF StageHolds
  <2>4. PICK m, st : m = CaptionEnd + 1 /\ st = Image!Stages
    OBVIOUS
  <2>5. /\ m \in 1 .. Len(st) /\ st[m].do = "write image"
        /\ \A j \in 1 .. Len(st) : st[j].do = "write image" => j = m
    BY <2>1, <2>2, <2>3, <2>4
  <2>6. (CHOOSE j \in 1 .. Len(st) : st[j].do = "write image") = m
    BY ONLY <2>5
  <2> QED
    BY ONLY <2>4, <2>6
<1>4. /\ setup' = setup /\ taken' = taken /\ phase' # "finished" /\ npys' = npys /\ files' = files /\ metas' = metas
      /\ images' = images /\ at' = [at EXCEPT ![x] = CaptionEnd + 1]
  BY <1>2, <1>3 DEF Image!WriteAgain, Image!Unchanged
<1>5. CaptionEnd' = CaptionEnd
  BY <1>4 DEF CaptionEnd, EmbedEnd, ClassifierEnd, SemanticEnd
<1>6. /\ images' = [images EXCEPT ![x] = r] /\ metas' = [metas EXCEPT ![x] = d] /\ at'[x] = CaptionEnd + 1
  BY <1>1, <1>2, <1>4
<1>7. /\ at'[x] \notin {CaptionEnd' + 2, CaptionEnd' + 3} /\ ~(at'[x] > CaptionEnd' + 1)
      /\ ~(at'[x] > CaptionEnd' + 2) /\ ~(at'[x] > CaptionEnd' + 3)
  BY <1>2, <1>5, <1>6
<1>8. FilesHold(x)'
  BY <1>7 DEF FilesHold
<1>9. CarriesAt(r, CaptionEnd + 1)
  BY <1>2, Behind
<1> QED
  BY <1>2, <1>4, <1>6, <1>8, <1>9, OneMoves

LEMMA FreshCarries == ASSUME setup \in Setups PROVE CarriesAt(Image!Fresh, 1)
<1>1. PICK r : r = Image!Fresh
  OBVIOUS
<1>2. /\ IsImage(r) /\ ~r.filtered /\ r.errors = {}
      /\ \A p \in Image!Purposes : r.answers[p] = Image!NoAnswer /\ r.status[p] = "none"
      /\ \A m \in {"vllm", "openai"} : r.inputs[m] = "none"
  BY <1>1 DEF Image!Fresh, IsImage, Fields
<1>3. /\ SemanticEnd \in Nat /\ ClassifierEnd \in Nat /\ EmbedEnd \in Nat /\ CaptionEnd \in Nat /\ 1 <= SemanticEnd
      /\ SemanticEnd <= ClassifierEnd /\ ClassifierEnd <= EmbedEnd /\ EmbedEnd <= CaptionEnd
  BY Places3
<1>4. Image!Model("caption") \in {"vllm", "openai"} => 1 # AskAt("caption")
  BY <1>3, Ordered
<1>5. RequestsHold(r, 1)
  BY <1>2, <1>4 DEF RequestsHold
<1>6. AnswersHold(r, 1)
  BY <1>2 DEF AnswersHold
<1>7. /\ ~(1 > SemanticEnd) /\ ~(1 > ClassifierEnd) /\ ~(1 > EmbedEnd) /\ ~(1 > CaptionEnd) /\ ~(1 > 1)
      /\ 1 \in 1 .. CaptionEnd + 4
  BY <1>3
<1>8. FilterHolds(r, 1) /\ ReasonsHold(r, 1)
  BY <1>2, <1>7 DEF FilterHolds, ReasonsHold
<1> QED
  BY <1>1, <1>2, <1>5, <1>6, <1>7, <1>8 DEF CarriesAt

LEMMA ImageInit == Image!Init => ImageInv
<1> SUFFICES ASSUME Image!Init PROVE ImageInv
  OBVIOUS
<1>1. /\ setup \in Setups /\ phase = "idle" /\ taken = {}
      /\ images = [z \in Image!All |-> Image!Fresh] /\ at = [z \in Image!All |-> 1]
      /\ metas = [z \in Image!All |-> Image!NoMeta]
  BY DEF Image!Init
<1>2. CarriesAt(Image!Fresh, 1)
  BY <1>1, FreshCarries
<1>3. CaptionEnd \in Nat
  BY <1>1, Places3
<1>4. ASSUME NEW x \in Image!All PROVE CarriesAt(images[x], at[x]) /\ FilesHold(x) /\ metas[x] = Image!NoMeta
  <2>1. images[x] = Image!Fresh /\ at[x] = 1 /\ metas[x] = Image!NoMeta
    BY <1>1
  <2>2. /\ at[x] \notin {CaptionEnd + 2, CaptionEnd + 3} /\ ~(at[x] > CaptionEnd + 1)
        /\ ~(at[x] > CaptionEnd + 2) /\ ~(at[x] > CaptionEnd + 3)
    BY <1>3, <2>1
  <2>3. FilesHold(x)
    BY <2>2 DEF FilesHold
  <2> QED
    BY <1>2, <2>1, <2>3
<1> QED
  BY <1>1, <1>4 DEF ImageInv

LEMMA ImageStart == ImageInv /\ Image!Start => ImageInv'
<1> SUFFICES ASSUME ImageInv, Image!Start PROVE ImageInv'
  OBVIOUS
<1>1. /\ setup' = setup /\ phase' = "running" /\ taken' = Image!Wanted /\ files' = files /\ metas' = metas
      /\ images' = [z \in Image!All |-> Image!Fresh] /\ at' = [z \in Image!All |-> 1]
  BY DEF Image!Start
<1>2. Image!All' = Image!All /\ CaptionEnd' = CaptionEnd
  BY <1>1 DEF Image!All, CaptionEnd, EmbedEnd, ClassifierEnd, SemanticEnd
<1>3. Image!Wanted \subseteq Image!All
  BY DEF Image!Wanted
<1>4. CarriesAt(Image!Fresh, 1) /\ setup \in Setups /\ CaptionEnd \in Nat
  BY FreshCarries, Places3 DEF ImageInv
<1>5. ASSUME NEW x \in Image!All PROVE CarriesAt(images[x], at[x])' /\ FilesHold(x)'
  <2>1. images'[x] = Image!Fresh /\ at'[x] = 1
    BY <1>1
  <2>2. CarriesAt(images[x], at[x])'
    BY <1>1, <1>4, <2>1, StillCarries
  <2>3. /\ at'[x] \notin {CaptionEnd' + 2, CaptionEnd' + 3} /\ ~(at'[x] > CaptionEnd' + 1)
        /\ ~(at'[x] > CaptionEnd' + 2) /\ ~(at'[x] > CaptionEnd' + 3)
    BY <1>2, <1>4, <2>1
  <2>4. FilesHold(x)'
    BY <2>3 DEF FilesHold
  <2> QED
    BY <2>2, <2>4
<1>6. \A x \in Image!All : metas'[x] # Image!NoMeta => <<metas'[x], x>> \in files'
  BY <1>1 DEF ImageInv
<1>7. metas' = [x \in Image!All |-> metas'[x]]
  BY <1>1 DEF ImageInv
<1>8. images' = [x \in Image!All |-> images'[x]] /\ at' = [x \in Image!All |-> at'[x]]
  BY <1>1
<1> QED
  BY <1>1, <1>2, <1>3, <1>4, <1>5, <1>6, <1>7, <1>8 DEF ImageInv, Image!NoMeta

\* What stands still keeps its invariant: a run that ends, in either way, changes no image and no file.
LEMMA ImageStands ==
  ASSUME ImageInv, UNCHANGED <<setup, taken, images, at, files, metas, npys>>,
         phase' = "finished" => \A x \in taken : at[x] > CaptionEnd + 3
  PROVE  ImageInv'
<1>1. Image!All' = Image!All /\ CaptionEnd' = CaptionEnd
  BY DEF Image!All, CaptionEnd, EmbedEnd, ClassifierEnd, SemanticEnd
<1>2. ASSUME NEW x \in Image!All PROVE CarriesAt(images[x], at[x])' /\ FilesHold(x)'
  <2>1. CarriesAt(images[x], at[x])'
    <3>1. CarriesAt(images[x], at[x]) /\ images'[x] = images[x] /\ at'[x] = at[x]
      BY DEF ImageInv
    <3> QED
      BY <3>1, StillCarries
  <2>2. FilesHold(x)'
    <3>1. FilesHold(x) /\ Image!Directory(x)' = Image!Directory(x)
      BY DEF ImageInv, Image!Directory
    <3> QED
      BY <1>1, <3>1 DEF FilesHold
  <2> QED
    BY <2>1, <2>2
<1> QED
  BY <1>1, <1>2 DEF ImageInv, Image!NoMeta

LEMMA ImageStep == ImageInv /\ [Image!Next]_Image!imageVars => ImageInv'
<1> SUFFICES ASSUME ImageInv, [Image!Next]_Image!imageVars PROVE ImageInv'
  OBVIOUS
<1>1. CASE Image!Start
  BY <1>1, ImageStart
<1>2. CASE Image!Finish
  <2>1. Len(Image!Stages) = CaptionEnd + 3
    BY StagesAre DEF ImageInv
  <2> QED
    BY <1>2, <2>1, ImageStands DEF Image!Finish
<1>3. CASE Image!Die
  BY <1>3, ImageStands DEF Image!Die
<1>4. ASSUME NEW x \in Image!All, Image!StageStep(x) PROVE ImageInv'
  <2>1. CASE Image!Load(x)
    <3>1. Image!GoOn(x) /\ Image!Unchanged /\ phase = "running"
      BY <2>1 DEF Image!Load, Image!Before
    <3> QED
      BY <2>1, <3>1, LoadCarries, NotYetWritten
  <2>2. CASE Image!Prep(x)
    <3>1. Image!GoOn(x) /\ Image!Unchanged /\ phase = "running"
      BY <2>2 DEF Image!Prep, Image!Before
    <3> QED
      BY <2>2, <3>1, PrepCarries, NotYetWritten
  <2>3. CASE Image!AskVllm(x)
    <3>1. Image!GoOn(x) /\ Image!Unchanged /\ phase = "running"
      BY <2>3 DEF Image!AskVllm, Image!Before
    <3> QED
      BY <2>3, <3>1, VllmCarries, NotYetWritten
  <2>4. CASE Image!AskApi(x)
    <3>1. Image!GoOn(x) /\ Image!Unchanged /\ phase = "running"
      BY <2>4 DEF Image!AskApi, Image!Before
    <3> QED
      BY <2>4, <3>1, ApiCarries, NotYetWritten
  <2>5. CASE Image!Judge(x)
    <3>1. Image!GoOn(x) /\ Image!Unchanged /\ phase = "running"
      BY <2>5 DEF Image!Judge, Image!Before
    <3> QED
      BY <2>5, <3>1, JudgeCarries, NotYetWritten
  <2>6. CASE Image!Embed(x)
    <3>1. Image!GoOn(x) /\ Image!Unchanged /\ phase = "running"
      BY <2>6 DEF Image!Embed, Image!Before
    <3> QED
      BY <2>6, <3>1, EmbedCarries, NotYetWritten
  <2>7. CASE Image!WriteImage(x)
    BY <2>7, WriteImageKeeps
  <2>8. CASE Image!WriteMeta(x)
    BY <2>8, WriteMetaKeeps
  <2>9. CASE Image!WriteEmbedding(x)
    BY <2>9, WriteEmbeddingKeeps
  <2>10. CASE Image!WriteAgain(x)
    BY <2>10, WriteAgainKeeps
  <2> QED
    BY <1>4, <2>1, <2>2, <2>3, <2>4, <2>5, <2>6, <2>7, <2>8, <2>9, <2>10 DEF Image!StageStep
<1>5. CASE UNCHANGED Image!imageVars
  <2>1. /\ UNCHANGED <<setup, taken, images, at, files, metas, npys>>
        /\ phase' = "finished" => \A x \in taken : at[x] > CaptionEnd + 3
    BY <1>5 DEF Image!imageVars, ImageInv
  <2> QED
    BY <2>1, ImageStands
<1> QED
  BY <1>1, <1>2, <1>3, <1>4, <1>5 DEF Image!Next

LEMMA ImagesAreRight == ImageInv => ImagesSound
<1> SUFFICES ASSUME ImageInv PROVE ImagesSound
  OBVIOUS
<1>1. setup \in Setups /\ taken \subseteq Image!All /\ Len(Image!Stages) = CaptionEnd + 3
  BY StagesAre DEF ImageInv
<1>2. /\ SemanticEnd \in Nat /\ ClassifierEnd \in Nat /\ EmbedEnd \in Nat /\ CaptionEnd \in Nat
      /\ SemanticEnd <= ClassifierEnd /\ ClassifierEnd <= EmbedEnd /\ EmbedEnd <= CaptionEnd /\ 1 <= SemanticEnd
      /\ \A p \in Image!Purposes : AskAt(p) \in Nat /\ (Image!Asked(p) => AskAt(p) <= CaptionEnd)
  <2>1. Image!Purposes = {"semantic", "classifier", "caption"}
    BY <1>1, Ordered
  <2> QED
    BY <1>1, <2>1, Places3
<1>3. ASSUME NEW x \in taken
      PROVE  /\ x \in Image!All /\ FilesHold(x) /\ at[x] \in Nat /\ IsImage(images[x])
             /\ RequestsHold(images[x], at[x]) /\ AnswersHold(images[x], at[x])
             /\ FilterHolds(images[x], at[x]) /\ ReasonsHold(images[x], at[x])
  BY <1>1 DEF ImageInv, CarriesAt
<1>4. ASSUME NEW x \in taken, Image!Written(x)
      PROVE  /\ at[x] > SemanticEnd /\ at[x] > ClassifierEnd /\ at[x] > EmbedEnd /\ at[x] > CaptionEnd /\ at[x] > 1
             /\ \A p \in Image!Purposes : Image!Asked(p) => at[x] # AskAt(p)
  <2>1. at[x] > CaptionEnd + 3 /\ at[x] \in Nat
    BY <1>1, <1>3, <1>4 DEF Image!Written
  <2> QED
    BY <1>2, <2>1
<1>5. \A x, p : Image!Through(x, p) <=> Passed(images[x], p)
  BY DEF Image!Through, Passed
<1>6. Image!AnswersOwn
  <2>1. ASSUME NEW x \in taken, Image!Written(x) PROVE images[x].inputs = Image!Fresh.inputs
    <3>1. \A m \in {"vllm", "openai"} : images[x].inputs[m] = "none"
      BY <1>1, <1>3, <1>4, <2>1, NothingWaits
    <3>2. images[x].inputs = [m \in {"vllm", "openai"} |-> images[x].inputs[m]]
      BY <1>3 DEF IsImage
    <3>3. PICK h : /\ h = Image!Fresh.inputs /\ h = [m \in {"vllm", "openai"} |-> h[m]]
                   /\ \A m \in {"vllm", "openai"} : h[m] = "none"
      BY NoRequests
    <3>4. PICK g : g = images[x].inputs
      OBVIOUS
    <3>5. g = h
      BY <3>1, <3>2, <3>3, <3>4
    <3> QED
      BY <3>3, <3>4, <3>5
  <2>2. ASSUME NEW x \in taken, NEW p \in Image!Purposes, images[x].answers[p] # Image!NoAnswer
        PROVE  /\ images[x].answers[p].about \in {p, "raw"}
               /\ Image!Model(p) = "vllm" => images[x].answers[p].about = p
               /\ Image!Model(p) \in {"raw", "gemini"} => images[x].answers[p].about = "raw"
    BY <1>3, <2>2 DEF AnswersHold
  <2> QED
    BY <2>1, <2>2 DEF Image!AnswersOwn
<1>7. Image!Sorted
  <2>1. ASSUME NEW x \in taken, Image!Written(x)
        PROVE  /\ images[x].filtered <=> ~(Passed(images[x], "semantic") /\ Passed(images[x], "classifier"))
               /\ ~Passed(images[x], "semantic") => images[x].status["classifier"] = "none"
               /\ images[x].filtered => images[x].status["caption"] = "none"
    BY <1>3, <1>4, <2>1 DEF FilterHolds
  <2> QED
    BY <1>5, <2>1 DEF Image!Sorted
<1>8. Image!Accounted
  <2>1. ASSUME NEW x \in taken, Image!Written(x)
        PROVE  /\ (Image!Asked("caption") /\ ~images[x].filtered) =>
                    images[x].status["caption"] # "none" \/ "caption_prep" \in images[x].errors
               /\ (Image!Asked("semantic") /\ images[x].status["semantic"] = "none") =>
                    Image!Model("semantic") \in images[x].errors
               /\ (Image!Asked("classifier") /\ images[x].status["classifier"] = "none" /\ Passed(images[x], "semantic")) =>
                    Image!Model("classifier") \in images[x].errors
               /\ setup.embed => images[x].embedded \/ "embedding" \in images[x].errors
               /\ ~images[x].data => "download" \in images[x].errors
    BY <1>3, <1>4, <2>1 DEF ReasonsHold
  <2>2. ASSUME NEW x \in taken, Image!Written(x), NEW p \in {"semantic", "classifier"},
               Image!Asked(p), images[x].status[p] = "none", p = "classifier" => Image!Through(x, "semantic")
        PROVE  Image!Model(p) \in images[x].errors
    <3>1. CASE p = "semantic"
      BY <2>1, <2>2, <3>1
    <3>2. CASE p = "classifier"
      BY <1>5, <2>1, <2>2, <3>2
    <3> QED
      BY <3>1, <3>2
  <2> QED
    BY <2>1, <2>2 DEF Image!Accounted
<1>9. Image!OutputWhole
  <2>1. ASSUME phase = "finished", NEW x \in taken, images[x].data
        PROVE  metas[x] = Image!Directory(x) /\ (images[x].embedded => x \in npys)
    <3>1. at[x] > CaptionEnd + 3 /\ at[x] \in Nat
      BY <1>3, <2>1 DEF ImageInv
    <3>2. at[x] > CaptionEnd + 2
      BY <1>2, <3>1
    <3> QED
      BY <1>3, <2>1, <3>1, <3>2 DEF FilesHold
  <2> QED
    BY <2>1 DEF Image!OutputWhole, ImageInv
<1> QED
  BY <1>6, <1>7, <1>8, <1>9 DEF ImagesSound, Image!ImagesSound

\* ImagesSound: for any images and any choice of models, an answer is about its own question or about
\* the file, the filters sort by the answers alone, each image has what was asked for or the reason
\* why not, and metadata never comes before its image, whichever run dies and whichever write is repeated.
THEOREM ImagesAreSound == Image!Spec => []ImagesSound
<1>1. Image!Init => ImageInv
  BY ImageInit
<1>2. ImageInv /\ [Image!Next]_Image!imageVars => ImageInv'
  BY ImageStep
<1>3. ImageInv => ImagesSound
  BY ImagesAreRight
<1> QED
  BY <1>1, <1>2, <1>3, PTL DEF Image!Spec

-----------------------------------------------------------------------------
(* SplitFlow                                                               *)

\* The stages, numbered in the order in which any command line assembles them.
StageNames ==
  {"download", "videoframes", "transnet", "stride", "transcode", "chunk", "superres", "motiondecode", "motion",
   "frames", "aesthetic", "text", "fprep", "fcaption", "semantic", "cprep", "ccaption", "classify",
   "embedframes", "embed", "embedapi", "prep", "preview", "caption", "enhance", "sam3", "events", "t5", "write"}

PlaceOf(s) ==
  CASE s = "download" -> 1 [] s = "videoframes" -> 2 [] s = "transnet" -> 3 [] s = "stride" -> 4
    [] s = "transcode" -> 5 [] s = "chunk" -> 6 [] s = "superres" -> 7 [] s = "motiondecode" -> 8
    [] s = "motion" -> 9 [] s = "frames" -> 10 [] s = "aesthetic" -> 11 [] s = "text" -> 12
    [] s = "fprep" -> 13 [] s = "fcaption" -> 14 [] s = "semantic" -> 15 [] s = "cprep" -> 16
    [] s = "ccaption" -> 17 [] s = "classify" -> 18 [] s = "embedframes" -> 19 [] s = "embed" -> 20
    [] s = "embedapi" -> 21 [] s = "prep" -> 22 [] s = "preview" -> 23 [] s = "caption" -> 24
    [] s = "enhance" -> 25 [] s = "sam3" -> 26 [] s = "events" -> 27 [] s = "t5" -> 28 [] OTHER -> 29

\* Which of them a command line asks for.
Assembled(o, n) ==
  \/ n \in {1, 6, 29}
  \/ n \in {2, 3} /\ o.split = "transnet"
  \/ n = 4 /\ o.split # "transnet"
  \/ n = 5 /\ o.transcode
  \/ n = 7 /\ "sr" \in o.on
  \/ n \in {8, 9} /\ o.motion # "off"
  \/ n = 10 /\ ("aesthetics" \in o.on \/ o.embed # "off")
  \/ n = 11 /\ "aesthetics" \in o.on
  \/ n = 12 /\ "text" \in o.on
  \/ n \in {13, 14, 15} /\ o.filter # "off"
  \/ n \in {16, 17, 18} /\ o.classifier # "off"
  \/ n \in {19, 20} /\ o.embed = "model"
  \/ n = 21 /\ o.embed = "openai"
  \/ n \in {22, 24} /\ o.caption # "off"
  \/ n = 23 /\ o.caption # "off" /\ "previews" \in o.on
  \/ n = 25 /\ o.caption # "off" /\ "enhance" \in o.on
  \/ n = 26 /\ "sam3" \in o.on
  \/ n = 27 /\ "events" \in o.on
  \/ n = 28 /\ "predict" \in o.on

\* The stages q are those of o from some place on.
InOrder(o, q) ==
  /\ q \in Seq(StageNames) /\ q # <<>>
  /\ \A j \in DOMAIN q : Assembled(o, PlaceOf(q[j]))
  /\ \A j, k \in DOMAIN q : j < k => PlaceOf(q[j]) < PlaceOf(q[k])
  /\ \A n \in 1 .. 29 : Assembled(o, n) /\ n >= PlaceOf(Head(q)) => \E j \in DOMAIN q : PlaceOf(q[j]) = n

\* What any clip carries before the stage at n, whether it is in the task or not.
Anywhere(o, n, x) ==
  /\ n <= 5 => x = {}
  /\ "input" \in x => n \in {23, 24} /\ o.caption = "vllm"
  /\ "win" \in x => n > 22
  /\ "caption" \in x => "win" \in x /\ n > 24 /\ o.caption # "off"
  /\ "embinput" \in x \/ "embedding" \in x => n > 19
  /\ "instances" \in x => n > 26
  /\ "enhanced" \in x => "caption" \in x /\ n > 25
  /\ "t5" \in x => "caption" \in x /\ n > 28
  /\ "events" \in x => "instances" \in x /\ n > 27

\* a clip that was filtered
Unspent(x) == x \cap {"embinput", "embedding", "win", "caption", "instances"} = {}

\* a clip of the task, with or without an error
Made(o, n, x) ==
  /\ n = 23 /\ "win" \in x => "mp4" \in x
  /\ n > 25 /\ "enhance" \in o.on /\ "caption" \in x => "enhanced" \in x
  /\ n > 28 /\ "predict" \in o.on /\ "caption" \in x => "t5" \in x

\* What a clip without an error has for the stages to come, and what was freed on it.
Sound(o, n, x) ==
  /\ n > 5 /\ o.transcode => "data" \in x
  /\ "motion" \in x <=> n = 9
  /\ n = 11 => "f1" \in x
  /\ "f1" \in x => n = 11
  /\ n \in 11 .. 21 /\ n # 20 /\ o.embed # "off" => "f2" \in x
  /\ "f2" \in x => n \in 11 .. 21 /\ o.embed # "off" /\ (n > 19 => o.embed = "openai")
  /\ "embinput" \in x <=> n = 20
  /\ o.embed # "off" /\ n > 21 => "embedding" \in x
  /\ n = 14 /\ "fwin" \in x => (IF o.filter = "api" THEN "fmp4" ELSE "finput") \in x
  /\ n = 17 /\ "fwin" \in x => (IF o.classifier = "api" THEN "fmp4" ELSE "finput") \in x
  /\ n \in {15, 18} /\ "fwin" \in x => "fcaption" \in x
  /\ "finput" \in x \/ "fmp4" \in x => n \in {14, 15, 17, 18}
  /\ n \in {23, 24} /\ "win" \in x => (IF o.caption = "api" THEN "mp4" ELSE "input") \in x
  /\ n > 24 /\ o.caption # "off" /\ "win" \in x => "caption" \in x
  /\ n > 24 /\ o.caption = "vllm" => "win" \in x
  /\ n = 27 /\ "instances" \in x => "tracked" \in x
  /\ n > 27 /\ "events" \in o.on /\ "instances" \in x => "events" \in x

At == PlaceOf(Head(stages))

ClipHolds(c) ==
  /\ Anywhere(opts, At, has[c])
  /\ "input" \in has[c] => c \in clips
  /\ c \in filtered => Unspent(has[c])
  /\ c \in clips => Made(opts, At, has[c])
  /\ c \in clips /\ Flow!Intact(c) => Sound(opts, At, has[c])

VideoInv ==
  /\ opts \in Options /\ Flow!Accepted(opts)
  /\ InOrder(opts, stages)
  /\ made \subseteq Clips /\ clips \subseteq made /\ filtered \subseteq made
  /\ has \in [Clips -> SUBSET Flow!Item] /\ videoErr \in BOOLEAN
  /\ At <= 7 => filtered = {}
  /\ clips \cap filtered = {}
  /\ stats \in [Flow!Filters -> Nat]
  /\ stats["motion"] + stats["aesthetic"] + stats["text"] + stats["semantic"] + stats["classifier"]
       = Cardinality(filtered)
  /\ halt \in {"running", "done", "vanished", "aborted"}
  /\ halt = "done" => At = 29
  /\ ~opts.local /\ opts.split = "stride" => halt # "aborted"

FlowInv == VideoInv /\ \A c \in Clips : ClipHolds(c)

\* A command line asks for a step from the stage at k to the one at m: none between is assembled.
Passing(o, k, m) ==
  /\ k \in 1 .. 28 /\ m \in 2 .. 29 /\ k < m
  /\ Assembled(o, k) /\ Assembled(o, m)
  /\ k < 5 /\ 5 < m => ~o.transcode
  /\ k < 6 => m <= 6
  /\ (k < 8 /\ 8 < m) \/ (k < 9 /\ 9 < m) => o.motion = "off"
  /\ k < 10 /\ 10 < m => "aesthetics" \notin o.on /\ o.embed = "off"
  /\ k < 11 /\ 11 < m => "aesthetics" \notin o.on
  /\ (k < 13 /\ 13 < m) \/ (k < 14 /\ 14 < m) \/ (k < 15 /\ 15 < m) => o.filter = "off"
  /\ (k < 16 /\ 16 < m) \/ (k < 17 /\ 17 < m) \/ (k < 18 /\ 18 < m) => o.classifier = "off"
  /\ (k < 19 /\ 19 < m) \/ (k < 20 /\ 20 < m) => o.embed # "model"
  /\ k < 21 /\ 21 < m => o.embed # "openai"
  /\ (k < 22 /\ 22 < m) \/ (k < 24 /\ 24 < m) => o.caption = "off"
  /\ k < 25 /\ 25 < m => o.caption = "off" \/ "enhance" \notin o.on
  /\ k < 26 /\ 26 < m => "sam3" \notin o.on
  /\ k < 27 /\ 27 < m => "events" \notin o.on
  /\ k < 28 /\ 28 < m => "predict" \notin o.on

\* The stages q are those of o whose places are from a to b.
Covers(o, q, a, b) ==
  /\ q \in Seq(StageNames)
  /\ \A j \in DOMAIN q : PlaceOf(q[j]) \in a .. b /\ Assembled(o, PlaceOf(q[j]))
  /\ \A j, k \in DOMAIN q : j < k => PlaceOf(q[j]) < PlaceOf(q[k])
  /\ \A n \in a .. b : Assembled(o, n) => \E j \in DOMAIN q : PlaceOf(q[j]) = n

LEMMA PlacesAre == \A s \in StageNames : PlaceOf(s) \in 1 .. 29
<1> SUFFICES ASSUME NEW s \in StageNames PROVE PlaceOf(s) \in 1 .. 29
  OBVIOUS
<1> QED
  BY DEF PlaceOf, StageNames

LEMMA PlacesOf ==
  /\ PlaceOf("download") = 1  /\ PlaceOf("videoframes") = 2  /\ PlaceOf("transnet") = 3
  /\ PlaceOf("stride") = 4  /\ PlaceOf("transcode") = 5  /\ PlaceOf("chunk") = 6
  /\ PlaceOf("superres") = 7  /\ PlaceOf("motiondecode") = 8  /\ PlaceOf("motion") = 9
  /\ PlaceOf("frames") = 10  /\ PlaceOf("aesthetic") = 11  /\ PlaceOf("text") = 12
  /\ PlaceOf("fprep") = 13  /\ PlaceOf("fcaption") = 14  /\ PlaceOf("semantic") = 15
  /\ PlaceOf("cprep") = 16  /\ PlaceOf("ccaption") = 17  /\ PlaceOf("classify") = 18
  /\ PlaceOf("embedframes") = 19  /\ PlaceOf("embed") = 20  /\ PlaceOf("embedapi") = 21
  /\ PlaceOf("prep") = 22  /\ PlaceOf("preview") = 23  /\ PlaceOf("caption") = 24
  /\ PlaceOf("enhance") = 25  /\ PlaceOf("sam3") = 26  /\ PlaceOf("events") = 27
  /\ PlaceOf("t5") = 28  /\ PlaceOf("write") = 29
BY DEF PlaceOf

LEMMA CoversJoined ==
  ASSUME NEW o, NEW q, NEW r, NEW a \in Nat, NEW b \in Nat, NEW c \in Nat, NEW d \in Nat,
         a <= c, c = b + 1, b <= d, Covers(o, q, a, b), Covers(o, r, c, d)
  PROVE  Covers(o, q \o r, a, d)
<1> DEFINE v == q \o r
<1>1. /\ q \in Seq(StageNames) /\ r \in Seq(StageNames)
      /\ DOMAIN q = 1 .. Len(q) /\ DOMAIN r = 1 .. Len(r) /\ Len(q) \in Nat /\ Len(r) \in Nat
  BY DEF Covers
<1>2. /\ v \in Seq(StageNames) /\ Len(v) = Len(q) + Len(r)
      /\ \A k \in 1 .. Len(q) + Len(r) : v[k] = IF k <= Len(q) THEN q[k] ELSE r[k - Len(q)]
  BY <1>1, ConcatProperties
<1> HIDE DEF v
<1>3. DOMAIN v = 1 .. Len(q) + Len(r)
  BY <1>2
<1>4. \A j \in DOMAIN v : \/ j \in DOMAIN q /\ v[j] = q[j]
                          \/ j \notin DOMAIN q /\ j - Len(q) \in DOMAIN r /\ v[j] = r[j - Len(q)]
  BY <1>1, <1>2, <1>3
<1>5. ASSUME NEW j \in DOMAIN v
      PROVE  PlaceOf(v[j]) \in a .. d /\ Assembled(o, PlaceOf(v[j]))
  <2>1. CASE j \in DOMAIN q /\ v[j] = q[j]
    BY <2>1 DEF Covers
  <2>2. CASE j - Len(q) \in DOMAIN r /\ v[j] = r[j - Len(q)]
    BY <2>2 DEF Covers
  <2> QED
    BY <1>4, <2>1, <2>2
<1>6. ASSUME NEW j \in DOMAIN v, NEW k \in DOMAIN v, j < k
      PROVE  PlaceOf(v[j]) < PlaceOf(v[k])
  <2>1. CASE k \in DOMAIN q /\ v[k] = q[k]
    <3>1. j \in DOMAIN q /\ v[j] = q[j]
      BY <1>1, <1>3, <1>4, <1>6, <2>1
    <3> QED
      BY <1>6, <2>1, <3>1 DEF Covers
  <2>2. CASE k - Len(q) \in DOMAIN r /\ v[k] = r[k - Len(q)]
    <3>1. CASE j \in DOMAIN q /\ v[j] = q[j]
      BY <2>2, <3>1 DEF Covers
    <3>2. CASE j - Len(q) \in DOMAIN r /\ v[j] = r[j - Len(q)]
      <4>1. j - Len(q) < k - Len(q)
        BY <1>1, <1>3, <1>6
      <4> QED
        BY <2>2, <3>2, <4>1 DEF Covers
    <3> QED
      BY <1>4, <3>1, <3>2
  <2> QED
    BY <1>4, <2>1, <2>2
<1>7. ASSUME NEW n \in a .. d, Assembled(o, n)
      PROVE  \E j \in DOMAIN v : PlaceOf(v[j]) = n
  <2>1. CASE n <= b
    <3>1. PICK j \in DOMAIN q : PlaceOf(q[j]) = n
      BY <1>7, <2>1 DEF Covers
    <3>2. j \in DOMAIN v /\ v[j] = q[j]
      BY <1>1, <1>2, <1>3
    <3> QED
      BY <3>1, <3>2
  <2>2. CASE n > b
    <3>1. n \in c .. d
      BY <2>2
    <3>2. PICK j \in DOMAIN r : PlaceOf(r[j]) = n
      BY <1>7, <3>1 DEF Covers
    <3>3. j + Len(q) \in DOMAIN v /\ v[j + Len(q)] = r[j]
      BY <1>1, <1>2, <1>3
    <3> QED
      BY <3>2, <3>3
  <2> QED
    BY <2>1, <2>2
<1> QED
  BY <1>2, <1>5, <1>6, <1>7 DEF Covers, v

LEMMA CoversNone ==
  ASSUME NEW o, NEW a \in Nat, NEW b \in Nat, \A n \in a .. b : ~Assembled(o, n)
  PROVE  Covers(o, <<>>, a, b)
BY DEF Covers

LEMMA CoversOne ==
  ASSUME NEW o, NEW s \in StageNames, NEW a \in Nat, PlaceOf(s) = a, Assembled(o, a)
  PROVE  Covers(o, <<s>>, a, a)
<1>1. /\ <<s>> \in Seq(StageNames) /\ DOMAIN <<s>> = {1} /\ <<s>>[1] = s
  OBVIOUS
<1> QED
  BY <1>1 DEF Covers

\* A stage that is there under a condition.
LEMMA CoversIf ==
  ASSUME NEW o, NEW s \in StageNames, NEW a \in Nat, PlaceOf(s) = a, NEW q,
         Assembled(o, a) => q = <<s>>, ~Assembled(o, a) => q = <<>>
  PROVE  Covers(o, q, a, a)
<1>1. CASE Assembled(o, a)
  BY <1>1, CoversOne
<1>2. CASE ~Assembled(o, a)
  <2>1. \A n \in a .. a : ~Assembled(o, n)
    BY <1>2
  <2> QED
    BY <1>2, <2>1, CoversNone
<1> QED
  BY <1>1, <1>2

\* Stages that are there together, under a condition.
LEMMA CoversAll ==
  ASSUME NEW o, NEW q, NEW a \in Nat, NEW b \in Nat, NEW p \in BOOLEAN, p => Covers(o, q, a, b),
         ~p => \A n \in a .. b : ~Assembled(o, n)
  PROVE  Covers(o, Flow!If(p, q), a, b)
<1>1. CASE p
  BY <1>1 DEF Flow!If
<1>2. CASE ~p
  BY <1>2, CoversNone DEF Flow!If
<1> QED
  BY <1>1, <1>2

LEMMA CoversTwo ==
  ASSUME NEW o, NEW s \in StageNames, NEW u \in StageNames, NEW a \in Nat, NEW b \in Nat,
         b = a + 1, PlaceOf(s) = a, PlaceOf(u) = b, Assembled(o, a), Assembled(o, b)
  PROVE  Covers(o, <<s, u>>, a, b)
<1>1. <<s, u>> \in Seq(StageNames) /\ DOMAIN <<s, u>> = {1, 2} /\ <<s, u>>[1] = s /\ <<s, u>>[2] = u
  OBVIOUS
<1> QED
  BY <1>1 DEF Covers

LEMMA CoversThree ==
  ASSUME NEW o, NEW s \in StageNames, NEW u \in StageNames, NEW w \in StageNames,
         NEW a \in Nat, NEW b \in Nat, NEW c \in Nat, b = a + 1, c = a + 2,
         PlaceOf(s) = a, PlaceOf(u) = b, PlaceOf(w) = c,
         Assembled(o, a), Assembled(o, b), Assembled(o, c)
  PROVE  Covers(o, <<s, u, w>>, a, c)
<1>1. /\ <<s, u, w>> \in Seq(StageNames) /\ DOMAIN <<s, u, w>> = {1, 2, 3}
      /\ <<s, u, w>>[1] = s /\ <<s, u, w>>[2] = u /\ <<s, u, w>>[3] = w
  OBVIOUS
<1> QED
  BY <1>1 DEF Covers

\* Places of which nothing is assembled may be added.
LEMMA CoversWider ==
  ASSUME NEW o, NEW q, NEW a \in Nat, NEW b \in Nat, NEW c \in Nat, NEW d \in Nat, Covers(o, q, b, c),
         a <= b, c <= d, \A n \in a .. d : n < b \/ n > c => ~Assembled(o, n)
  PROVE  Covers(o, q, a, d)
BY DEF Covers

LEMMA ClipStagesAre ==
  ASSUME NEW o \in Options
  PROVE  Covers(o, Flow!ClipStages(o), 1, 6)
<1>0. o.transcode \in BOOLEAN
  BY FlowAssumption
<1>1. /\ Assembled(o, 1) /\ Assembled(o, 6) /\ (Assembled(o, 5) <=> o.transcode)
      /\ o.split = "transnet" => Assembled(o, 2) /\ Assembled(o, 3) /\ ~Assembled(o, 4)
      /\ o.split # "transnet" => ~Assembled(o, 2) /\ ~Assembled(o, 3) /\ Assembled(o, 4)
  BY DEF Assembled
<1>2. {"download", "videoframes", "transnet", "stride", "transcode", "chunk"} \subseteq StageNames
  BY DEF StageNames
<1> DEFINE p == <<"download">>
           q == IF o.split = "transnet" THEN <<"videoframes", "transnet">> ELSE <<"stride">>
           r == Flow!If(o.transcode, <<"transcode">>)
           s == <<"chunk">>
<1>3. Covers(o, p, 1, 1)
  BY <1>1, <1>2, CoversOne, PlacesOf
<1>4. Covers(o, q, 2, 4)
  <2>1. CASE o.split = "transnet"
    <3>1. Covers(o, <<"videoframes", "transnet">>, 2, 3)
      BY <1>1, <1>2, <2>1, CoversTwo, PlacesOf
    <3>2. \A n \in 2 .. 4 : n < 2 \/ n > 3 => ~Assembled(o, n)
      BY <1>1, <2>1
    <3> QED
      BY <2>1, <3>1, <3>2, CoversWider
  <2>2. CASE o.split # "transnet"
    <3>1. Covers(o, <<"stride">>, 4, 4)
      BY <1>1, <1>2, <2>2, CoversOne, PlacesOf
    <3>2. \A n \in 2 .. 4 : n < 4 \/ n > 4 => ~Assembled(o, n)
      BY <1>1, <2>2
    <3> QED
      BY <2>2, <3>1, <3>2, CoversWider
  <2> QED
    BY <2>1, <2>2
<1>5. Covers(o, r, 5, 5)
  BY <1>0, <1>1, <1>2, CoversIf, PlacesOf DEF Flow!If
<1>6. Covers(o, s, 6, 6)
  BY <1>1, <1>2, CoversOne, PlacesOf
<1> HIDE DEF p, q, r, s
<1>7. Covers(o, p \o q, 1, 4)
  BY <1>3, <1>4, CoversJoined
<1>8. Covers(o, p \o q \o r, 1, 5)
  BY <1>5, <1>7, CoversJoined
<1>9. Covers(o, p \o q \o r \o s, 1, 6)
  BY <1>6, <1>8, CoversJoined
<1> QED
  BY <1>9 DEF p, q, r, s, Flow!ClipStages

LEMMA PixelStagesAre ==
  ASSUME NEW o \in Options
  PROVE  Covers(o, Flow!PixelStages(o), 7, 12)
<1>1. /\ Assembled(o, 7) <=> "sr" \in o.on
      /\ Assembled(o, 8) <=> o.motion # "off"
      /\ Assembled(o, 9) <=> o.motion # "off"
      /\ Assembled(o, 10) <=> ("aesthetics" \in o.on \/ o.embed # "off")
      /\ Assembled(o, 11) <=> "aesthetics" \in o.on
      /\ Assembled(o, 12) <=> "text" \in o.on
  BY DEF Assembled
<1>2. {"superres", "motiondecode", "motion", "frames", "aesthetic", "text"} \subseteq StageNames
  BY DEF StageNames
<1> DEFINE p == Flow!If("sr" \in o.on, <<"superres">>)
           q == Flow!If(o.motion # "off", <<"motiondecode", "motion">>)
           r == Flow!If("aesthetics" \in o.on \/ o.embed # "off", <<"frames">>)
           s == Flow!If("aesthetics" \in o.on, <<"aesthetic">>)
           u == Flow!If("text" \in o.on, <<"text">>)
<1>3. Covers(o, p, 7, 7)
  BY <1>1, <1>2, CoversIf, PlacesOf DEF Flow!If
<1>4. Covers(o, q, 8, 9)
  <2>1. o.motion # "off" => Covers(o, <<"motiondecode", "motion">>, 8, 9)
    BY <1>1, <1>2, CoversTwo, PlacesOf
  <2>2. ~(o.motion # "off") => \A n \in 8 .. 9 : ~Assembled(o, n)
    BY <1>1
  <2> QED
    BY <2>1, <2>2, CoversAll
<1>5. Covers(o, r, 10, 10)
  BY <1>1, <1>2, CoversIf, PlacesOf DEF Flow!If
<1>6. Covers(o, s, 11, 11)
  BY <1>1, <1>2, CoversIf, PlacesOf DEF Flow!If
<1>7. Covers(o, u, 12, 12)
  BY <1>1, <1>2, CoversIf, PlacesOf DEF Flow!If
<1> HIDE DEF p, q, r, s, u
<1>8. Covers(o, p \o q, 7, 9)
  BY <1>3, <1>4, CoversJoined
<1>9. Covers(o, p \o q \o r, 7, 10)
  BY <1>5, <1>8, CoversJoined
<1>10. Covers(o, p \o q \o r \o s, 7, 11)
  BY <1>6, <1>9, CoversJoined
<1>11. Covers(o, p \o q \o r \o s \o u, 7, 12)
  BY <1>7, <1>10, CoversJoined
<1> QED
  BY <1>11 DEF p, q, r, s, u, Flow!PixelStages

LEMMA VlmStagesAre ==
  ASSUME NEW o \in Options
  PROVE  Covers(o, Flow!VlmStages(o), 13, 18)
<1>1. /\ Assembled(o, 13) <=> o.filter # "off"
      /\ Assembled(o, 14) <=> o.filter # "off"
      /\ Assembled(o, 15) <=> o.filter # "off"
      /\ Assembled(o, 16) <=> o.classifier # "off"
      /\ Assembled(o, 17) <=> o.classifier # "off"
      /\ Assembled(o, 18) <=> o.classifier # "off"
  BY DEF Assembled
<1>2. {"fprep", "fcaption", "semantic", "cprep", "ccaption", "classify"} \subseteq StageNames
  BY DEF StageNames
<1> DEFINE p == Flow!If(o.filter # "off", Flow!SemanticStages)
           q == Flow!If(o.classifier # "off", Flow!ClassifierStages)
<1>3. Covers(o, p, 13, 15)
  <2>1. o.filter # "off" => Covers(o, Flow!SemanticStages, 13, 15)
    BY <1>1, <1>2, CoversThree, PlacesOf DEF Flow!SemanticStages
  <2>2. ~(o.filter # "off") => \A n \in 13 .. 15 : ~Assembled(o, n)
    BY <1>1
  <2> QED
    BY <2>1, <2>2, CoversAll
<1>4. Covers(o, q, 16, 18)
  <2>1. o.classifier # "off" => Covers(o, Flow!ClassifierStages, 16, 18)
    BY <1>1, <1>2, CoversThree, PlacesOf DEF Flow!ClassifierStages
  <2>2. ~(o.classifier # "off") => \A n \in 16 .. 18 : ~Assembled(o, n)
    BY <1>1
  <2> QED
    BY <2>1, <2>2, CoversAll
<1> HIDE DEF p, q
<1>5. Covers(o, p \o q, 13, 18)
  BY <1>3, <1>4, CoversJoined
<1> QED
  BY <1>5 DEF p, q, Flow!VlmStages

LEMMA EmbeddingStagesAre ==
  ASSUME NEW o \in Options
  PROVE  Covers(o, Flow!EmbeddingStages(o), 19, 21)
<1>1. /\ Assembled(o, 19) <=> o.embed = "model"
      /\ Assembled(o, 20) <=> o.embed = "model"
      /\ Assembled(o, 21) <=> o.embed = "openai"
  BY DEF Assembled
<1>2. {"embedframes", "embed", "embedapi"} \subseteq StageNames
  BY DEF StageNames
<1> DEFINE p == Flow!If(o.embed = "model", <<"embedframes", "embed">>)
           q == Flow!If(o.embed = "openai", <<"embedapi">>)
<1>3. Covers(o, p, 19, 20)
  <2>1. o.embed = "model" => Covers(o, <<"embedframes", "embed">>, 19, 20)
    BY <1>1, <1>2, CoversTwo, PlacesOf
  <2>2. ~(o.embed = "model") => \A n \in 19 .. 20 : ~Assembled(o, n)
    BY <1>1
  <2> QED
    BY <2>1, <2>2, CoversAll
<1>4. Covers(o, q, 21, 21)
  BY <1>1, <1>2, CoversIf, PlacesOf DEF Flow!If
<1> HIDE DEF p, q
<1>5. Covers(o, p \o q, 19, 21)
  BY <1>3, <1>4, CoversJoined
<1> QED
  BY <1>5 DEF p, q, Flow!EmbeddingStages

LEMMA CaptioningStagesAre ==
  ASSUME NEW o \in Options
  PROVE  Covers(o, Flow!If(o.caption # "off", Flow!CaptioningStages(o)), 22, 25)
<1>1. /\ Assembled(o, 22) <=> o.caption # "off"
      /\ Assembled(o, 23) <=> (o.caption # "off" /\ "previews" \in o.on)
      /\ Assembled(o, 24) <=> o.caption # "off"
      /\ Assembled(o, 25) <=> (o.caption # "off" /\ "enhance" \in o.on)
  BY DEF Assembled
<1>2. {"prep", "preview", "caption", "enhance"} \subseteq StageNames
  BY DEF StageNames
<1>3. ASSUME o.caption # "off"
      PROVE  Covers(o, Flow!CaptioningStages(o), 22, 25)
  <2> DEFINE p == <<"prep">>
             q == Flow!If("previews" \in o.on, <<"preview">>)
             r == <<"caption">>
             s == Flow!If("enhance" \in o.on, <<"enhance">>)
  <2>1. Covers(o, p, 22, 22)
    BY <1>1, <1>2, <1>3, CoversOne, PlacesOf
  <2>2. Covers(o, q, 23, 23)
    BY <1>1, <1>2, <1>3, CoversIf, PlacesOf DEF Flow!If
  <2>3. Covers(o, r, 24, 24)
    BY <1>1, <1>2, <1>3, CoversOne, PlacesOf
  <2>4. Covers(o, s, 25, 25)
    BY <1>1, <1>2, <1>3, CoversIf, PlacesOf DEF Flow!If
  <2> HIDE DEF p, q, r, s
  <2>5. Covers(o, p \o q, 22, 23)
    BY <2>1, <2>2, CoversJoined
  <2>6. Covers(o, p \o q \o r, 22, 24)
    BY <2>3, <2>5, CoversJoined
  <2>7. Covers(o, p \o q \o r \o s, 22, 25)
    BY <2>4, <2>6, CoversJoined
  <2> QED
    BY <2>7 DEF p, q, r, s, Flow!CaptioningStages
<1>4. ~(o.caption # "off") => \A n \in 22 .. 25 : ~Assembled(o, n)
  BY <1>1
<1> QED
  BY <1>3, <1>4, CoversAll

LEMMA TrackingStagesAre ==
  ASSUME NEW o \in Options
  PROVE  Covers(o, Flow!TrackingStages(o), 26, 27)
<1>1. (Assembled(o, 26) <=> "sam3" \in o.on) /\ (Assembled(o, 27) <=> "events" \in o.on)
  BY DEF Assembled
<1>2. {"sam3", "events"} \subseteq StageNames
  BY DEF StageNames
<1> DEFINE p == Flow!If("sam3" \in o.on, <<"sam3">>)
           q == Flow!If("events" \in o.on, <<"events">>)
<1>3. Covers(o, p, 26, 26)
  BY <1>1, <1>2, CoversIf, PlacesOf DEF Flow!If
<1>4. Covers(o, q, 27, 27)
  BY <1>1, <1>2, CoversIf, PlacesOf DEF Flow!If
<1> HIDE DEF p, q
<1>5. Covers(o, p \o q, 26, 27)
  BY <1>3, <1>4, CoversJoined
<1> QED
  BY <1>5 DEF p, q, Flow!TrackingStages

LEMMA FlowStagesAre ==
  ASSUME NEW o \in Options
  PROVE  InOrder(o, Flow!Stages(o)) /\ PlaceOf(Head(Flow!Stages(o))) = 1
<1> DEFINE a == Flow!ClipStages(o)
           b == Flow!PixelStages(o)
           c == Flow!VlmStages(o)
           d == Flow!EmbeddingStages(o)
           e == Flow!If(o.caption # "off", Flow!CaptioningStages(o))
           f == Flow!TrackingStages(o)
           g == Flow!If("predict" \in o.on, <<"t5">>)
           h == <<"write">>
           q == a \o b \o c \o d \o e \o f \o g \o h
<1>1. Covers(o, g, 28, 28)
  <2>1. "t5" \in StageNames /\ ("predict" \in o.on <=> Assembled(o, 28))
    BY DEF Assembled, StageNames
  <2> QED
    BY <2>1, CoversIf, PlacesOf DEF Flow!If
<1>2. Covers(o, h, 29, 29)
  <2>1. "write" \in StageNames /\ Assembled(o, 29)
    BY DEF Assembled, StageNames
  <2> QED
    BY <2>1, CoversOne, PlacesOf
<1>3. /\ Covers(o, a, 1, 6) /\ Covers(o, b, 7, 12) /\ Covers(o, c, 13, 18) /\ Covers(o, d, 19, 21)
      /\ Covers(o, e, 22, 25) /\ Covers(o, f, 26, 27)
  BY ClipStagesAre, PixelStagesAre, VlmStagesAre, EmbeddingStagesAre, CaptioningStagesAre, TrackingStagesAre
<1>4. Flow!Stages(o) = q
  BY Zenon DEF Flow!Stages
<1> HIDE DEF a, b, c, d, e, f, g, h
<1>5. Covers(o, a \o b, 1, 12)
  BY <1>3, CoversJoined
<1>6. Covers(o, a \o b \o c, 1, 18)
  BY <1>3, <1>5, CoversJoined
<1>7. Covers(o, a \o b \o c \o d, 1, 21)
  BY <1>3, <1>6, CoversJoined
<1>8. Covers(o, a \o b \o c \o d \o e, 1, 25)
  BY <1>3, <1>7, CoversJoined
<1>9. Covers(o, a \o b \o c \o d \o e \o f, 1, 27)
  BY <1>3, <1>8, CoversJoined
<1>10. Covers(o, a \o b \o c \o d \o e \o f \o g, 1, 28)
  BY <1>1, <1>9, CoversJoined
<1>11. Covers(o, q, 1, 29)
  BY <1>2, <1>10, CoversJoined
<1> HIDE DEF q
<1>12. PICK j \in DOMAIN q : PlaceOf(q[j]) = 1
  <2>1. Assembled(o, 1)
    BY DEF Assembled
  <2> QED
    BY <1>11, <2>1 DEF Covers
<1>13. q \in Seq(StageNames) /\ q # <<>> /\ DOMAIN q = 1 .. Len(q) /\ Len(q) \in Nat /\ Head(q) = q[1] /\ 1 \in DOMAIN q
  <2>1. q \in Seq(StageNames) /\ j \in DOMAIN q
    BY <1>11, <1>12 DEF Covers
  <2> QED
    BY <2>1, <1>12, HeadTailProperties
<1>14. PlaceOf(q[1]) = 1
  <2>1. j = 1 \/ 1 < j
    BY <1>13
  <2>2. PlaceOf(q[1]) \in 1 .. 29 /\ (1 < j => PlaceOf(q[1]) < PlaceOf(q[j]))
    BY <1>11, <1>13 DEF Covers
  <2> QED
    BY <1>12, <2>1, <2>2
<1>15. InOrder(o, q)
  BY <1>11, <1>13, <1>14 DEF Covers, InOrder
<1> QED
  BY <1>4, <1>13, <1>14, <1>15

LEMMA OptionsAre ==
  ASSUME NEW o \in Options
  PROVE  /\ o.embed \in {"off", "model", "openai"} /\ o.caption \in {"off", "vllm", "api"}
         /\ o.filter \in {"off", "local", "api"} /\ o.classifier \in {"off", "local", "api"}
         /\ o.motion \in {"off", "score-only", "enable"} /\ o.split \in {"stride", "transnet"}
         /\ o.transcode \in BOOLEAN /\ o.local \in BOOLEAN
BY FlowAssumption

\* A stage hands the task on to the next one that is assembled.
LEMMA HandedOn ==
  ASSUME NEW o, NEW q, InOrder(o, q), PlaceOf(Head(q)) # 29
  PROVE  InOrder(o, Tail(q)) /\ Passing(o, PlaceOf(Head(q)), PlaceOf(Head(Tail(q))))
<1> DEFINE u == Tail(q)
           k == PlaceOf(Head(q))
           m == PlaceOf(Head(u))
<1>1. /\ q \in Seq(StageNames) /\ DOMAIN q = 1 .. Len(q) /\ Len(q) \in Nat \ {0} /\ Head(q) = q[1]
      /\ u \in Seq(StageNames) /\ Len(u) = Len(q) - 1 /\ DOMAIN u = 1 .. Len(u) /\ Len(u) \in Nat
      /\ \A j \in 1 .. Len(u) : u[j] = q[j + 1]
  BY HeadTailProperties DEF InOrder
<1>0. /\ \A j \in DOMAIN q : Assembled(o, PlaceOf(q[j])) /\ PlaceOf(q[j]) \in 1 .. 29
      /\ \A j, l \in DOMAIN q : j < l => PlaceOf(q[j]) < PlaceOf(q[l])
      /\ \A n \in 1 .. 29 : Assembled(o, n) /\ n >= k => \E j \in DOMAIN q : PlaceOf(q[j]) = n
  <2>1. \A j \in DOMAIN q : q[j] \in StageNames
    BY <1>1, ElementOfSeq
  <2> QED
    BY <2>1, PlacesAre DEF InOrder
<1> HIDE DEF u
<1>2. k \in 1 .. 29 /\ Assembled(o, k) /\ k = PlaceOf(q[1]) /\ k # 29
  <2>1. 1 \in DOMAIN q
    BY <1>1
  <2>2. k = PlaceOf(q[1])
    BY <1>1
  <2>3. Assembled(o, PlaceOf(q[1])) /\ PlaceOf(q[1]) \in 1 .. 29
    BY <1>0, <2>1
  <2> QED
    BY <2>2, <2>3
<1>3. Assembled(o, 29)
  BY DEF Assembled
<1>4. PICK z \in DOMAIN q : PlaceOf(q[z]) = 29
  <2>1. 29 \in 1 .. 29 /\ 29 >= k
    BY <1>2
  <2> QED
    BY <1>0, <1>3, <2>1
<1>5. z # 1 /\ Len(u) # 0 /\ u # <<>> /\ Head(u) = u[1] /\ u[1] = q[2] /\ 1 \in DOMAIN q /\ 2 \in DOMAIN q
  <2>1. z # 1
    BY <1>2, <1>4
  <2>2. Len(u) # 0
    BY <1>1, <2>1
  <2>3. u # <<>>
    BY <2>2
  <2>4. Head(u) = u[1]
    BY <1>1, <2>3, HeadTailProperties
  <2> QED
    BY <1>1, <2>1, <2>2, <2>3, <2>4
<1>6. m \in 1 .. 29 /\ Assembled(o, m) /\ k < m /\ m = PlaceOf(q[2])
  <2>1. PlaceOf(q[1]) < PlaceOf(q[2])
    BY <1>0, <1>5
  <2> QED
    BY <1>0, <1>2, <1>5, <2>1
<1> HIDE DEF k, m
<1>7. ASSUME NEW n \in 1 .. 29, Assembled(o, n), n > k
      PROVE  n >= m /\ \E j \in DOMAIN u : PlaceOf(u[j]) = n
  <2>1. PICK j \in DOMAIN q : PlaceOf(q[j]) = n
    <3>1. n >= k
      BY <1>2, <1>7
    <3> QED
      BY <1>0, <1>7, <3>1
  <2>2. j # 1
    BY <1>2, <1>7, <2>1
  <2>3. j = 2 \/ 2 < j
    BY <1>1, <2>2
  <2>4. n >= m
    <3>1. CASE j = 2
      BY <1>6, <2>1, <3>1
    <3>2. CASE 2 < j
      <4>1. PlaceOf(q[2]) < PlaceOf(q[j])
        BY <1>0, <1>5, <3>2
      <4> QED
        BY <1>6, <2>1, <4>1
    <3> QED
      BY <2>3, <3>1, <3>2
  <2>5. j - 1 \in DOMAIN u /\ u[j - 1] = q[j]
    BY <1>1, <2>2
  <2> QED
    BY <2>1, <2>4, <2>5
<1>8. InOrder(o, u)
  <2>1. \A j \in DOMAIN u : j + 1 \in DOMAIN q /\ u[j] = q[j + 1]
    BY <1>1
  <2>2. \A j \in DOMAIN u : Assembled(o, PlaceOf(u[j]))
    BY <1>0, <2>1
  <2>3. ASSUME NEW j \in DOMAIN u, NEW l \in DOMAIN u, j < l
        PROVE  PlaceOf(u[j]) < PlaceOf(u[l])
    <3>1. j + 1 < l + 1
      BY <1>1, <2>3
    <3> QED
      BY <1>0, <2>1, <3>1
  <2>4. ASSUME NEW n \in 1 .. 29, Assembled(o, n), n >= PlaceOf(Head(u))
        PROVE  \E j \in DOMAIN u : PlaceOf(u[j]) = n
    <3>1. n > k
      BY <1>2, <1>6, <2>4 DEF m
    <3> QED
      BY <1>7, <2>4, <3>1
  <2> QED
    BY <1>1, <1>5, <2>2, <2>3, <2>4 DEF InOrder
<1>9. Passing(o, k, m)
  <2>1. k \in 1 .. 28 /\ m \in 2 .. 29
    BY <1>2, <1>6
  <2>2. ASSUME NEW n \in {5, 6, 8, 9, 10, 11, 13, 14, 15, 16, 17, 18, 19, 20, 21, 22, 24, 25, 26, 27, 28}, k < n, n < m
        PROVE  ~Assembled(o, n)
    BY <1>2, <1>6, <1>7, <2>2
  <2>3. /\ Assembled(o, 6)
        /\ (Assembled(o, 5) <=> o.transcode)
        /\ (Assembled(o, 8) <=> o.motion # "off") /\ (Assembled(o, 9) <=> o.motion # "off")
        /\ (Assembled(o, 10) <=> ("aesthetics" \in o.on \/ o.embed # "off"))
        /\ (Assembled(o, 11) <=> "aesthetics" \in o.on)
        /\ (Assembled(o, 13) <=> o.filter # "off") /\ (Assembled(o, 14) <=> o.filter # "off")
        /\ (Assembled(o, 15) <=> o.filter # "off")
        /\ (Assembled(o, 16) <=> o.classifier # "off") /\ (Assembled(o, 17) <=> o.classifier # "off")
        /\ (Assembled(o, 18) <=> o.classifier # "off")
        /\ (Assembled(o, 19) <=> o.embed = "model") /\ (Assembled(o, 20) <=> o.embed = "model")
        /\ (Assembled(o, 21) <=> o.embed = "openai")
        /\ (Assembled(o, 22) <=> o.caption # "off") /\ (Assembled(o, 24) <=> o.caption # "off")
        /\ (Assembled(o, 25) <=> (o.caption # "off" /\ "enhance" \in o.on))
        /\ (Assembled(o, 26) <=> "sam3" \in o.on) /\ (Assembled(o, 27) <=> "events" \in o.on)
        /\ (Assembled(o, 28) <=> "predict" \in o.on)
    BY DEF Assembled
  <2>4. /\ k < 5 /\ 5 < m => ~Assembled(o, 5)
        /\ k < 6 => m <= 6
        /\ k < 8 /\ 8 < m => ~Assembled(o, 8)
        /\ k < 9 /\ 9 < m => ~Assembled(o, 9)
        /\ k < 10 /\ 10 < m => ~Assembled(o, 10)
        /\ k < 11 /\ 11 < m => ~Assembled(o, 11)
        /\ k < 13 /\ 13 < m => ~Assembled(o, 13)
        /\ k < 14 /\ 14 < m => ~Assembled(o, 14)
        /\ k < 15 /\ 15 < m => ~Assembled(o, 15)
        /\ k < 16 /\ 16 < m => ~Assembled(o, 16)
        /\ k < 17 /\ 17 < m => ~Assembled(o, 17)
        /\ k < 18 /\ 18 < m => ~Assembled(o, 18)
        /\ k < 19 /\ 19 < m => ~Assembled(o, 19)
        /\ k < 20 /\ 20 < m => ~Assembled(o, 20)
        /\ k < 21 /\ 21 < m => ~Assembled(o, 21)
        /\ k < 22 /\ 22 < m => ~Assembled(o, 22)
        /\ k < 24 /\ 24 < m => ~Assembled(o, 24)
        /\ k < 25 /\ 25 < m => ~Assembled(o, 25)
        /\ k < 26 /\ 26 < m => ~Assembled(o, 26)
        /\ k < 27 /\ 27 < m => ~Assembled(o, 27)
        /\ k < 28 /\ 28 < m => ~Assembled(o, 28)
    BY <1>2, <1>6, <2>2, <2>3
  <2> QED
    BY <1>2, <1>6, <2>1, <2>3, <2>4 DEF Passing
<1> QED
  BY <1>8, <1>9 DEF u, k, m

\* The task goes from the stage at k to the next one.
Moves(k) ==
  /\ At = k /\ At' \in Nat /\ Passing(opts, k, At') /\ InOrder(opts', stages')
  /\ halt = "running" /\ halt' = "running" /\ opts' = opts /\ opts \in Options /\ Flow!Accepted(opts)

LEMMA FlowMoves ==
  ASSUME VideoInv, NEW s \in StageNames, Flow!Stage(s), Flow!Onward, UNCHANGED opts, PlaceOf(s) # 29
  PROVE  Moves(PlaceOf(s))
<1>1. Head(stages) = s /\ halt = "running" /\ stages' = Tail(stages) /\ halt' = halt
  BY DEF Flow!Stage, Flow!Onward
<1>2. opts \in Options /\ Flow!Accepted(opts) /\ InOrder(opts, stages)
  BY DEF VideoInv
<1>3. InOrder(opts, Tail(stages)) /\ Passing(opts, PlaceOf(s), PlaceOf(Head(Tail(stages))))
  BY <1>1, <1>2, HandedOn
<1>4. At' = PlaceOf(Head(Tail(stages))) /\ At = PlaceOf(s)
  BY <1>1 DEF At
<1>5. At' \in Nat
  <2>1. \A o, k, m : Passing(o, k, m) => m \in Nat
    BY DEF Passing
  <2> QED
    BY <1>3, <1>4, <2>1
<1> QED
  BY <1>1, <1>2, <1>3, <1>4, <1>5 DEF Moves

\* A stage that leaves no clip out.
LEMMA VideoKept ==
  ASSUME VideoInv, NEW k \in Nat, Moves(k), UNCHANGED <<made, clips, filtered, stats>>,
         has' \in [Clips -> SUBSET Flow!Item], videoErr' \in BOOLEAN
  PROVE  VideoInv'
<1>1. At' <= 7 => At <= 7
  BY DEF Moves, Passing
<1>2. Flow!Accepted(opts)'
  BY DEF Moves, Flow!Accepted
<1> QED
  BY <1>1, <1>2 DEF VideoInv, Moves

\* What a clip has before the stage that the task is at.
LEMMA ClipsBefore ==
  ASSUME FlowInv, NEW k \in Nat, Moves(k), NEW c \in clips, NEW m, m = At'
  PROVE  /\ c \in Clips /\ c \notin filtered
         /\ Anywhere(opts, k, has[c]) /\ Made(opts, k, has[c])
         /\ Flow!Intact(c) => Sound(opts, k, has[c])
         /\ m \in Nat /\ Passing(opts, k, m)
         /\ opts \in Options /\ Flow!Accepted(opts)
         /\ opts.embed \in {"off", "model", "openai"} /\ opts.caption \in {"off", "vllm", "api"}
         /\ opts.filter \in {"off", "local", "api"} /\ opts.classifier \in {"off", "local", "api"}
<1>1. c \in Clips /\ c \notin filtered /\ At = k
  BY DEF FlowInv, VideoInv, Moves
<1>2. ClipHolds(c)
  BY <1>1 DEF FlowInv
<1>3. m \in Nat /\ Passing(opts, k, m) /\ opts \in Options /\ Flow!Accepted(opts)
  BY DEF Moves
<1> QED
  BY <1>1, <1>2, <1>3, OptionsAre DEF ClipHolds

\* A stage that leaves no clip out and changes those of the task only.
LEMMA FlowKept ==
  ASSUME FlowInv, NEW k \in Nat, Moves(k), UNCHANGED <<made, clips, filtered, stats>>,
         has' \in [Clips -> SUBSET Flow!Item], videoErr' \in BOOLEAN,
         \A c \in Clips \ clips : has'[c] = has[c],
         \A c \in clips : /\ Anywhere(opts, At', has'[c]) /\ Made(opts, At', has'[c])
                          /\ Flow!Intact(c)' => Sound(opts, At', has'[c])
  PROVE  FlowInv'
<1>1. opts' = opts /\ At = k /\ VideoInv /\ clips \cap filtered = {} /\ clips \subseteq Clips
  BY DEF Moves, FlowInv, VideoInv
<1>2. VideoInv'
  BY <1>1, VideoKept
<1>3. ASSUME NEW c \in Clips PROVE ClipHolds(c)'
  <2>0. ClipHolds(c)
    BY DEF FlowInv
  <2>1. CASE c \in clips
    <3>1. c \in clips' /\ c \notin filtered'
      BY <1>1, <2>1
    <3> QED
      BY <1>1, <2>1, <3>1 DEF ClipHolds
  <2>2. CASE c \notin clips
    <3>1. c \notin clips' /\ has'[c] = has[c] /\ filtered' = filtered
      BY <2>2
    <3>2. Anywhere(opts, k, has[c]) /\ "input" \notin has[c] /\ (c \in filtered => Unspent(has[c]))
      BY <1>1, <2>0, <2>2 DEF ClipHolds
    <3>3. PICK m : m = At' /\ m \in Nat /\ Passing(opts, k, m)
      BY DEF Moves
    <3>4. Anywhere(opts, m, has[c])
      BY <3>2, <3>3 DEF Anywhere, Passing
    <3> QED
      BY <1>1, <3>1, <3>2, <3>3, <3>4 DEF ClipHolds
  <2> QED
    BY <2>1, <2>2
<1> QED
  BY <1>2, <1>3 DEF FlowInv


LEMMA FlowDownload == ASSUME FlowInv, Flow!Download PROVE FlowInv'
<1>1. /\ VideoInv /\ UNCHANGED <<opts, made, clips, filtered, stats>> /\ clips \subseteq Clips
      /\ has \in [Clips -> SUBSET Flow!Item] /\ videoErr \in BOOLEAN
  BY DEF FlowInv, VideoInv, Flow!Download
<1>2. Moves(1)
  <2>1. Flow!Stage("download") /\ Flow!Onward /\ "download" \in StageNames
    BY DEF Flow!Download, StageNames
  <2> QED
    BY <1>1, <2>1, FlowMoves, PlacesOf
<1>3. has' = has /\ TRUE
  BY <1>1 DEF Flow!Download
<1>4. has' \in [Clips -> SUBSET Flow!Item] /\ \A c \in Clips \ clips : has'[c] = has[c]
  BY <1>1, <1>3
<1>5. videoErr' \in BOOLEAN
  BY <1>1, <1>3 DEF Flow!Download, Flow!EngineGivenUp
<1>6. ASSUME NEW c \in clips
      PROVE  /\ Anywhere(opts, At', has'[c]) /\ Made(opts, At', has'[c])
             /\ Flow!Intact(c)' => Sound(opts, At', has'[c])
  <2>1. PICK o, m, x, y : o = opts /\ m = At' /\ x = has[c] /\ y = has'[c]
    OBVIOUS
  <2>2. /\ c \in Clips /\ m \in Nat /\ Passing(o, 1, m) /\ Anywhere(o, 1, x) /\ Made(o, 1, x)
        /\ Flow!Intact(c) => Sound(o, 1, x)
        /\ o.embed \in {"off", "model", "openai"} /\ o.caption \in {"off", "vllm", "api"}
        /\ o.filter \in {"off", "local", "api"} /\ o.classifier \in {"off", "local", "api"}
    BY <1>2, <2>1, ClipsBefore
  <2>3. y = x
    BY <1>3, <2>1
  <2>4. Flow!Intact(c)' => TRUE
    BY <1>1, <1>3, <1>5, <2>1 DEF Flow!Intact, Flow!Holding, Flow!Only, Flow!Download, Flow!EngineGivenUp
  <2>5. Anywhere(o, m, y)
    BY <2>2, <2>3 DEF Anywhere, Passing
  <2>6. Made(o, m, y)
    BY <2>2, <2>3 DEF Made, Anywhere, Passing, Assembled
  <2>7. Flow!Intact(c)' => Sound(o, m, y)
    BY <2>2, <2>3, <2>4 DEF Anywhere, Sound, Passing, Assembled
  <2> QED
    BY <2>1, <2>5, <2>6, <2>7
<1> QED
  BY <1>1, <1>2, <1>4, <1>5, <1>6, FlowKept

LEMMA FlowTranscode == ASSUME FlowInv, Flow!Transcode PROVE FlowInv'
<1>1. /\ VideoInv /\ UNCHANGED <<opts, made, clips, filtered, stats>> /\ clips \subseteq Clips
      /\ has \in [Clips -> SUBSET Flow!Item] /\ videoErr \in BOOLEAN
  BY DEF FlowInv, VideoInv, Flow!Transcode
<1>2. Moves(5)
  <2>1. Flow!Stage("transcode") /\ Flow!Onward /\ "transcode" \in StageNames
    BY DEF Flow!Transcode, StageNames
  <2> QED
    BY <1>1, <2>1, FlowMoves, PlacesOf
<1>3. PICK bad \in SUBSET clips, lost \in SUBSET clips :
        /\ has' = Flow!Give(clips \ (bad \cup lost), {"data"})
        /\ err' = err \cup bad
        /\ videoErr' = (videoErr \/ "data" \notin video \/ lost # {})
  BY DEF Flow!Transcode
<1>4. has' \in [Clips -> SUBSET Flow!Item] /\ \A c \in Clips \ clips : has'[c] = has[c]
  BY <1>1, <1>3 DEF Flow!Item, Flow!Give
<1>5. videoErr' \in BOOLEAN
  BY <1>1, <1>3 DEF Flow!Transcode, Flow!EngineGivenUp
<1>6. ASSUME NEW c \in clips
      PROVE  /\ Anywhere(opts, At', has'[c]) /\ Made(opts, At', has'[c])
             /\ Flow!Intact(c)' => Sound(opts, At', has'[c])
  <2>1. PICK o, m, x, y : o = opts /\ m = At' /\ x = has[c] /\ y = has'[c]
    OBVIOUS
  <2>2. /\ c \in Clips /\ m \in Nat /\ Passing(o, 5, m) /\ Anywhere(o, 5, x) /\ Made(o, 5, x)
        /\ Flow!Intact(c) => Sound(o, 5, x)
        /\ o.embed \in {"off", "model", "openai"} /\ o.caption \in {"off", "vllm", "api"}
        /\ o.filter \in {"off", "local", "api"} /\ o.classifier \in {"off", "local", "api"}
    BY <1>2, <2>1, ClipsBefore
  <2>3. y = IF c \in bad \cup lost THEN x ELSE x \cup {"data"}
    BY <1>3, <2>1, <2>2 DEF Flow!Only, Flow!Give, Flow!FrameRates, Flow!Holding, Flow!KeepMp4
  <2>4. Flow!Intact(c)' => Flow!Intact(c) /\ c \notin bad \cup lost
    BY <1>1, <1>3, <1>5, <2>1 DEF Flow!Intact, Flow!Holding, Flow!Only, Flow!Transcode, Flow!EngineGivenUp
  <2>5. Anywhere(o, m, y)
    BY <2>2, <2>3 DEF Anywhere, Passing
  <2>6. Made(o, m, y)
    BY <2>2, <2>3 DEF Made, Anywhere, Passing, Assembled
  <2>7. Flow!Intact(c)' => Sound(o, m, y)
    BY <2>2, <2>3, <2>4 DEF Anywhere, Sound, Passing, Assembled
  <2> QED
    BY <2>1, <2>5, <2>6, <2>7
<1> QED
  BY <1>1, <1>2, <1>4, <1>5, <1>6, FlowKept

LEMMA FlowSuperResolution == ASSUME FlowInv, Flow!SuperResolution PROVE FlowInv'
<1>1. /\ VideoInv /\ UNCHANGED <<opts, made, clips, filtered, stats>> /\ clips \subseteq Clips
      /\ has \in [Clips -> SUBSET Flow!Item] /\ videoErr \in BOOLEAN
  BY DEF FlowInv, VideoInv, Flow!SuperResolution
<1>2. Moves(7)
  <2>1. Flow!Stage("superres") /\ Flow!Onward /\ "superres" \in StageNames
    BY DEF Flow!SuperResolution, StageNames
  <2> QED
    BY <1>1, <2>1, FlowMoves, PlacesOf
<1>3. has' = has /\ err \subseteq err' /\ videoErr' = videoErr
  BY <1>1 DEF Flow!SuperResolution
<1>4. has' \in [Clips -> SUBSET Flow!Item] /\ \A c \in Clips \ clips : has'[c] = has[c]
  BY <1>1, <1>3
<1>5. videoErr' \in BOOLEAN
  BY <1>1, <1>3 DEF Flow!SuperResolution, Flow!EngineGivenUp
<1>6. ASSUME NEW c \in clips
      PROVE  /\ Anywhere(opts, At', has'[c]) /\ Made(opts, At', has'[c])
             /\ Flow!Intact(c)' => Sound(opts, At', has'[c])
  <2>1. PICK o, m, x, y : o = opts /\ m = At' /\ x = has[c] /\ y = has'[c]
    OBVIOUS
  <2>2. /\ c \in Clips /\ m \in Nat /\ Passing(o, 7, m) /\ Anywhere(o, 7, x) /\ Made(o, 7, x)
        /\ Flow!Intact(c) => Sound(o, 7, x)
        /\ o.embed \in {"off", "model", "openai"} /\ o.caption \in {"off", "vllm", "api"}
        /\ o.filter \in {"off", "local", "api"} /\ o.classifier \in {"off", "local", "api"}
    BY <1>2, <2>1, ClipsBefore
  <2>3. y = x
    BY <1>3, <2>1
  <2>4. Flow!Intact(c)' => Flow!Intact(c)
    BY <1>1, <1>3, <1>5, <2>1 DEF Flow!Intact, Flow!Holding, Flow!Only, Flow!SuperResolution, Flow!EngineGivenUp
  <2>5. Anywhere(o, m, y)
    BY <2>2, <2>3 DEF Anywhere, Passing
  <2>6. Made(o, m, y)
    BY <2>2, <2>3 DEF Made, Anywhere, Passing, Assembled
  <2>7. Flow!Intact(c)' => Sound(o, m, y)
    BY <2>2, <2>3, <2>4 DEF Anywhere, Sound, Passing, Assembled
  <2> QED
    BY <2>1, <2>5, <2>6, <2>7
<1> QED
  BY <1>1, <1>2, <1>4, <1>5, <1>6, FlowKept

LEMMA FlowMotionDecode == ASSUME FlowInv, Flow!MotionDecode PROVE FlowInv'
<1>1. /\ VideoInv /\ UNCHANGED <<opts, made, clips, filtered, stats>> /\ clips \subseteq Clips
      /\ has \in [Clips -> SUBSET Flow!Item] /\ videoErr \in BOOLEAN
  BY DEF FlowInv, VideoInv, Flow!MotionDecode
<1>2. Moves(8)
  <2>1. Flow!Stage("motiondecode") /\ Flow!Onward /\ "motiondecode" \in StageNames
    BY DEF Flow!MotionDecode, StageNames
  <2> QED
    BY <1>1, <2>1, FlowMoves, PlacesOf
<1>3. PICK bad \in SUBSET clips :
        /\ has' = Flow!Give(clips \ bad, {"motion"})
        /\ err' = err \cup bad
  BY DEF Flow!MotionDecode
<1>4. has' \in [Clips -> SUBSET Flow!Item] /\ \A c \in Clips \ clips : has'[c] = has[c]
  BY <1>1, <1>3 DEF Flow!Item, Flow!Give
<1>5. videoErr' \in BOOLEAN
  BY <1>1, <1>3 DEF Flow!MotionDecode, Flow!EngineGivenUp
<1>6. ASSUME NEW c \in clips
      PROVE  /\ Anywhere(opts, At', has'[c]) /\ Made(opts, At', has'[c])
             /\ Flow!Intact(c)' => Sound(opts, At', has'[c])
  <2>1. PICK o, m, x, y : o = opts /\ m = At' /\ x = has[c] /\ y = has'[c]
    OBVIOUS
  <2>2. /\ c \in Clips /\ m \in Nat /\ Passing(o, 8, m) /\ Anywhere(o, 8, x) /\ Made(o, 8, x)
        /\ Flow!Intact(c) => Sound(o, 8, x)
        /\ o.embed \in {"off", "model", "openai"} /\ o.caption \in {"off", "vllm", "api"}
        /\ o.filter \in {"off", "local", "api"} /\ o.classifier \in {"off", "local", "api"}
    BY <1>2, <2>1, ClipsBefore
  <2>3. y = IF c \in bad THEN x ELSE x \cup {"motion"}
    BY <1>3, <2>1, <2>2 DEF Flow!Only, Flow!Give, Flow!FrameRates, Flow!Holding, Flow!KeepMp4
  <2>4. Flow!Intact(c)' => Flow!Intact(c) /\ c \notin bad
    BY <1>1, <1>3, <1>5, <2>1 DEF Flow!Intact, Flow!Holding, Flow!Only, Flow!MotionDecode, Flow!EngineGivenUp
  <2>5. Anywhere(o, m, y)
    BY <2>2, <2>3 DEF Anywhere, Passing
  <2>6. Made(o, m, y)
    BY <2>2, <2>3 DEF Made, Anywhere, Passing, Assembled
  <2>7. Flow!Intact(c)' => Sound(o, m, y)
    BY <2>2, <2>3, <2>4 DEF Anywhere, Sound, Passing, Assembled
  <2> QED
    BY <2>1, <2>5, <2>6, <2>7
<1> QED
  BY <1>1, <1>2, <1>4, <1>5, <1>6, FlowKept

LEMMA FlowFrames == ASSUME FlowInv, Flow!Frames PROVE FlowInv'
<1>1. /\ VideoInv /\ UNCHANGED <<opts, made, clips, filtered, stats>> /\ clips \subseteq Clips
      /\ has \in [Clips -> SUBSET Flow!Item] /\ videoErr \in BOOLEAN
  BY DEF FlowInv, VideoInv, Flow!Frames
<1>2. Moves(10)
  <2>1. Flow!Stage("frames") /\ Flow!Onward /\ "frames" \in StageNames
    BY DEF Flow!Frames, StageNames
  <2> QED
    BY <1>1, <2>1, FlowMoves, PlacesOf
<1>3. PICK bad \in SUBSET clips :
        /\ has' = [c \in Clips |-> IF c \in bad THEN has[c] \ {"data"}
                                   ELSE IF c \in clips THEN has[c] \cup Flow!FrameRates ELSE has[c]]
        /\ err' = err \cup bad /\ videoErr' = videoErr
  BY DEF Flow!Frames
<1>4. has' \in [Clips -> SUBSET Flow!Item] /\ \A c \in Clips \ clips : has'[c] = has[c]
  BY <1>1, <1>3 DEF Flow!Item, Flow!FrameRates, Flow!Only
<1>5. videoErr' \in BOOLEAN
  BY <1>1, <1>3 DEF Flow!Frames, Flow!EngineGivenUp
<1>6. ASSUME NEW c \in clips
      PROVE  /\ Anywhere(opts, At', has'[c]) /\ Made(opts, At', has'[c])
             /\ Flow!Intact(c)' => Sound(opts, At', has'[c])
  <2>1. PICK o, m, x, y : o = opts /\ m = At' /\ x = has[c] /\ y = has'[c]
    OBVIOUS
  <2>2. /\ c \in Clips /\ m \in Nat /\ Passing(o, 10, m) /\ Anywhere(o, 10, x) /\ Made(o, 10, x)
        /\ Flow!Intact(c) => Sound(o, 10, x)
        /\ o.embed \in {"off", "model", "openai"} /\ o.caption \in {"off", "vllm", "api"}
        /\ o.filter \in {"off", "local", "api"} /\ o.classifier \in {"off", "local", "api"}
    BY <1>2, <2>1, ClipsBefore
  <2>3. y = IF c \in bad THEN x \ {"data"}
            ELSE x \cup (IF "aesthetics" \in o.on THEN {"f1"} ELSE {}) \cup (IF o.embed # "off" THEN {"f2"} ELSE {})
    BY <1>3, <2>1, <2>2 DEF Flow!Only, Flow!Give, Flow!FrameRates, Flow!Holding, Flow!KeepMp4
  <2>4. Flow!Intact(c)' => Flow!Intact(c) /\ c \notin bad
    BY <1>1, <1>3, <1>5, <2>1 DEF Flow!Intact, Flow!Holding, Flow!Only, Flow!Frames, Flow!EngineGivenUp
  <2>5. Anywhere(o, m, y)
    BY <2>2, <2>3 DEF Anywhere, Passing
  <2>6. Made(o, m, y)
    BY <2>2, <2>3 DEF Made, Anywhere, Passing, Assembled
  <2>7. Flow!Intact(c)' => Sound(o, m, y)
    BY <2>2, <2>3, <2>4 DEF Anywhere, Sound, Passing, Assembled
  <2> QED
    BY <2>1, <2>5, <2>6, <2>7
<1> QED
  BY <1>1, <1>2, <1>4, <1>5, <1>6, FlowKept

LEMMA FlowFramesUnopened == ASSUME FlowInv, Flow!FramesUnopened PROVE FlowInv'
<1>1. /\ VideoInv /\ UNCHANGED <<opts, made, clips, filtered, stats>> /\ clips \subseteq Clips
      /\ has \in [Clips -> SUBSET Flow!Item] /\ videoErr \in BOOLEAN
  BY DEF FlowInv, VideoInv, Flow!FramesUnopened
<1>2. Moves(10)
  <2>1. Flow!Stage("frames") /\ Flow!Onward /\ "frames" \in StageNames
    BY DEF Flow!FramesUnopened, StageNames
  <2> QED
    BY <1>1, <2>1, FlowMoves, PlacesOf
<1>3. has' = has /\ videoErr' = TRUE
  BY <1>1 DEF Flow!FramesUnopened
<1>4. has' \in [Clips -> SUBSET Flow!Item] /\ \A c \in Clips \ clips : has'[c] = has[c]
  BY <1>1, <1>3
<1>5. videoErr' \in BOOLEAN
  BY <1>1, <1>3 DEF Flow!FramesUnopened, Flow!EngineGivenUp
<1>6. ASSUME NEW c \in clips
      PROVE  /\ Anywhere(opts, At', has'[c]) /\ Made(opts, At', has'[c])
             /\ Flow!Intact(c)' => Sound(opts, At', has'[c])
  <2>1. PICK o, m, x, y : o = opts /\ m = At' /\ x = has[c] /\ y = has'[c]
    OBVIOUS
  <2>2. /\ c \in Clips /\ m \in Nat /\ Passing(o, 10, m) /\ Anywhere(o, 10, x) /\ Made(o, 10, x)
        /\ Flow!Intact(c) => Sound(o, 10, x)
        /\ o.embed \in {"off", "model", "openai"} /\ o.caption \in {"off", "vllm", "api"}
        /\ o.filter \in {"off", "local", "api"} /\ o.classifier \in {"off", "local", "api"}
    BY <1>2, <2>1, ClipsBefore
  <2>3. y = x
    BY <1>3, <2>1
  <2>4. Flow!Intact(c)' => FALSE
    BY <1>1, <1>3, <1>5, <2>1 DEF Flow!Intact, Flow!Holding, Flow!Only, Flow!FramesUnopened, Flow!EngineGivenUp
  <2>5. Anywhere(o, m, y)
    BY <2>2, <2>3 DEF Anywhere, Passing
  <2>6. Made(o, m, y)
    BY <2>2, <2>3 DEF Made, Anywhere, Passing, Assembled
  <2>7. Flow!Intact(c)' => Sound(o, m, y)
    BY <2>2, <2>3, <2>4 DEF Anywhere, Sound, Passing, Assembled
  <2> QED
    BY <2>1, <2>5, <2>6, <2>7
<1> QED
  BY <1>1, <1>2, <1>4, <1>5, <1>6, FlowKept

LEMMA FlowEmbedFrames == ASSUME FlowInv, Flow!EmbedFrames PROVE FlowInv'
<1>1. /\ VideoInv /\ UNCHANGED <<opts, made, clips, filtered, stats>> /\ clips \subseteq Clips
      /\ has \in [Clips -> SUBSET Flow!Item] /\ videoErr \in BOOLEAN
  BY DEF FlowInv, VideoInv, Flow!EmbedFrames
<1>2. Moves(19)
  <2>1. Flow!Stage("embedframes") /\ Flow!Onward /\ "embedframes" \in StageNames
    BY DEF Flow!EmbedFrames, StageNames
  <2> QED
    BY <1>1, <2>1, FlowMoves, PlacesOf
<1>3. PICK fed : /\ fed = Flow!Holding("data") \cap Flow!Holding("f2")
                /\ has' = [c \in Clips |-> IF c \in fed THEN (has[c] \ {"f1", "f2"}) \cup {"embinput"} ELSE has[c]]
                /\ err' = err \cup (clips \ fed) /\ videoErr' = videoErr
  BY DEF Flow!EmbedFrames
<1>4. has' \in [Clips -> SUBSET Flow!Item] /\ \A c \in Clips \ clips : has'[c] = has[c]
  BY <1>1, <1>3 DEF Flow!Item, Flow!Holding
<1>5. videoErr' \in BOOLEAN
  BY <1>1, <1>3 DEF Flow!EmbedFrames, Flow!EngineGivenUp
<1>6. ASSUME NEW c \in clips
      PROVE  /\ Anywhere(opts, At', has'[c]) /\ Made(opts, At', has'[c])
             /\ Flow!Intact(c)' => Sound(opts, At', has'[c])
  <2>1. PICK o, m, x, y : o = opts /\ m = At' /\ x = has[c] /\ y = has'[c]
    OBVIOUS
  <2>2. /\ c \in Clips /\ m \in Nat /\ Passing(o, 19, m) /\ Anywhere(o, 19, x) /\ Made(o, 19, x)
        /\ Flow!Intact(c) => Sound(o, 19, x)
        /\ o.embed \in {"off", "model", "openai"} /\ o.caption \in {"off", "vllm", "api"}
        /\ o.filter \in {"off", "local", "api"} /\ o.classifier \in {"off", "local", "api"}
    BY <1>2, <2>1, ClipsBefore
  <2>3. y = IF c \in fed THEN (x \ {"f1", "f2"}) \cup {"embinput"} ELSE x
    BY <1>3, <2>1, <2>2 DEF Flow!Only, Flow!Give, Flow!FrameRates, Flow!Holding, Flow!KeepMp4
  <2>4. Flow!Intact(c)' => Flow!Intact(c) /\ c \in fed
    BY <1>1, <1>3, <1>5, <2>1 DEF Flow!Intact, Flow!Holding, Flow!Only, Flow!EmbedFrames, Flow!EngineGivenUp
  <2>5. Anywhere(o, m, y)
    BY <2>2, <2>3 DEF Anywhere, Passing
  <2>6. Made(o, m, y)
    BY <2>2, <2>3 DEF Made, Anywhere, Passing, Assembled
  <2>7. Flow!Intact(c)' => Sound(o, m, y)
    BY <2>2, <2>3, <2>4 DEF Anywhere, Sound, Passing, Assembled
  <2> QED
    BY <2>1, <2>5, <2>6, <2>7
<1> QED
  BY <1>1, <1>2, <1>4, <1>5, <1>6, FlowKept

LEMMA FlowEmbed == ASSUME FlowInv, Flow!Embed PROVE FlowInv'
<1>1. /\ VideoInv /\ UNCHANGED <<opts, made, clips, filtered, stats>> /\ clips \subseteq Clips
      /\ has \in [Clips -> SUBSET Flow!Item] /\ videoErr \in BOOLEAN
  BY DEF FlowInv, VideoInv, Flow!Embed
<1>2. Moves(20)
  <2>1. Flow!Stage("embed") /\ Flow!Onward /\ "embed" \in StageNames
    BY DEF Flow!Embed, StageNames
  <2> QED
    BY <1>1, <2>1, FlowMoves, PlacesOf
<1>3. PICK good \in SUBSET Flow!Holding("embinput") :
        /\ has' = [c \in Clips |-> IF c \in clips THEN (has[c] \ {"embinput"}) \cup Flow!Only(c \in good, {"embedding"})
                                   ELSE has[c]]
        /\ err' = err \cup (clips \ good) /\ videoErr' = videoErr
  BY DEF Flow!Embed
<1>4. has' \in [Clips -> SUBSET Flow!Item] /\ \A c \in Clips \ clips : has'[c] = has[c]
  BY <1>1, <1>3 DEF Flow!Item, Flow!Only
<1>5. videoErr' \in BOOLEAN
  BY <1>1, <1>3 DEF Flow!Embed, Flow!EngineGivenUp
<1>6. ASSUME NEW c \in clips
      PROVE  /\ Anywhere(opts, At', has'[c]) /\ Made(opts, At', has'[c])
             /\ Flow!Intact(c)' => Sound(opts, At', has'[c])
  <2>1. PICK o, m, x, y : o = opts /\ m = At' /\ x = has[c] /\ y = has'[c]
    OBVIOUS
  <2>2. /\ c \in Clips /\ m \in Nat /\ Passing(o, 20, m) /\ Anywhere(o, 20, x) /\ Made(o, 20, x)
        /\ Flow!Intact(c) => Sound(o, 20, x)
        /\ o.embed \in {"off", "model", "openai"} /\ o.caption \in {"off", "vllm", "api"}
        /\ o.filter \in {"off", "local", "api"} /\ o.classifier \in {"off", "local", "api"}
    BY <1>2, <2>1, ClipsBefore
  <2>3. y = (x \ {"embinput"}) \cup (IF c \in good THEN {"embedding"} ELSE {})
    BY <1>3, <2>1, <2>2 DEF Flow!Only, Flow!Give, Flow!FrameRates, Flow!Holding, Flow!KeepMp4
  <2>4. Flow!Intact(c)' => Flow!Intact(c) /\ c \in good
    BY <1>1, <1>3, <1>5, <2>1 DEF Flow!Intact, Flow!Holding, Flow!Only, Flow!Embed, Flow!EngineGivenUp
  <2>5. Anywhere(o, m, y)
    BY <2>2, <2>3 DEF Anywhere, Passing
  <2>6. Made(o, m, y)
    BY <2>2, <2>3 DEF Made, Anywhere, Passing, Assembled
  <2>7. Flow!Intact(c)' => Sound(o, m, y)
    BY <2>2, <2>3, <2>4 DEF Anywhere, Sound, Passing, Assembled
  <2> QED
    BY <2>1, <2>5, <2>6, <2>7
<1> QED
  BY <1>1, <1>2, <1>4, <1>5, <1>6, FlowKept

LEMMA FlowEmbedApi == ASSUME FlowInv, Flow!EmbedApi PROVE FlowInv'
<1>1. /\ VideoInv /\ UNCHANGED <<opts, made, clips, filtered, stats>> /\ clips \subseteq Clips
      /\ has \in [Clips -> SUBSET Flow!Item] /\ videoErr \in BOOLEAN
  BY DEF FlowInv, VideoInv, Flow!EmbedApi
<1>2. Moves(21)
  <2>1. Flow!Stage("embedapi") /\ Flow!Onward /\ "embedapi" \in StageNames
    BY DEF Flow!EmbedApi, StageNames
  <2> QED
    BY <1>1, <2>1, FlowMoves, PlacesOf
<1>3. PICK good \in SUBSET Flow!Holding("f2") :
        /\ has' = [c \in Clips |-> IF c \in good THEN (has[c] \ {"f1", "f2"}) \cup {"embedding"} ELSE has[c]]
        /\ err' = err \cup (clips \ good) /\ videoErr' = videoErr
  BY DEF Flow!EmbedApi
<1>4. has' \in [Clips -> SUBSET Flow!Item] /\ \A c \in Clips \ clips : has'[c] = has[c]
  BY <1>1, <1>3 DEF Flow!Item, Flow!Holding
<1>5. videoErr' \in BOOLEAN
  BY <1>1, <1>3 DEF Flow!EmbedApi, Flow!EngineGivenUp
<1>6. ASSUME NEW c \in clips
      PROVE  /\ Anywhere(opts, At', has'[c]) /\ Made(opts, At', has'[c])
             /\ Flow!Intact(c)' => Sound(opts, At', has'[c])
  <2>1. PICK o, m, x, y : o = opts /\ m = At' /\ x = has[c] /\ y = has'[c]
    OBVIOUS
  <2>2. /\ c \in Clips /\ m \in Nat /\ Passing(o, 21, m) /\ Anywhere(o, 21, x) /\ Made(o, 21, x)
        /\ Flow!Intact(c) => Sound(o, 21, x)
        /\ o.embed \in {"off", "model", "openai"} /\ o.caption \in {"off", "vllm", "api"}
        /\ o.filter \in {"off", "local", "api"} /\ o.classifier \in {"off", "local", "api"}
    BY <1>2, <2>1, ClipsBefore
  <2>3. y = IF c \in good THEN (x \ {"f1", "f2"}) \cup {"embedding"} ELSE x
    BY <1>3, <2>1, <2>2 DEF Flow!Only, Flow!Give, Flow!FrameRates, Flow!Holding, Flow!KeepMp4
  <2>4. Flow!Intact(c)' => Flow!Intact(c) /\ c \in good
    BY <1>1, <1>3, <1>5, <2>1 DEF Flow!Intact, Flow!Holding, Flow!Only, Flow!EmbedApi, Flow!EngineGivenUp
  <2>5. Anywhere(o, m, y)
    BY <2>2, <2>3 DEF Anywhere, Passing
  <2>6. Made(o, m, y)
    BY <2>2, <2>3 DEF Made, Anywhere, Passing, Assembled
  <2>7. Flow!Intact(c)' => Sound(o, m, y)
    BY <2>2, <2>3, <2>4 DEF Anywhere, Sound, Passing, Assembled
  <2> QED
    BY <2>1, <2>5, <2>6, <2>7
<1> QED
  BY <1>1, <1>2, <1>4, <1>5, <1>6, FlowKept

LEMMA FlowCaption == ASSUME FlowInv, Flow!Caption PROVE FlowInv'
<1>1. /\ VideoInv /\ UNCHANGED <<opts, made, clips, filtered, stats>> /\ clips \subseteq Clips
      /\ has \in [Clips -> SUBSET Flow!Item] /\ videoErr \in BOOLEAN
  BY DEF FlowInv, VideoInv, Flow!Caption
<1>2. Moves(24)
  <2>1. Flow!Stage("caption") /\ Flow!Onward /\ "caption" \in StageNames
    BY DEF Flow!Caption, StageNames
  <2> QED
    BY <1>1, <2>1, FlowMoves, PlacesOf
<1>3. PICK good \in SUBSET (Flow!Holding("win") \cap Flow!Holding(IF opts.caption = "api" THEN "mp4" ELSE "input")) :
        /\ has' = [c \in Clips |->
                     IF c \in clips
                     THEN (has[c] \ Flow!Only(opts.caption # "api", {"input"} \cup Flow!Only(~Flow!KeepMp4, {"mp4"})))
                          \cup Flow!Only(c \in good, {"caption"})
                     ELSE has[c]]
        /\ err' = err \cup (Flow!Holding("win") \ good)
                      \cup Flow!Only(opts.caption # "api", clips \ Flow!Holding("win"))
  BY DEF Flow!Caption
<1>4. has' \in [Clips -> SUBSET Flow!Item] /\ \A c \in Clips \ clips : has'[c] = has[c]
  BY <1>1, <1>3 DEF Flow!Item, Flow!Only
<1>5. videoErr' \in BOOLEAN
  BY <1>1, <1>3 DEF Flow!Caption, Flow!EngineGivenUp
<1>6. ASSUME NEW c \in clips
      PROVE  /\ Anywhere(opts, At', has'[c]) /\ Made(opts, At', has'[c])
             /\ Flow!Intact(c)' => Sound(opts, At', has'[c])
  <2>1. PICK o, m, x, y : o = opts /\ m = At' /\ x = has[c] /\ y = has'[c]
    OBVIOUS
  <2>2. /\ c \in Clips /\ m \in Nat /\ Passing(o, 24, m) /\ Anywhere(o, 24, x) /\ Made(o, 24, x)
        /\ Flow!Intact(c) => Sound(o, 24, x)
        /\ o.embed \in {"off", "model", "openai"} /\ o.caption \in {"off", "vllm", "api"}
        /\ o.filter \in {"off", "local", "api"} /\ o.classifier \in {"off", "local", "api"}
    BY <1>2, <2>1, ClipsBefore
  <2>3. PICK z \in SUBSET {"input", "mp4"} :
           /\ o.caption # "api" => "input" \in z
           /\ y = (x \ z) \cup (IF c \in good THEN {"caption"} ELSE {})
           /\ c \in good => "win" \in x
    <3> DEFINE w == Flow!Only(opts.caption # "api", {"input"} \cup Flow!Only(~Flow!KeepMp4, {"mp4"}))
    <3>1. w \in SUBSET {"input", "mp4"} /\ (o.caption # "api" => "input" \in w)
      BY <2>1 DEF Flow!Only
    <3>2. /\ y = (x \ w) \cup (IF c \in good THEN {"caption"} ELSE {})
          /\ c \in good => "win" \in x
      BY <1>3, <2>1, <2>2 DEF Flow!Only, Flow!Holding
    <3> HIDE DEF w
    <3> QED
      BY <3>1, <3>2
  <2>4. Flow!Intact(c)' => Flow!Intact(c) /\ ("win" \in x => c \in good) /\ (o.caption = "vllm" => "win" \in x)
    BY <1>1, <1>3, <1>5, <2>1 DEF Flow!Intact, Flow!Holding, Flow!Only, Flow!Caption, Flow!EngineGivenUp
  <2>5. Anywhere(o, m, y)
    BY <2>2, <2>3 DEF Anywhere, Passing, Assembled
  <2>6. Made(o, m, y)
    BY <2>2, <2>3 DEF Made, Anywhere, Passing, Assembled
  <2>7. Flow!Intact(c)' => Sound(o, m, y)
    BY <2>2, <2>3, <2>4 DEF Anywhere, Sound, Passing, Assembled
  <2> QED
    BY <2>1, <2>5, <2>6, <2>7
<1> QED
  BY <1>1, <1>2, <1>4, <1>5, <1>6, FlowKept

LEMMA FlowEnhance == ASSUME FlowInv, Flow!Enhance PROVE FlowInv'
<1>1. /\ VideoInv /\ UNCHANGED <<opts, made, clips, filtered, stats>> /\ clips \subseteq Clips
      /\ has \in [Clips -> SUBSET Flow!Item] /\ videoErr \in BOOLEAN
  BY DEF FlowInv, VideoInv, Flow!Enhance
<1>2. Moves(25)
  <2>1. Flow!Stage("enhance") /\ Flow!Onward /\ "enhance" \in StageNames
    BY DEF Flow!Enhance, StageNames
  <2> QED
    BY <1>1, <2>1, FlowMoves, PlacesOf
<1>3. /\ has' = Flow!Give(Flow!Holding("caption"), {"enhanced"})
      /\ err' = err \cup (clips \ Flow!Holding("caption")) /\ videoErr' = videoErr
  BY DEF Flow!Enhance
<1>4. has' \in [Clips -> SUBSET Flow!Item] /\ \A c \in Clips \ clips : has'[c] = has[c]
  BY <1>1, <1>3 DEF Flow!Item, Flow!Give, Flow!Holding
<1>5. videoErr' \in BOOLEAN
  BY <1>1, <1>3 DEF Flow!Enhance, Flow!EngineGivenUp
<1>6. ASSUME NEW c \in clips
      PROVE  /\ Anywhere(opts, At', has'[c]) /\ Made(opts, At', has'[c])
             /\ Flow!Intact(c)' => Sound(opts, At', has'[c])
  <2>1. PICK o, m, x, y : o = opts /\ m = At' /\ x = has[c] /\ y = has'[c]
    OBVIOUS
  <2>2. /\ c \in Clips /\ m \in Nat /\ Passing(o, 25, m) /\ Anywhere(o, 25, x) /\ Made(o, 25, x)
        /\ Flow!Intact(c) => Sound(o, 25, x)
        /\ o.embed \in {"off", "model", "openai"} /\ o.caption \in {"off", "vllm", "api"}
        /\ o.filter \in {"off", "local", "api"} /\ o.classifier \in {"off", "local", "api"}
    BY <1>2, <2>1, ClipsBefore
  <2>3. y = IF "caption" \in x THEN x \cup {"enhanced"} ELSE x
    BY <1>3, <2>1, <2>2 DEF Flow!Only, Flow!Give, Flow!FrameRates, Flow!Holding, Flow!KeepMp4
  <2>4. Flow!Intact(c)' => Flow!Intact(c)
    BY <1>1, <1>3, <1>5, <2>1 DEF Flow!Intact, Flow!Holding, Flow!Only, Flow!Enhance, Flow!EngineGivenUp
  <2>5. Anywhere(o, m, y)
    BY <2>2, <2>3 DEF Anywhere, Passing
  <2>6. Made(o, m, y)
    BY <2>2, <2>3 DEF Made, Anywhere, Passing, Assembled
  <2>7. Flow!Intact(c)' => Sound(o, m, y)
    BY <2>2, <2>3, <2>4 DEF Anywhere, Sound, Passing, Assembled
  <2> QED
    BY <2>1, <2>5, <2>6, <2>7
<1> QED
  BY <1>1, <1>2, <1>4, <1>5, <1>6, FlowKept

LEMMA FlowSam3 == ASSUME FlowInv, Flow!Sam3 PROVE FlowInv'
<1>1. /\ VideoInv /\ UNCHANGED <<opts, made, clips, filtered, stats>> /\ clips \subseteq Clips
      /\ has \in [Clips -> SUBSET Flow!Item] /\ videoErr \in BOOLEAN
  BY DEF FlowInv, VideoInv, Flow!Sam3
<1>2. Moves(26)
  <2>1. Flow!Stage("sam3") /\ Flow!Onward /\ "sam3" \in StageNames
    BY DEF Flow!Sam3, StageNames
  <2> QED
    BY <1>1, <2>1, FlowMoves, PlacesOf
<1>3. PICK good \in SUBSET Flow!Holding("data"), seen \in SUBSET Flow!Holding("data") :
        /\ seen \subseteq good /\ has' = [c \in Clips |-> has[c] \cup Flow!Only(c \in seen, {"instances"})
                     \cup Flow!Only(c \in good /\ ({"annotate", "events"} \cap opts.on # {}), {"tracked"})]
        /\ err' = err \cup (clips \ good) /\ videoErr' = videoErr
  BY DEF Flow!Sam3
<1>4. has' \in [Clips -> SUBSET Flow!Item] /\ \A c \in Clips \ clips : has'[c] = has[c]
  BY <1>1, <1>3 DEF Flow!Item, Flow!Only, Flow!Holding
<1>5. videoErr' \in BOOLEAN
  BY <1>1, <1>3 DEF Flow!Sam3, Flow!EngineGivenUp
<1>6. ASSUME NEW c \in clips
      PROVE  /\ Anywhere(opts, At', has'[c]) /\ Made(opts, At', has'[c])
             /\ Flow!Intact(c)' => Sound(opts, At', has'[c])
  <2>1. PICK o, m, x, y : o = opts /\ m = At' /\ x = has[c] /\ y = has'[c]
    OBVIOUS
  <2>2. /\ c \in Clips /\ m \in Nat /\ Passing(o, 26, m) /\ Anywhere(o, 26, x) /\ Made(o, 26, x)
        /\ Flow!Intact(c) => Sound(o, 26, x)
        /\ o.embed \in {"off", "model", "openai"} /\ o.caption \in {"off", "vllm", "api"}
        /\ o.filter \in {"off", "local", "api"} /\ o.classifier \in {"off", "local", "api"}
    BY <1>2, <2>1, ClipsBefore
  <2>3. PICK z \in SUBSET {"tracked"} :
           /\ y = x \cup (IF c \in seen THEN {"instances"} ELSE {}) \cup z
           /\ c \in good /\ "events" \in o.on => "tracked" \in z
    <3> DEFINE w == Flow!Only(c \in good /\ ({"annotate", "events"} \cap opts.on # {}), {"tracked"})
    <3>1. w \in SUBSET {"tracked"} /\ (c \in good /\ "events" \in o.on => "tracked" \in w)
      BY <2>1 DEF Flow!Only
    <3>2. y = x \cup (IF c \in seen THEN {"instances"} ELSE {}) \cup w
      BY <1>3, <2>1, <2>2 DEF Flow!Only, Flow!Holding
    <3> HIDE DEF w
    <3> QED
      BY <3>1, <3>2
  <2>4. Flow!Intact(c)' => Flow!Intact(c) /\ c \in good
    BY <1>1, <1>3, <1>5, <2>1 DEF Flow!Intact, Flow!Holding, Flow!Only, Flow!Sam3, Flow!EngineGivenUp
  <2>5. Anywhere(o, m, y)
    BY <2>2, <2>3 DEF Anywhere, Passing, Assembled
  <2>6. Made(o, m, y)
    BY <2>2, <2>3 DEF Made, Anywhere, Passing, Assembled
  <2>7. Flow!Intact(c)' => Sound(o, m, y)
    BY <2>2, <2>3, <2>4 DEF Anywhere, Sound, Passing, Assembled
  <2> QED
    BY <2>1, <2>5, <2>6, <2>7
<1> QED
  BY <1>1, <1>2, <1>4, <1>5, <1>6, FlowKept

LEMMA FlowEventCaption == ASSUME FlowInv, Flow!EventCaption PROVE FlowInv'
<1>1. /\ VideoInv /\ UNCHANGED <<opts, made, clips, filtered, stats>> /\ clips \subseteq Clips
      /\ has \in [Clips -> SUBSET Flow!Item] /\ videoErr \in BOOLEAN
  BY DEF FlowInv, VideoInv, Flow!EventCaption
<1>2. Moves(27)
  <2>1. Flow!Stage("events") /\ Flow!Onward /\ "events" \in StageNames
    BY DEF Flow!EventCaption, StageNames
  <2> QED
    BY <1>1, <2>1, FlowMoves, PlacesOf
<1>3. PICK good \in SUBSET (Flow!Holding("instances") \cap Flow!Holding("tracked")) :
        /\ has' = Flow!Give(good, {"events"})
        /\ err' = err \cup (Flow!Holding("instances") \ good) /\ videoErr' = videoErr
  BY DEF Flow!EventCaption
<1>4. has' \in [Clips -> SUBSET Flow!Item] /\ \A c \in Clips \ clips : has'[c] = has[c]
  BY <1>1, <1>3 DEF Flow!Item, Flow!Give, Flow!Holding
<1>5. videoErr' \in BOOLEAN
  BY <1>1, <1>3 DEF Flow!EventCaption, Flow!EngineGivenUp
<1>6. ASSUME NEW c \in clips
      PROVE  /\ Anywhere(opts, At', has'[c]) /\ Made(opts, At', has'[c])
             /\ Flow!Intact(c)' => Sound(opts, At', has'[c])
  <2>1. PICK o, m, x, y : o = opts /\ m = At' /\ x = has[c] /\ y = has'[c]
    OBVIOUS
  <2>2. /\ c \in Clips /\ m \in Nat /\ Passing(o, 27, m) /\ Anywhere(o, 27, x) /\ Made(o, 27, x)
        /\ Flow!Intact(c) => Sound(o, 27, x)
        /\ o.embed \in {"off", "model", "openai"} /\ o.caption \in {"off", "vllm", "api"}
        /\ o.filter \in {"off", "local", "api"} /\ o.classifier \in {"off", "local", "api"}
    BY <1>2, <2>1, ClipsBefore
  <2>3. (y = IF c \in good THEN x \cup {"events"} ELSE x) /\ (c \in good => "instances" \in x)
    BY <1>3, <2>1, <2>2 DEF Flow!Only, Flow!Give, Flow!FrameRates, Flow!Holding, Flow!KeepMp4
  <2>4. Flow!Intact(c)' => Flow!Intact(c) /\ ("instances" \in x => c \in good)
    BY <1>1, <1>3, <1>5, <2>1 DEF Flow!Intact, Flow!Holding, Flow!Only, Flow!EventCaption, Flow!EngineGivenUp
  <2>5. Anywhere(o, m, y)
    BY <2>2, <2>3 DEF Anywhere, Passing
  <2>6. Made(o, m, y)
    BY <2>2, <2>3 DEF Made, Anywhere, Passing, Assembled
  <2>7. Flow!Intact(c)' => Sound(o, m, y)
    BY <2>2, <2>3, <2>4 DEF Anywhere, Sound, Passing, Assembled
  <2> QED
    BY <2>1, <2>5, <2>6, <2>7
<1> QED
  BY <1>1, <1>2, <1>4, <1>5, <1>6, FlowKept

LEMMA FlowEncodeT5 == ASSUME FlowInv, Flow!EncodeT5 PROVE FlowInv'
<1>1. /\ VideoInv /\ UNCHANGED <<opts, made, clips, filtered, stats>> /\ clips \subseteq Clips
      /\ has \in [Clips -> SUBSET Flow!Item] /\ videoErr \in BOOLEAN
  BY DEF FlowInv, VideoInv, Flow!EncodeT5
<1>2. Moves(28)
  <2>1. Flow!Stage("t5") /\ Flow!Onward /\ "t5" \in StageNames
    BY DEF Flow!EncodeT5, StageNames
  <2> QED
    BY <1>1, <2>1, FlowMoves, PlacesOf
<1>3. has' = Flow!Give(Flow!Holding("caption"), {"t5"}) /\ err' = err /\ videoErr' = videoErr
  BY DEF Flow!EncodeT5
<1>4. has' \in [Clips -> SUBSET Flow!Item] /\ \A c \in Clips \ clips : has'[c] = has[c]
  BY <1>1, <1>3 DEF Flow!Item, Flow!Give, Flow!Holding
<1>5. videoErr' \in BOOLEAN
  BY <1>1, <1>3 DEF Flow!EncodeT5, Flow!EngineGivenUp
<1>6. ASSUME NEW c \in clips
      PROVE  /\ Anywhere(opts, At', has'[c]) /\ Made(opts, At', has'[c])
             /\ Flow!Intact(c)' => Sound(opts, At', has'[c])
  <2>1. PICK o, m, x, y : o = opts /\ m = At' /\ x = has[c] /\ y = has'[c]
    OBVIOUS
  <2>2. /\ c \in Clips /\ m \in Nat /\ Passing(o, 28, m) /\ Anywhere(o, 28, x) /\ Made(o, 28, x)
        /\ Flow!Intact(c) => Sound(o, 28, x)
        /\ o.embed \in {"off", "model", "openai"} /\ o.caption \in {"off", "vllm", "api"}
        /\ o.filter \in {"off", "local", "api"} /\ o.classifier \in {"off", "local", "api"}
    BY <1>2, <2>1, ClipsBefore
  <2>3. y = IF "caption" \in x THEN x \cup {"t5"} ELSE x
    BY <1>3, <2>1, <2>2 DEF Flow!Only, Flow!Give, Flow!FrameRates, Flow!Holding, Flow!KeepMp4
  <2>4. Flow!Intact(c)' => Flow!Intact(c)
    BY <1>1, <1>3, <1>5, <2>1 DEF Flow!Intact, Flow!Holding, Flow!Only, Flow!EncodeT5, Flow!EngineGivenUp
  <2>5. Anywhere(o, m, y)
    BY <2>2, <2>3 DEF Anywhere, Passing
  <2>6. Made(o, m, y)
    BY <2>2, <2>3 DEF Made, Anywhere, Passing, Assembled
  <2>7. Flow!Intact(c)' => Sound(o, m, y)
    BY <2>2, <2>3, <2>4 DEF Anywhere, Sound, Passing, Assembled
  <2> QED
    BY <2>1, <2>5, <2>6, <2>7
<1> QED
  BY <1>1, <1>2, <1>4, <1>5, <1>6, FlowKept

\* The task stops where it is.
LEMMA FlowHalted ==
  ASSUME FlowInv, UNCHANGED <<opts, stages, videoErr, made, clips, filtered, has, err, stats>>,
         halt' \in {"running", "done", "vanished", "aborted"}, halt' = "done" => At = 29,
         halt' = "aborted" => opts.local \/ opts.split # "stride"
  PROVE  FlowInv'
<1>1. At' = At
  BY DEF At
<1>2. Flow!Accepted(opts)'
  BY DEF FlowInv, VideoInv, Flow!Accepted
<1>3. VideoInv'
  BY <1>1, <1>2 DEF FlowInv, VideoInv
<1>4. \A c \in Clips : ClipHolds(c)'
  BY <1>1 DEF FlowInv, ClipHolds, Flow!Intact
<1> QED
  BY <1>3, <1>4 DEF FlowInv

\* The stage that a task is at was asked for.
LEMMA FlowAt ==
  ASSUME FlowInv, NEW s \in StageNames, Flow!Stage(s)
  PROVE  /\ At = PlaceOf(s) /\ Assembled(opts, At) /\ opts \in Options /\ Flow!Accepted(opts)
         /\ opts.split \in {"stride", "transnet"}
<1>1. InOrder(opts, stages) /\ opts \in Options /\ Flow!Accepted(opts) /\ Head(stages) = s
  BY DEF FlowInv, VideoInv, Flow!Stage
<1>2. Head(stages) = stages[1] /\ 1 \in DOMAIN stages
  BY <1>1, HeadTailProperties DEF InOrder
<1> QED
  BY <1>1, <1>2, OptionsAre DEF InOrder, At

LEMMA FlowVideoFrames == ASSUME FlowInv, Flow!VideoFrames PROVE FlowInv'
<1>1. /\ VideoInv /\ UNCHANGED <<opts, made, clips, filtered, has, err, stats>> /\ clips \subseteq Clips
      /\ has \in [Clips -> SUBSET Flow!Item] /\ videoErr \in BOOLEAN /\ Flow!Stage("videoframes")
      /\ "videoframes" \in StageNames
  BY DEF FlowInv, VideoInv, Flow!VideoFrames, StageNames
<1>2. At = 2 /\ opts.split = "transnet"
  BY <1>1, FlowAt, PlacesOf DEF Assembled
<1>3. CASE halt' = "aborted" /\ UNCHANGED <<stages, video, videoErr>>
  BY <1>1, <1>2, <1>3, FlowHalted
<1>4. CASE Flow!Onward /\ videoErr' \in {videoErr, TRUE}
  <2>1. Moves(2)
    BY <1>1, <1>4, FlowMoves, PlacesOf
  <2>2. ASSUME NEW c \in clips
        PROVE  /\ Anywhere(opts, At', has'[c]) /\ Made(opts, At', has'[c])
               /\ Flow!Intact(c)' => Sound(opts, At', has'[c])
    <3>1. PICK o, m, x : o = opts /\ m = At' /\ x = has[c] /\ x = has'[c]
      BY <1>1
    <3>2. m \in Nat /\ Passing(o, 2, m) /\ Anywhere(o, 2, x)
      BY <2>1, <3>1, ClipsBefore
    <3>3. Anywhere(o, m, x) /\ Made(o, m, x) /\ Sound(o, m, x)
      BY <3>2 DEF Anywhere, Made, Sound, Passing
    <3> QED
      BY <3>1, <3>3
  <2> QED
    BY <1>1, <1>4, <2>1, <2>2, FlowKept
<1> QED
  BY <1>3, <1>4 DEF Flow!VideoFrames

\* The splitters, of which the clips of the task are those that they make.
LEMMA FlowSplit ==
  ASSUME FlowInv, NEW k \in 3 .. 4, Moves(k), UNCHANGED <<filtered, has, err, stats>>, made' \subseteq Clips,
         clips' = made', videoErr' \in BOOLEAN
  PROVE  FlowInv'
<1>1. opts' = opts /\ At = k /\ VideoInv /\ filtered = {} /\ has \in [Clips -> SUBSET Flow!Item]
  BY DEF Moves, FlowInv, VideoInv
<1>2. PICK o, m : o = opts /\ m = At' /\ m \in Nat /\ Passing(o, k, m)
  BY DEF Moves
<1>3. m <= 6
  BY <1>2 DEF Passing
<1>4. VideoInv'
  <2>1. Flow!Accepted(opts)'
    BY DEF Moves, Flow!Accepted
  <2> QED
    BY <1>1, <1>2, <1>3, <2>1 DEF VideoInv, Moves
<1>5. ASSUME NEW c \in Clips PROVE ClipHolds(c)'
  <2>1. has[c] = {}
    BY <1>1 DEF FlowInv, ClipHolds, Anywhere
  <2>2. Anywhere(o, m, {}) /\ Made(o, m, {}) /\ Sound(o, m, {})
    BY <1>2, <1>3 DEF Anywhere, Made, Sound, Passing
  <2>3. has'[c] = {} /\ c \notin filtered' /\ "input" \notin has'[c]
    BY <1>1, <2>1
  <2> QED
    BY <1>1, <1>2, <2>2, <2>3 DEF ClipHolds
<1> QED
  BY <1>4, <1>5 DEF FlowInv

LEMMA FlowTransNet == ASSUME FlowInv, Flow!TransNet PROVE FlowInv'
<1>1. /\ VideoInv /\ UNCHANGED <<opts, filtered, has, err, stats>> /\ made' \subseteq Clips /\ clips' = made'
      /\ videoErr' \in BOOLEAN /\ Flow!Stage("transnet") /\ Flow!Onward /\ "transnet" \in StageNames
  BY DEF FlowInv, VideoInv, Flow!TransNet, StageNames
<1>2. Moves(3)
  BY <1>1, FlowMoves, PlacesOf
<1> QED
  BY <1>1, <1>2, FlowSplit

LEMMA FlowFixedStride == ASSUME FlowInv, Flow!FixedStride PROVE FlowInv'
<1>1. /\ VideoInv /\ UNCHANGED <<opts, filtered, has, err, stats>> /\ made' \subseteq Clips /\ clips' = made'
      /\ videoErr' \in BOOLEAN /\ Flow!Stage("stride") /\ Flow!Onward /\ "stride" \in StageNames
  BY DEF FlowInv, VideoInv, Flow!FixedStride, StageNames
<1>2. Moves(4)
  BY <1>1, FlowMoves, PlacesOf
<1> QED
  BY <1>1, <1>2, FlowSplit

\* A chunk has some of the clips; the others keep what they have.
LEMMA FlowChunk == ASSUME FlowInv, Flow!Chunk PROVE FlowInv'
<1>1. /\ VideoInv /\ UNCHANGED <<opts, videoErr, made, filtered, has, err, stats>>
      /\ Flow!Stage("chunk") /\ "chunk" \in StageNames
  BY DEF FlowInv, Flow!Chunk, StageNames
<1>2. CASE halt' = "vanished" /\ UNCHANGED <<stages, clips>>
  BY <1>1, <1>2, FlowHalted
<1>3. CASE Flow!Onward /\ clips' \subseteq clips
  <2>1. Moves(6)
    BY <1>1, <1>3, FlowMoves, PlacesOf
  <2>2. PICK o, m : o = opts /\ m = At' /\ m \in Nat /\ Passing(o, 6, m)
    BY <2>1 DEF Moves
  <2>3. opts' = opts /\ At = 6 /\ filtered = {}
    BY <1>1, <2>1 DEF Moves, VideoInv
  <2>4. VideoInv'
    <3>1. Flow!Accepted(opts)'
      BY <2>1 DEF Moves, Flow!Accepted
    <3> QED
      BY <1>1, <1>3, <2>1, <2>3, <3>1 DEF VideoInv, Moves
  <2>5. ASSUME NEW c \in Clips PROVE ClipHolds(c)'
    <3>1. PICK x : x = has[c] /\ x = has'[c]
      BY <1>1
    <3>2. Anywhere(o, 6, x) /\ (c \in clips' /\ Flow!Intact(c)' => Sound(o, 6, x))
      BY <1>1, <1>3, <2>2, <2>3, <3>1 DEF FlowInv, ClipHolds, Flow!Intact
    <3>3. "input" \notin x /\ c \notin filtered' /\ Anywhere(o, m, x) /\ Made(o, m, x)
      BY <1>1, <2>2, <2>3, <3>2 DEF Anywhere, Made, Passing
    <3>4. Sound(o, 6, x) => Sound(o, m, x)
      <4>1. opts \in Options
        BY <1>1 DEF VideoInv
      <4> QED
        BY <2>2, <3>2, <4>1, OptionsAre DEF Anywhere, Sound, Passing, Assembled
    <3> QED
      BY <2>2, <2>3, <3>1, <3>2, <3>3, <3>4 DEF ClipHolds
  <2> QED
    BY <2>4, <2>5 DEF FlowInv
<1> QED
  BY <1>2, <1>3 DEF Flow!Chunk

\* Clips that leave are counted by the filter that they leave to.
LEMMA FlowCounted ==
  ASSUME VideoInv, NEW out \in SUBSET clips, NEW f \in Flow!Filters, Flow!Leave(out, f)
  PROVE  /\ stats' \in [Flow!Filters -> Nat]
         /\ stats'["motion"] + stats'["aesthetic"] + stats'["text"] + stats'["semantic"] + stats'["classifier"]
              = Cardinality(filtered')
         /\ clips' \cap filtered' = {}
<1>1. /\ stats \in [Flow!Filters -> Nat] /\ clips \cap filtered = {}
      /\ clips \subseteq Clips /\ filtered \subseteq Clips
      /\ stats["motion"] + stats["aesthetic"] + stats["text"] + stats["semantic"] + stats["classifier"]
           = Cardinality(filtered)
  BY DEF VideoInv
<1>2. /\ clips' = clips \ out /\ filtered' = filtered \cup out
      /\ stats' = [stats EXCEPT ![f] = @ + Cardinality(out)]
  BY DEF Flow!Leave, Flow!Cardinality, Cardinality
<1>3. IsFiniteSet(out) /\ IsFiniteSet(filtered)
  BY <1>1, FlowAssumption, FS_Subset
<1>4. Cardinality(out) \in Nat /\ Cardinality(filtered) \in Nat
  BY <1>3, FS_CardinalityType
<1>5. Cardinality(filtered \cup out) = Cardinality(filtered) + Cardinality(out)
  <2>1. Cardinality(filtered \cup out) = Cardinality(filtered) + Cardinality(out) - Cardinality(filtered \cap out)
    BY <1>3, FS_Union
  <2>2. filtered \cap out = {} /\ Cardinality({}) = 0
    BY <1>1, FS_EmptySet
  <2>3. Cardinality(filtered \cap out) = 0
    BY <2>2, Zenon
  <2> QED
    BY <1>4, <2>1, <2>3
<1>6. f \in {"motion", "aesthetic", "text", "semantic", "classifier"}
  BY DEF Flow!Filters
<1>7. stats' \in [Flow!Filters -> Nat]
  BY <1>1, <1>2, <1>4
<1>8. PICK n : n = Cardinality(out) /\ n \in Nat
  BY <1>4
<1>9. stats'["motion"] + stats'["aesthetic"] + stats'["text"] + stats'["semantic"] + stats'["classifier"]
        = Cardinality(filtered) + n
  <2>1. \A g \in Flow!Filters : stats[g] \in Nat /\ stats'[g] = IF g = f THEN stats[g] + n ELSE stats[g]
    BY <1>1, <1>2, <1>8
  <2>2. {"motion", "aesthetic", "text", "semantic", "classifier"} \subseteq Flow!Filters
    BY DEF Flow!Filters
  <2> QED
    BY <1>1, <1>4, <1>6, <1>8, <2>1, <2>2
<1> QED
  BY <1>1, <1>2, <1>5, <1>7, <1>8, <1>9

\* A filter, which adds nothing to any clip.
LEMMA FlowLeft ==
  ASSUME FlowInv, NEW k \in 9 .. 18, Moves(k), NEW out \in SUBSET clips, NEW f \in Flow!Filters,
         Flow!Leave(out, f), UNCHANGED made, has' \in [Clips -> SUBSET Flow!Item], videoErr' \in BOOLEAN,
         \A c \in Clips : has'[c] \subseteq has[c],
         \A c \in clips \ out : Flow!Intact(c)' => Sound(opts, At', has'[c])
  PROVE  FlowInv'
<1>1. /\ opts' = opts /\ At = k /\ VideoInv /\ clips' = clips \ out /\ filtered' = filtered \cup out
  BY DEF Moves, FlowInv, Flow!Leave
<1>2. PICK o, m : o = opts /\ m = At' /\ m \in Nat /\ Passing(o, k, m)
  BY DEF Moves
<1>3. m > 9
  BY <1>2 DEF Passing
<1>4. VideoInv'
  <2>1. Flow!Accepted(opts)'
    BY DEF Moves, Flow!Accepted
  <2>2. /\ stats' \in [Flow!Filters -> Nat]
        /\ stats'["motion"] + stats'["aesthetic"] + stats'["text"] + stats'["semantic"] + stats'["classifier"]
             = Cardinality(filtered')
        /\ clips' \cap filtered' = {}
    BY <1>1, FlowCounted
  <2>3. made' \subseteq Clips /\ clips' \subseteq made' /\ filtered' \subseteq made'
    BY <1>1 DEF VideoInv
  <2>4. ~(At' <= 7) /\ halt' = "running" /\ opts' \in Options /\ InOrder(opts', stages')
    BY <1>1, <1>2, <1>3 DEF Moves
  <2> QED
    BY <2>1, <2>2, <2>3, <2>4 DEF VideoInv
<1>5. ASSUME NEW c \in Clips PROVE ClipHolds(c)'
  <2>1. PICK x, y : x = has[c] /\ y = has'[c] /\ y \subseteq x
    OBVIOUS
  <2>2. Anywhere(o, k, x)
    BY <1>1, <1>2, <2>1 DEF FlowInv, ClipHolds
  <2>3. "input" \notin y /\ Unspent(y) /\ Anywhere(o, m, y) /\ Made(o, m, y)
    BY <1>2, <2>1, <2>2 DEF Anywhere, Passing, Unspent, Made
  <2> QED
    BY <1>1, <1>2, <2>1, <2>3 DEF ClipHolds
<1> QED
  BY <1>4, <1>5 DEF FlowInv

LEMMA FlowMotion == ASSUME FlowInv, Flow!Motion PROVE FlowInv'
<1>1. /\ VideoInv /\ UNCHANGED <<opts, videoErr, made, err>> /\ clips \subseteq Clips
      /\ has \in [Clips -> SUBSET Flow!Item] /\ videoErr \in BOOLEAN
      /\ has' = Flow!Strip(clips, {"motion"}) /\ Flow!Stage("motion") /\ Flow!Onward /\ "motion" \in StageNames
      /\ "motion" \in Flow!Filters
  BY DEF FlowInv, VideoInv, Flow!Motion, StageNames, Flow!Filters
<1>2. Moves(9)
  BY <1>1, FlowMoves, PlacesOf
<1>3. PICK out \in SUBSET clips : Flow!Leave(out, "motion")
  BY DEF Flow!Motion
<1>4. has' \in [Clips -> SUBSET Flow!Item] /\ \A c \in Clips : has'[c] \subseteq has[c]
  BY <1>1 DEF Flow!Strip
<1>5. ASSUME NEW c \in clips \ out, Flow!Intact(c)'
      PROVE  Sound(opts, At', has'[c])
  <2>1. PICK o, m, x, y : o = opts /\ m = At' /\ x = has[c] /\ y = has'[c]
    OBVIOUS
  <2>2. /\ m \in Nat /\ Passing(o, 9, m) /\ Anywhere(o, 9, x) /\ Sound(o, 9, x)
        /\ o.embed \in {"off", "model", "openai"} /\ o.caption \in {"off", "vllm", "api"}
        /\ o.filter \in {"off", "local", "api"} /\ o.classifier \in {"off", "local", "api"}
    BY <1>1, <1>2, <1>5, <2>1, ClipsBefore DEF Flow!Intact
  <2>3. y = x \ {"motion"}
    BY <1>1, <2>1 DEF Flow!Strip
  <2>4. Sound(o, m, y)
    BY <2>2, <2>3 DEF Anywhere, Sound, Passing, Assembled
  <2> QED
    BY <2>1, <2>4
<1> QED
  BY <1>1, <1>2, <1>3, <1>4, <1>5, FlowLeft

LEMMA FlowAesthetic == ASSUME FlowInv, Flow!Aesthetic PROVE FlowInv'
<1> DEFINE scored == Flow!Holding("data") \cap Flow!Holding("f1")
<1>1. /\ VideoInv /\ UNCHANGED <<opts, videoErr, made>> /\ clips \subseteq Clips
      /\ has \in [Clips -> SUBSET Flow!Item] /\ videoErr \in BOOLEAN /\ err \subseteq err'
      /\ has' = Flow!Strip(scored, {"f1"}) /\ Flow!Stage("aesthetic") /\ Flow!Onward /\ "aesthetic" \in StageNames
      /\ "aesthetic" \in Flow!Filters
  BY DEF FlowInv, VideoInv, Flow!Aesthetic, StageNames, Flow!Filters
<1>2. Moves(11)
  BY <1>1, FlowMoves, PlacesOf
<1>3. PICK low \in SUBSET clips : clips \ scored \subseteq low /\ Flow!Leave(low, "aesthetic")
  BY DEF Flow!Aesthetic
<1> HIDE DEF scored
<1>4. has' \in [Clips -> SUBSET Flow!Item] /\ \A c \in Clips : has'[c] \subseteq has[c]
  BY <1>1 DEF Flow!Strip
<1>5. ASSUME NEW c \in clips \ low, Flow!Intact(c)'
      PROVE  Sound(opts, At', has'[c])
  <2>1. PICK o, m, x, y : o = opts /\ m = At' /\ x = has[c] /\ y = has'[c]
    OBVIOUS
  <2>2. /\ m \in Nat /\ Passing(o, 11, m) /\ Anywhere(o, 11, x) /\ Sound(o, 11, x)
        /\ o.embed \in {"off", "model", "openai"} /\ o.caption \in {"off", "vllm", "api"}
        /\ o.filter \in {"off", "local", "api"} /\ o.classifier \in {"off", "local", "api"}
    BY <1>1, <1>2, <1>5, <2>1, ClipsBefore DEF Flow!Intact
  <2>3. y = x \ {"f1"}
    BY <1>1, <1>3, <1>5, <2>1 DEF Flow!Strip
  <2>4. Sound(o, m, y)
    BY <2>2, <2>3 DEF Anywhere, Sound, Passing, Assembled
  <2> QED
    BY <2>1, <2>4
<1> QED
  BY <1>1, <1>2, <1>3, <1>4, <1>5, FlowLeft

LEMMA FlowArtificialText == ASSUME FlowInv, Flow!ArtificialText PROVE FlowInv'
<1>1. /\ VideoInv /\ UNCHANGED <<opts, videoErr, made, has>> /\ clips \subseteq Clips
      /\ has \in [Clips -> SUBSET Flow!Item] /\ videoErr \in BOOLEAN /\ err \subseteq err'
      /\ Flow!Stage("text") /\ Flow!Onward /\ "text" \in StageNames /\ "text" \in Flow!Filters
  BY DEF FlowInv, VideoInv, Flow!ArtificialText, StageNames, Flow!Filters
<1>2. Moves(12)
  BY <1>1, FlowMoves, PlacesOf
<1>3. PICK found \in SUBSET clips : Flow!Leave(found, "text")
  BY DEF Flow!ArtificialText, Flow!Holding
<1>4. has' \in [Clips -> SUBSET Flow!Item] /\ \A c \in Clips : has'[c] \subseteq has[c]
  BY <1>1
<1>5. ASSUME NEW c \in clips \ found, Flow!Intact(c)'
      PROVE  Sound(opts, At', has'[c])
  <2>1. PICK o, m, x : o = opts /\ m = At' /\ x = has[c] /\ x = has'[c]
    BY <1>1
  <2>2. /\ m \in Nat /\ Passing(o, 12, m) /\ Anywhere(o, 12, x) /\ Sound(o, 12, x)
        /\ o.embed \in {"off", "model", "openai"} /\ o.caption \in {"off", "vllm", "api"}
        /\ o.filter \in {"off", "local", "api"} /\ o.classifier \in {"off", "local", "api"}
    BY <1>1, <1>2, <1>5, <2>1, ClipsBefore DEF Flow!Intact
  <2>3. Sound(o, m, x)
    BY <2>2 DEF Anywhere, Sound, Passing, Assembled
  <2> QED
    BY <2>1, <2>3
<1> QED
  BY <1>1, <1>2, <1>3, <1>4, <1>5, FlowLeft

\* The two filters that ask a language model about windows.
LEMMA FlowFilterWindows ==
  ASSUME FlowInv, NEW s \in {"semantic", "classify"}, NEW scoreOnly, NEW f \in {"semantic", "classifier"},
         Flow!FilterWindows(s, scoreOnly, f)
  PROVE  FlowInv'
<1> DEFINE k == PlaceOf(s)
<1>1. /\ VideoInv /\ UNCHANGED <<opts, videoErr, made>> /\ clips \subseteq Clips
      /\ has \in [Clips -> SUBSET Flow!Item] /\ videoErr \in BOOLEAN /\ err \subseteq err'
      /\ has' = Flow!Strip(clips \cup filtered, {"finput", "fmp4"}) /\ Flow!Stage(s) /\ Flow!Onward
      /\ s \in StageNames /\ f \in Flow!Filters /\ k \in {15, 18} /\ k \in 9 .. 18
  BY PlacesOf DEF FlowInv, VideoInv, Flow!FilterWindows, StageNames, Flow!Filters
<1>2. Moves(k)
  BY <1>1, FlowMoves
<1>3. PICK out \in SUBSET clips : Flow!Leave(out, f)
  BY DEF Flow!FilterWindows, Flow!Holding
<1> HIDE DEF k
<1>4. has' \in [Clips -> SUBSET Flow!Item] /\ \A c \in Clips : has'[c] \subseteq has[c]
  BY <1>1 DEF Flow!Strip
<1>5. ASSUME NEW c \in clips \ out, Flow!Intact(c)'
      PROVE  Sound(opts, At', has'[c])
  <2>1. PICK o, m, x, y : o = opts /\ m = At' /\ x = has[c] /\ y = has'[c]
    OBVIOUS
  <2>2. /\ m \in Nat /\ Passing(o, k, m) /\ Anywhere(o, k, x) /\ Sound(o, k, x)
        /\ o.embed \in {"off", "model", "openai"} /\ o.caption \in {"off", "vllm", "api"}
        /\ o.filter \in {"off", "local", "api"} /\ o.classifier \in {"off", "local", "api"}
    BY <1>1, <1>2, <1>5, <2>1, ClipsBefore DEF Flow!Intact
  <2>3. y = x \ {"finput", "fmp4"}
    BY <1>1, <2>1 DEF Flow!Strip
  <2>4. Sound(o, m, y)
    BY <1>1, <2>2, <2>3 DEF Anywhere, Sound, Passing, Assembled
  <2> QED
    BY <2>1, <2>4
<1> QED
  BY <1>1, <1>2, <1>3, <1>4, <1>5, FlowLeft

LEMMA FlowFilterCaption ==
  ASSUME FlowInv, NEW s, NEW endpoint, Flow!FilterCaption(s, endpoint),
         \/ s = "fcaption" /\ endpoint = opts.filter
         \/ s = "ccaption" /\ endpoint = opts.classifier
  PROVE  FlowInv'
<1> DEFINE k == PlaceOf(s)
           freed == Flow!Only(endpoint # "api", {"finput"} \cup Flow!Only("previews" \notin opts.on, {"fmp4"}))
<1>1. /\ VideoInv /\ UNCHANGED <<opts, made, clips, filtered, stats>> /\ clips \subseteq Clips
      /\ has \in [Clips -> SUBSET Flow!Item] /\ videoErr \in BOOLEAN /\ Flow!Stage(s) /\ Flow!Onward
      /\ s \in StageNames /\ k \in {14, 17} /\ k \in Nat /\ freed \subseteq {"finput", "fmp4"}
  BY PlacesOf DEF FlowInv, VideoInv, Flow!FilterCaption, StageNames, Flow!Only
<1>2. Moves(k)
  BY <1>1, FlowMoves
<1>3. PICK good \in SUBSET Flow!Holding("fwin") :
        /\ has' = [c \in Clips |-> IF c \in clips THEN (has[c] \ freed) \cup Flow!Only(c \in good, {"fcaption"})
                                   ELSE has[c]]
        /\ err \subseteq err' /\ Flow!Holding("fwin") \ good \subseteq err'
        /\ videoErr' \in {videoErr, TRUE}
  BY DEF Flow!FilterCaption, Flow!EngineGivenUp
<1> HIDE DEF freed, k
<1>4. has' \in [Clips -> SUBSET Flow!Item] /\ \A c \in Clips \ clips : has'[c] = has[c]
  BY <1>1, <1>3 DEF Flow!Item, Flow!Only
<1>5. ASSUME NEW c \in clips
      PROVE  /\ Anywhere(opts, At', has'[c]) /\ Made(opts, At', has'[c])
             /\ Flow!Intact(c)' => Sound(opts, At', has'[c])
  <2>1. PICK o, m, x, y, z : o = opts /\ m = At' /\ x = has[c] /\ y = has'[c] /\ z = freed
    OBVIOUS
  <2>2. /\ c \in Clips /\ m \in Nat /\ Passing(o, k, m) /\ Anywhere(o, k, x) /\ Made(o, k, x)
        /\ Flow!Intact(c) => Sound(o, k, x)
        /\ o.embed \in {"off", "model", "openai"} /\ o.caption \in {"off", "vllm", "api"}
        /\ o.filter \in {"off", "local", "api"} /\ o.classifier \in {"off", "local", "api"}
    BY <1>1, <1>2, <2>1, ClipsBefore
  <2>3. z \subseteq {"finput", "fmp4"} /\ y = (x \ z) \cup (IF c \in good THEN {"fcaption"} ELSE {})
    BY <1>1, <1>3, <2>1, <2>2 DEF Flow!Only
  <2>4. Flow!Intact(c)' => Flow!Intact(c) /\ ("fwin" \in x => c \in good)
    BY <1>1, <1>3, <2>1 DEF Flow!Intact, Flow!Holding
  <2>5. Anywhere(o, m, y)
    BY <1>1, <2>2, <2>3 DEF Anywhere, Passing
  <2>6. Made(o, m, y)
    BY <1>1, <2>2, <2>3 DEF Made, Anywhere, Passing
  <2>7. Flow!Intact(c)' => Sound(o, m, y)
    BY <1>1, <2>2, <2>3, <2>4 DEF Anywhere, Sound, Passing, Assembled
  <2> QED
    BY <2>1, <2>5, <2>6, <2>7
<1>6. videoErr' \in BOOLEAN
  BY <1>1, <1>3
<1> QED
  BY <1>1, <1>2, <1>4, <1>5, <1>6, FlowKept

\* A prep stage either stops the run or gives clips windows that have all that it makes for them.
LEMMA WindowsMade ==
  ASSUME NEW keep, NEW fresh, NEW stale, Flow!MakeWindows(keep, fresh, stale), clips \subseteq Clips
  PROVE  \/ opts.local /\ halt' = "aborted" /\ UNCHANGED <<stages, has, err>>
         \/ /\ Flow!Onward /\ err \subseteq err'
            /\ \E windowed \in SUBSET clips :
                 has' = [c \in Clips |-> IF c \in windowed THEN (has[c] \ stale) \cup fresh
                                         ELSE IF c \in clips THEN has[c] \ stale ELSE has[c]]
<1>1. CASE keep /\ opts.local /\ clips # Flow!Holding("data")
  BY <1>1 DEF Flow!MakeWindows
<1>2. CASE ~(keep /\ opts.local /\ clips # Flow!Holding("data"))
  <2>1. Flow!Onward /\ err \subseteq err'
    BY <1>2 DEF Flow!MakeWindows
  <2>2. PICK short \in SUBSET (clips \ Flow!Unsourced) :
          has' = [c \in Clips |-> IF c \in clips \ (Flow!Unsourced \cup short) THEN (has[c] \ stale) \cup fresh
                                  ELSE IF c \in clips THEN has[c] \ stale ELSE has[c]]
    BY <1>2 DEF Flow!MakeWindows
  <2>3. clips \ (Flow!Unsourced \cup short) \in SUBSET clips
    OBVIOUS
  <2> QED
    BY <2>1, <2>2, <2>3
<1> QED
  BY <1>1, <1>2

LEMMA FlowFilterPrep ==
  ASSUME FlowInv, NEW s, NEW endpoint, Flow!FilterPrep(s, endpoint),
         \/ s = "fprep" /\ endpoint = opts.filter
         \/ s = "cprep" /\ endpoint = opts.classifier
  PROVE  FlowInv'
<1> DEFINE k == PlaceOf(s)
           mine == IF endpoint = "api" THEN {"fwin", "fmp4"}
                   ELSE {"fwin", "finput"} \cup Flow!Only("previews" \in opts.on, {"fmp4"})
<1>1. /\ VideoInv /\ UNCHANGED <<opts, video, videoErr, made, clips, filtered, stats>> /\ clips \subseteq Clips
      /\ has \in [Clips -> SUBSET Flow!Item] /\ videoErr \in BOOLEAN /\ Flow!Stage(s)
      /\ s \in StageNames /\ k \in {13, 16} /\ k \in Nat
  BY PlacesOf DEF FlowInv, VideoInv, Flow!FilterPrep, StageNames
<1>2. mine \subseteq {"fwin", "fmp4", "finput"} /\ (IF endpoint = "api" THEN "fmp4" ELSE "finput") \in mine
  BY DEF Flow!Only
<1>3. \E keep : Flow!MakeWindows(keep, mine, Flow!FilterItems)
  BY DEF Flow!FilterPrep
<1> HIDE DEF mine, k
<1>4. CASE opts.local /\ halt' = "aborted" /\ UNCHANGED <<stages, has, err>>
  BY <1>1, <1>4, FlowHalted
<1>5. ASSUME Flow!Onward, err \subseteq err', NEW windowed \in SUBSET clips,
             has' = [c \in Clips |-> IF c \in windowed THEN (has[c] \ Flow!FilterItems) \cup mine
                                     ELSE IF c \in clips THEN has[c] \ Flow!FilterItems ELSE has[c]]
      PROVE  FlowInv'
  <2>1. Moves(k)
    BY <1>1, <1>5, FlowMoves DEF k
  <2>2. has' \in [Clips -> SUBSET Flow!Item] /\ \A c \in Clips \ clips : has'[c] = has[c]
    BY <1>1, <1>2, <1>5 DEF Flow!Item, Flow!FilterItems
  <2>3. ASSUME NEW c \in clips
        PROVE  /\ Anywhere(opts, At', has'[c]) /\ Made(opts, At', has'[c])
               /\ Flow!Intact(c)' => Sound(opts, At', has'[c])
    <3>1. PICK o, m, x, y, z : o = opts /\ m = At' /\ x = has[c] /\ y = has'[c] /\ z = mine
      OBVIOUS
    <3>2. /\ c \in Clips /\ m \in Nat /\ Passing(o, k, m) /\ Anywhere(o, k, x) /\ Made(o, k, x)
          /\ Flow!Intact(c) => Sound(o, k, x)
          /\ o.embed \in {"off", "model", "openai"} /\ o.caption \in {"off", "vllm", "api"}
          /\ o.filter \in {"off", "local", "api"} /\ o.classifier \in {"off", "local", "api"}
      BY <1>1, <2>1, <3>1, ClipsBefore
    <3>3. /\ z \subseteq {"fwin", "fmp4", "finput"}
          /\ y = IF c \in windowed THEN (x \ {"fwin", "fmp4", "finput", "fcaption"}) \cup z
                                   ELSE x \ {"fwin", "fmp4", "finput", "fcaption"}
          /\ k = 13 => (IF o.filter = "api" THEN "fmp4" ELSE "finput") \in z
          /\ k = 16 => (IF o.classifier = "api" THEN "fmp4" ELSE "finput") \in z
      BY <1>1, <1>2, <1>5, <3>1, <3>2, PlacesOf DEF Flow!FilterItems, k
    <3>4. Flow!Intact(c)' => Flow!Intact(c)
      BY <1>1, <1>5 DEF Flow!Intact
    <3>5. Anywhere(o, m, y)
      BY <1>1, <3>2, <3>3 DEF Anywhere, Passing
    <3>6. Made(o, m, y)
      BY <1>1, <3>2, <3>3 DEF Made, Anywhere, Passing
    <3>7. Flow!Intact(c)' => Sound(o, m, y)
      BY <1>1, <3>2, <3>3, <3>4 DEF Anywhere, Sound, Passing, Assembled
    <3> QED
      BY <3>1, <3>5, <3>6, <3>7
  <2> QED
    BY <1>1, <2>1, <2>2, <2>3, FlowKept
<1> QED
  BY <1>1, <1>3, <1>4, <1>5, WindowsMade

LEMMA FlowCaptionPrep == ASSUME FlowInv, Flow!CaptionPrep PROVE FlowInv'
<1> DEFINE mine == IF opts.caption = "api" THEN {"win", "mp4"}
                   ELSE {"win", "input"} \cup Flow!Only(Flow!KeepMp4, {"mp4"})
           none == {}
<1>1. /\ VideoInv /\ UNCHANGED <<opts, video, videoErr, made, clips, filtered, stats>> /\ clips \subseteq Clips
      /\ has \in [Clips -> SUBSET Flow!Item] /\ videoErr \in BOOLEAN /\ Flow!Stage("prep")
      /\ "prep" \in StageNames
  BY DEF FlowInv, VideoInv, Flow!CaptionPrep, StageNames
<1>2. /\ mine \subseteq {"win", "mp4", "input"} /\ "win" \in mine
      /\ (IF opts.caption = "api" THEN "mp4" ELSE "input") \in mine
      /\ "previews" \in opts.on => "mp4" \in mine
      /\ opts.caption = "api" => "input" \notin mine
      /\ none = {}
  BY DEF Flow!Only, Flow!KeepMp4
<1>3. \E keep : Flow!MakeWindows(keep, mine, none)
  BY DEF Flow!CaptionPrep
<1> HIDE DEF mine, none
<1>4. CASE opts.local /\ halt' = "aborted" /\ UNCHANGED <<stages, has, err>>
  BY <1>1, <1>4, FlowHalted
<1>5. ASSUME Flow!Onward, err \subseteq err', NEW windowed \in SUBSET clips,
             has' = [c \in Clips |-> IF c \in windowed THEN (has[c] \ none) \cup mine
                                     ELSE IF c \in clips THEN has[c] \ none ELSE has[c]]
      PROVE  FlowInv'
  <2>1. Moves(22)
    BY <1>1, <1>5, FlowMoves, PlacesOf
  <2>2. has' \in [Clips -> SUBSET Flow!Item] /\ \A c \in Clips \ clips : has'[c] = has[c]
    BY <1>1, <1>2, <1>5 DEF Flow!Item
  <2>3. ASSUME NEW c \in clips
        PROVE  /\ Anywhere(opts, At', has'[c]) /\ Made(opts, At', has'[c])
               /\ Flow!Intact(c)' => Sound(opts, At', has'[c])
    <3>1. PICK o, m, x, y, z : o = opts /\ m = At' /\ x = has[c] /\ y = has'[c] /\ z = mine
      OBVIOUS
    <3>2. /\ c \in Clips /\ m \in Nat /\ Passing(o, 22, m) /\ Anywhere(o, 22, x) /\ Made(o, 22, x)
          /\ Flow!Intact(c) => Sound(o, 22, x)
          /\ o.embed \in {"off", "model", "openai"} /\ o.caption \in {"off", "vllm", "api"}
          /\ o.filter \in {"off", "local", "api"} /\ o.classifier \in {"off", "local", "api"}
      BY <1>1, <2>1, <3>1, ClipsBefore
    <3>3. /\ z \subseteq {"win", "mp4", "input"} /\ "win" \in z
          /\ (IF o.caption = "api" THEN "mp4" ELSE "input") \in z
          /\ "previews" \in o.on => "mp4" \in z
          /\ o.caption = "api" => "input" \notin z
          /\ y = x \/ y = x \cup z
      BY <1>1, <1>2, <1>5, <3>1, <3>2
    <3>4. Flow!Intact(c)' => Flow!Intact(c)
      BY <1>1, <1>5 DEF Flow!Intact
    <3>5. Anywhere(o, m, y)
      BY <3>2, <3>3 DEF Anywhere, Passing, Assembled
    <3>6. Made(o, m, y)
      BY <3>2, <3>3 DEF Made, Anywhere, Passing, Assembled
    <3>7. Flow!Intact(c)' => Sound(o, m, y)
      BY <3>2, <3>3, <3>4 DEF Anywhere, Sound, Passing, Assembled
    <3> QED
      BY <3>1, <3>5, <3>6, <3>7
  <2> QED
    BY <1>1, <2>1, <2>2, <2>3, FlowKept
<1>6. PICK keep : Flow!MakeWindows(keep, mine, none)
  BY <1>3
<1>7. \/ opts.local /\ halt' = "aborted" /\ UNCHANGED <<stages, has, err>>
      \/ /\ Flow!Onward /\ err \subseteq err'
         /\ \E windowed \in SUBSET clips :
              has' = [c \in Clips |-> IF c \in windowed THEN (has[c] \ none) \cup mine
                                      ELSE IF c \in clips THEN has[c] \ none ELSE has[c]]
  BY <1>1, <1>6, WindowsMade
<1> QED
  BY <1>4, <1>5, <1>7

\* Whatever windows have, the previews find their bytes.
LEMMA FlowPreview == ASSUME FlowInv, Flow!Preview PROVE FlowInv'
<1>1. /\ VideoInv /\ UNCHANGED <<opts, video, videoErr, made, clips, filtered, err, stats>> /\ clips \subseteq Clips
      /\ has \in [Clips -> SUBSET Flow!Item] /\ videoErr \in BOOLEAN /\ Flow!Stage("preview")
      /\ "preview" \in StageNames
  BY DEF FlowInv, VideoInv, Flow!Preview, StageNames
<1>2. Flow!Holding("win") \subseteq Flow!Holding("mp4")
  <2>1. At = 23
    BY <1>1, FlowAt, PlacesOf
  <2> QED
    BY <1>1, <2>1 DEF Flow!Holding, FlowInv, ClipHolds, Made
<1>3. Flow!Onward /\ \E good \in SUBSET Flow!Holding("win") : has' = Flow!Give(good, {"webp"})
  BY <1>2 DEF Flow!Preview
<1>4. PICK good \in SUBSET Flow!Holding("win") : has' = Flow!Give(good, {"webp"})
  BY <1>3
<1>5. Moves(23)
  BY <1>1, <1>3, FlowMoves, PlacesOf
<1>6. has' \in [Clips -> SUBSET Flow!Item] /\ \A c \in Clips \ clips : has'[c] = has[c]
  BY <1>1, <1>4 DEF Flow!Give, Flow!Item, Flow!Holding
<1>7. ASSUME NEW c \in clips
      PROVE  /\ Anywhere(opts, At', has'[c]) /\ Made(opts, At', has'[c])
             /\ Flow!Intact(c)' => Sound(opts, At', has'[c])
  <2>1. PICK o, m, x, y : o = opts /\ m = At' /\ x = has[c] /\ y = has'[c]
    OBVIOUS
  <2>2. /\ c \in Clips /\ m \in Nat /\ Passing(o, 23, m) /\ Anywhere(o, 23, x) /\ Made(o, 23, x)
        /\ Flow!Intact(c) => Sound(o, 23, x)
        /\ o.embed \in {"off", "model", "openai"} /\ o.caption \in {"off", "vllm", "api"}
        /\ o.filter \in {"off", "local", "api"} /\ o.classifier \in {"off", "local", "api"}
    BY <1>5, <2>1, ClipsBefore
  <2>3. y = x \/ y = x \cup {"webp"}
    BY <1>4, <2>1, <2>2 DEF Flow!Give
  <2>4. Flow!Intact(c)' => Flow!Intact(c)
    BY <1>1 DEF Flow!Intact
  <2>5. Anywhere(o, m, y) /\ Made(o, m, y)
    BY <2>2, <2>3 DEF Anywhere, Made, Passing, Assembled
  <2>6. Flow!Intact(c)' => Sound(o, m, y)
    BY <2>2, <2>3, <2>4 DEF Anywhere, Sound, Passing, Assembled
  <2> QED
    BY <2>1, <2>5, <2>6
<1> QED
  BY <1>1, <1>5, <1>6, <1>7, FlowKept

\* No clip reaches the writer with inputs of a model, so that the writer does not stop.
LEMMA FlowWrite == ASSUME FlowInv, Flow!Write PROVE FlowInv'
<1>1. /\ VideoInv /\ UNCHANGED <<opts, stages, video, videoErr, made, clips, filtered, has, err, stats>>
      /\ clips \subseteq Clips /\ filtered \subseteq Clips /\ Flow!Stage("write") /\ "write" \in StageNames
  BY DEF FlowInv, VideoInv, Flow!Write, StageNames
<1>2. At = 29
  BY <1>1, FlowAt, PlacesOf
<1>3. \A c \in clips \cup filtered : "input" \notin has[c]
  BY <1>1, <1>2 DEF FlowInv, ClipHolds, Anywhere
<1>4. halt' = "done"
  BY <1>3 DEF Flow!Write
<1> QED
  BY <1>1, <1>2, <1>4, FlowHalted

LEMMA FlowStarts == Flow!Init => FlowInv
<1> SUFFICES ASSUME Flow!Init PROVE FlowInv
  OBVIOUS
<1>1. /\ opts \in Options /\ Flow!Accepted(opts) /\ stages = Flow!Stages(opts) /\ videoErr = FALSE
      /\ made = {} /\ clips = {} /\ filtered = {} /\ has = [c \in Clips |-> {}] /\ halt = "running"
      /\ stats = [f \in Flow!Filters |-> 0]
  BY DEF Flow!Init
<1>2. InOrder(opts, stages) /\ At = 1
  BY <1>1, FlowStagesAre DEF At
<1>3. VideoInv
  <2>1. stats["motion"] + stats["aesthetic"] + stats["text"] + stats["semantic"] + stats["classifier"] = 0
    BY <1>1 DEF Flow!Filters
  <2>2. Cardinality(filtered) = 0
    BY <1>1, FS_EmptySet
  <2> QED
    BY <1>1, <1>2, <2>1, <2>2 DEF VideoInv
<1>4. ASSUME NEW c \in Clips PROVE ClipHolds(c)
  <2>1. has[c] = {} /\ c \notin clips /\ c \notin filtered
    BY <1>1
  <2> QED
    BY <2>1 DEF ClipHolds, Anywhere
<1> QED
  BY <1>3, <1>4 DEF FlowInv

LEMMA FlowFilters == ASSUME FlowInv, Flow!SemanticFilter \/ Flow!Classifier PROVE FlowInv'
<1>1. CASE Flow!FilterPrep("fprep", opts.filter)
  BY <1>1, FlowFilterPrep
<1>2. CASE Flow!FilterCaption("fcaption", opts.filter)
  BY <1>2, FlowFilterCaption
<1>3. CASE Flow!FilterWindows("semantic", opts.scoreOnly, "semantic")
  BY <1>3, FlowFilterWindows
<1>4. CASE Flow!FilterPrep("cprep", opts.classifier)
  BY <1>4, FlowFilterPrep
<1>5. CASE Flow!FilterCaption("ccaption", opts.classifier)
  BY <1>5, FlowFilterCaption
<1>6. CASE Flow!FilterWindows("classify", FALSE, "classifier")
  BY <1>6, FlowFilterWindows
<1> QED
  BY <1>1, <1>2, <1>3, <1>4, <1>5, <1>6 DEF Flow!SemanticFilter, Flow!Classifier

LEMMA FlowSteps == FlowInv /\ [Flow!Next]_Flow!vars => FlowInv'
<1> SUFFICES ASSUME FlowInv, [Flow!Next]_Flow!vars PROVE FlowInv'
  OBVIOUS
<1>1. CASE UNCHANGED Flow!vars
  <2>1. UNCHANGED <<opts, stages, videoErr, made, clips, filtered, has, err, stats, halt>>
    BY <1>1 DEF Flow!vars
  <2>2. /\ halt' \in {"running", "done", "vanished", "aborted"} /\ (halt' = "done" => At = 29)
        /\ halt' = "aborted" => opts.local \/ opts.split # "stride"
    BY <2>1 DEF FlowInv, VideoInv
  <2> QED
    BY <2>1, <2>2, FlowHalted
<1>2. CASE Flow!Next
  <2>1. CASE Flow!Download \/ Flow!VideoFrames \/ Flow!TransNet \/ Flow!FixedStride \/ Flow!Transcode \/ Flow!Chunk
    BY <2>1, FlowDownload, FlowVideoFrames, FlowTransNet, FlowFixedStride, FlowTranscode, FlowChunk
  <2>2. CASE \/ Flow!SuperResolution \/ Flow!MotionDecode \/ Flow!Motion \/ Flow!Frames \/ Flow!FramesUnopened
             \/ Flow!Aesthetic \/ Flow!ArtificialText
    BY <2>2, FlowSuperResolution, FlowMotionDecode, FlowMotion, FlowFrames, FlowFramesUnopened, FlowAesthetic,
       FlowArtificialText
  <2>3. CASE Flow!SemanticFilter \/ Flow!Classifier
    BY <2>3, FlowFilters
  <2>4. CASE Flow!EmbedFrames \/ Flow!Embed \/ Flow!EmbedApi
    BY <2>4, FlowEmbedFrames, FlowEmbed, FlowEmbedApi
  <2>5. CASE Flow!CaptionPrep \/ Flow!Preview \/ Flow!Caption \/ Flow!Enhance
    BY <2>5, FlowCaptionPrep, FlowPreview, FlowCaption, FlowEnhance
  <2>6. CASE Flow!Sam3 \/ Flow!EventCaption \/ Flow!EncodeT5 \/ Flow!Write
    BY <2>6, FlowSam3, FlowEventCaption, FlowEncodeT5, FlowWrite
  <2> QED
    BY <1>2, <2>1, <2>2, <2>3, <2>4, <2>5, <2>6 DEF Flow!Next
<1> QED
  BY <1>1, <1>2

\* What a stage takes of a clip without an error is there.
LEMMA FlowFeeds == ASSUME FlowInv PROVE Flow!Fed
<1> SUFFICES ASSUME halt = "running", NEW c \in clips, Flow!Intact(c)
             PROVE  Flow!Takes(Head(stages), c) \subseteq has[c]
  BY DEF Flow!Fed
<1>1. PICK o, s, x : o = opts /\ s = Head(stages) /\ x = has[c]
  OBVIOUS
<1>2. s \in StageNames /\ Assembled(o, PlaceOf(s)) /\ o \in Options /\ Flow!Accepted(o) /\ At = PlaceOf(s)
  <2>1. InOrder(opts, stages) /\ opts \in Options /\ Flow!Accepted(opts)
    BY DEF FlowInv, VideoInv
  <2>2. Head(stages) \in StageNames
    BY <2>1, HeadTailProperties DEF InOrder
  <2> QED
    BY <1>1, <2>1, <2>2, FlowAt DEF Flow!Stage
<1>3. Anywhere(o, PlaceOf(s), x) /\ Made(o, PlaceOf(s), x) /\ Sound(o, PlaceOf(s), x)
  <2>1. c \in Clips
    BY DEF FlowInv, VideoInv
  <2> QED
    BY <1>1, <1>2, <2>1 DEF FlowInv, ClipHolds
<1>4. /\ o.transcode \in BOOLEAN /\ o.local \in BOOLEAN
      /\ ~o.transcode =>
           /\ "sr" \notin o.on /\ "aesthetics" \notin o.on /\ "text" \notin o.on /\ "sam3" \notin o.on
           /\ o.motion = "off"
           /\ ~o.local => o.caption = "off" /\ o.embed = "off" /\ o.filter = "off" /\ o.classifier = "off"
  <2>1. o.transcode \in BOOLEAN /\ o.local \in BOOLEAN
    BY <1>2, OptionsAre
  <2>2. Flow!Accepted(o)
    BY <1>2
  <2> QED
    BY <2>1, <2>2 DEF Flow!Accepted
<1>5. CASE s \in {"superres", "motiondecode", "text", "sam3"}
  <2>1. Flow!Takes(s, c) = {"data"}
    BY <1>5 DEF Flow!Takes
  <2>2. o.transcode /\ PlaceOf(s) > 5
    BY <1>2, <1>4, <1>5, PlacesOf DEF Assembled
  <2> QED
    BY <1>1, <1>3, <2>1, <2>2 DEF Sound
<1>6. CASE s \in {"frames", "fprep", "cprep", "prep"}
  <2>1. Flow!Takes(s, c) = IF ~o.local THEN {"data"} ELSE {}
    BY <1>1, <1>6 DEF Flow!Takes, Flow!Only
  <2>2. (~o.local => o.transcode) /\ PlaceOf(s) > 5
    BY <1>2, <1>4, <1>6, PlacesOf DEF Assembled
  <2> QED
    BY <1>1, <1>3, <2>1, <2>2 DEF Sound
<1>7. CASE s \in {"motion", "aesthetic"}
  <2>1. Flow!Takes(s, c) = IF s = "motion" THEN {"motion"} ELSE {"data", "f1"}
    BY <1>7 DEF Flow!Takes
  <2>2. (s = "motion" => PlaceOf(s) = 9) /\ (s = "aesthetic" => PlaceOf(s) = 11)
    BY PlacesOf
  <2>3. PlaceOf(s) = 11 => o.transcode
    BY <1>2, <1>4 DEF Assembled
  <2> QED
    BY <1>1, <1>3, <1>7, <2>1, <2>2, <2>3 DEF Sound
<1>8. CASE s \in {"embedframes", "embed", "embedapi"}
  <2>1. Flow!Takes(s, c) = IF s = "embedframes" THEN {"data", "f2"} ELSE IF s = "embed" THEN {"embinput"} ELSE {"f2"}
    BY <1>8 DEF Flow!Takes
  <2>2. /\ s = "embedframes" => PlaceOf(s) = 19
        /\ s = "embed" => PlaceOf(s) = 20
        /\ s = "embedapi" => PlaceOf(s) = 21
    BY PlacesOf
  <2>3. /\ PlaceOf(s) = 19 => o.embed = "model"
        /\ PlaceOf(s) = 21 => o.embed = "openai"
    BY <1>2 DEF Assembled
  <2>4. PlaceOf(s) = 19 => o.transcode
    BY <1>2, <2>3 DEF Flow!Accepted
  <2> QED
    BY <1>1, <1>3, <1>8, <2>1, <2>2, <2>3, <2>4 DEF Sound
<1>9. CASE s \in {"fcaption", "ccaption", "semantic", "classify"}
  <2>1. /\ s = "fcaption" => Flow!Takes(s, c) = Flow!Only("fwin" \in x, {IF o.filter = "api" THEN "fmp4" ELSE "finput"})
        /\ s = "ccaption" => Flow!Takes(s, c) = Flow!Only("fwin" \in x, {IF o.classifier = "api" THEN "fmp4" ELSE "finput"})
        /\ s \in {"semantic", "classify"} => Flow!Takes(s, c) = Flow!Only("fwin" \in x, {"fcaption"})
    BY <1>1 DEF Flow!Takes
  <2>2. /\ s = "fcaption" => PlaceOf(s) = 14
        /\ s = "ccaption" => PlaceOf(s) = 17
        /\ s \in {"semantic", "classify"} => PlaceOf(s) \in {15, 18}
    BY PlacesOf
  <2> QED
    BY <1>1, <1>3, <1>9, <2>1, <2>2 DEF Sound, Flow!Only
<1>10. CASE s \in {"preview", "caption", "enhance", "events"}
  <2>1. /\ s = "preview" => Flow!Takes(s, c) = Flow!Only("win" \in x, {"mp4"})
        /\ s = "caption" => Flow!Takes(s, c) = Flow!Only("win" \in x, {IF o.caption = "api" THEN "mp4" ELSE "input"})
        /\ s = "enhance" => Flow!Takes(s, c) = Flow!Only("win" \in x, {"caption"})
        /\ s = "events" => Flow!Takes(s, c) = Flow!Only("instances" \in x, {"tracked"})
    BY <1>1 DEF Flow!Takes
  <2>2. /\ s = "preview" => PlaceOf(s) = 23
        /\ s = "caption" => PlaceOf(s) = 24
        /\ s = "enhance" => PlaceOf(s) = 25 /\ o.caption # "off"
        /\ s = "events" => PlaceOf(s) = 27
    BY <1>2, PlacesOf DEF Assembled
  <2> QED
    BY <1>1, <1>3, <1>10, <2>1, <2>2 DEF Sound, Made, Flow!Only
<1>11. CASE s \in {"download", "videoframes", "transnet", "stride", "transcode", "chunk", "t5", "write"}
  <2>1. Flow!Takes(s, c) = {}
    BY <1>11 DEF Flow!Takes
  <2> QED
    BY <1>1, <2>1
<1> QED
  BY <1>2, <1>5, <1>6, <1>7, <1>8, <1>9, <1>10, <1>11 DEF StageNames

LEMMA FlowDelivers == ASSUME FlowInv PROVE Flow!AskedOrRecorded /\ Flow!Released
<1> SUFFICES ASSUME halt = "done", NEW c \in clips, Flow!Intact(c)
             PROVE  /\ /\ opts.embed # "off"      => "embedding" \in has[c]
                       /\ opts.caption = "vllm"   => "caption" \in has[c]
                       /\ opts.caption = "api"    => ("win" \in has[c] <=> "caption" \in has[c])
                       /\ "enhance" \in opts.on  => ("caption" \in has[c] <=> "enhanced" \in has[c])
                       /\ "predict" \in opts.on  => ("caption" \in has[c] <=> "t5" \in has[c])
                       /\ "events" \in opts.on   => ("instances" \in has[c] <=> "events" \in has[c])
                    /\ has[c] \cap {"f1", "f2", "motion", "embinput", "input", "finput", "fmp4"} = {}
  BY DEF Flow!AskedOrRecorded, Flow!Released
<1>1. PICK o, x : o = opts /\ x = has[c]
  OBVIOUS
<1>2. Anywhere(o, 29, x) /\ Made(o, 29, x) /\ Sound(o, 29, x)
  <2>1. c \in Clips /\ At = 29
    BY DEF FlowInv, VideoInv
  <2> QED
    BY <1>1, <2>1 DEF FlowInv, ClipHolds
<1> QED
  BY <1>1, <1>2 DEF Anywhere, Made, Sound

LEMMA FlowFits == FlowInv => FlowSound
<1> SUFFICES ASSUME FlowInv PROVE FlowSound
  OBVIOUS
<1>1. Flow!FilteredStayOut
  <2>1. clips \cap filtered = {} /\ filtered \subseteq Clips
    BY DEF FlowInv, VideoInv
  <2>2. stats["motion"] + stats["aesthetic"] + stats["text"] + stats["semantic"] + stats["classifier"]
          = Flow!Cardinality(filtered)
    BY DEF FlowInv, VideoInv, Flow!Cardinality, Cardinality
  <2>3. \A c \in filtered : has[c] \cap {"embinput", "embedding", "win", "caption", "instances"} = {}
    BY <2>1 DEF FlowInv, ClipHolds, Unspent
  <2> QED
    BY <2>1, <2>2, <2>3 DEF Flow!FilteredStayOut
<1>2. Flow!RemoteKeepsGoing
  BY DEF FlowInv, VideoInv, Flow!RemoteKeepsGoing
<1> QED
  BY <1>1, <1>2, FlowFeeds, FlowDelivers DEF FlowSound, Flow!FlowSound

\* The stages that any accepted command line assembles fit together, for any finite number of clips
\* and whichever of them fail on the way: each stage finds what it takes on a clip without an error,
\* the writer finds what was asked for and nothing that should have been freed, a clip is filtered
\* once and is counted, and no clip stops a run that reads remote videos cut at a fixed stride.
THEOREM FlowIsSound == Flow!Spec => []FlowSound
<1>1. Flow!Init => FlowInv
  BY FlowStarts
<1>2. FlowInv /\ [Flow!Next]_Flow!vars => FlowInv'
  BY FlowSteps
<1>3. FlowInv => FlowSound
  BY FlowFits
<1> QED
  BY <1>1, <1>2, <1>3, PTL DEF Flow!Spec
=============================================================================
