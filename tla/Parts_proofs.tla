---------------------------- MODULE Parts_proofs ----------------------------
(* What is proved of the parts that do not interact, for any number of       *)
(* engines, attempts and deaths, of jobs, functions and retries, of clips,   *)
(* clusters, actors and runs, of videos, configurations and batches, and of  *)
(* clips, bins and archives of a dataset.                                    *)
EXTENDS MCParts, SequenceLemmas

-----------------------------------------------------------------------------
(* EngineWatchdog: a recovery of VllmCaptionStage leaves at most one engine   *)
(* process and one watchdog in service.                                      *)

\* The engines that no SIGKILL failed to end and no set-up of the node passed over.
InService == live \ (doomed \cup spared)

\* Which engines can still be running, by where the main thread is: a sweep starts with
\* orphans and what is doomed, and an engine is started when none is counted.
EngineInv ==
  /\ \A d, e \in InService : d = e
  /\ pc = "down" => live \subseteq orphans
  /\ pc \in {"sweep", "drop"} => live \subseteq orphans \cup doomed
  /\ pc = "build" => InService = {}

\* A thread whose event is not set is the one that _watchdog_thread names, and it was
\* started with the event that a teardown sets.
DogInv ==
  /\ DOMAIN thread = Dogs /\ DOMAIN event = Dogs
  /\ \A t \in Dogs : Running(t) /\ event[t] \notin stopped => t = watchdog
  /\ watchdog \in Dogs => event[watchdog] = active /\ active # 0
  /\ pc = "join" => active \in stopped \/ active = 0

IInv == EngineInv /\ DogInv

\* Sets whose members are all equal have one at most.
LEMMA AtMostOne ==
  ASSUME NEW S, \A a, b \in S : a = b
  PROVE  Cardinality(S) <= 1
<1>1. CASE S = {}
  BY <1>1, FS_EmptySet
<1>2. CASE S # {}
  <2>1. PICK a \in S : TRUE
    BY <1>2
  <2>2. S = {a}
    BY <2>1
  <2> QED
    BY <2>2, FS_Singleton
<1> QED
  BY <1>1, <1>2

\* The invariant gives the property.
LEMMA InvImplies == IInv => OneOfEach
<1> SUFFICES ASSUME IInv PROVE OneOfEach
  OBVIOUS
<1>1. OneEngine
  BY AtMostOne DEF IInv, EngineInv, OneEngine, InService
<1>2. OneWatchdog
  <2> DEFINE S == {t \in Dogs : Running(t) /\ event[t] \notin stopped}
  <2>1. \A a, b \in S : a = b
    BY DEF IInv, DogInv
  <2>2. Cardinality(S) <= 1
    BY <2>1, AtMostOne
  <2> QED
    BY <2>2 DEF OneWatchdog
<1> QED
  BY <1>1, <1>2 DEF OneOfEach

LEMMA InitInv == Init => IInv
  BY DEF Init, IInv, EngineInv, InService, DogInv, Engines, Dogs, Running

\* What is killed goes, or is doomed.
LEMMA KillKeepsInService ==
  ASSUME NEW victims, Kill(victims)
  PROVE  InService' \subseteq InService \ victims /\ live' \subseteq (live \ victims) \cup doomed'
  BY DEF Kill, InService

\* The end of an actor turns its engine into an orphan and ends its threads.
LEMMA EndKeepsInv == IInv /\ EndOfActor => IInv'
<1> SUFFICES ASSUME IInv, EndOfActor PROVE IInv'
  OBVIOUS
<1>1. EngineInv'
  BY DEF IInv, EngineInv, InService, EndOfActor
<1>2. DogInv'
  <2>1. \A t \in Dogs : ~ Running(t)'
    BY DEF EndOfActor, Running, IInv, DogInv
  <2>2. 0 \notin Dogs
    BY DEF Dogs
  <2> QED
    BY <2>1, <2>2 DEF IInv, DogInv, EndOfActor
<1> QED
  BY <1>1, <1>2 DEF IInv

\* Steps that leave the watchdog's variables alone and do not enter a join keep DogInv.
LEMMA DogFrame ==
  ASSUME DogInv, UNCHANGED dogs, pc' # "join"
  PROVE  DogInv'
  BY DEF DogInv, dogs, Running

\* Steps of a setup that raise.
LEMMA SetupRaisesKeepsInv == IInv /\ SetupRaises /\ UNCHANGED live => IInv'
<1> SUFFICES ASSUME IInv, SetupRaises, UNCHANGED live PROVE IInv'
  OBVIOUS
<1>1. CASE attempt > 0
  <2>1. EngineInv'
    BY <1>1 DEF IInv, EngineInv, InService, SetupRaises
  <2>2. DogInv'
    BY <1>1, DogFrame DEF IInv, SetupRaises
  <2> QED
    BY <2>1, <2>2 DEF IInv
<1>2. CASE ~ (attempt > 0)
  BY <1>2, EndKeepsInv DEF SetupRaises
<1> QED
  BY <1>1, <1>2

\* Every step keeps the invariant.
LEMMA NextInv == IInv /\ [Next]_vars => IInv'
<1> SUFFICES ASSUME IInv, [Next]_vars PROVE IInv'
  OBVIOUS
<1> USE DEF IInv
<1>1. CASE ActorDies
  BY <1>1, EndKeepsInv DEF ActorDies
<1>2. ASSUME NEW e \in Engines, EngineDies(e) PROVE IInv'
  <2>1. EngineInv'
    BY <1>2 DEF EngineDies, EngineInv, InService, held
  <2>2. DogInv'
    BY <1>2 DEF EngineDies, DogInv, dogs, Running
  <2> QED
    BY <2>1, <2>2
<1>3. CASE NewActor
  <2>1. EngineInv'
    BY <1>3 DEF NewActor, EngineInv, InService, held, engines
  <2> QED
    BY <1>3, <2>1, DogFrame DEF NewActor
<1>4. CASE Sweep
  <2>1. EngineInv'
    <3>1. InService' \subseteq InService \ orphans /\ pc' = "build"
      BY <1>4, KillKeepsInService DEF Sweep
    <3>2. InService' = {}
      BY <1>4, <3>1 DEF Sweep, EngineInv, InService
    <3> QED
      BY <3>1, <3>2 DEF EngineInv
  <2> QED
    BY <1>4, <2>1, DogFrame DEF Sweep
<1>5. CASE GpuNotClean
  BY <1>5, SetupRaisesKeepsInv DEF GpuNotClean
<1>6. CASE Spawn
  <2>1. EngineInv'
    BY <1>6 DEF Spawn, EngineInv, InService, held
  <2> QED
    BY <1>6, <2>1, DogFrame DEF Spawn
<1>7. CASE LoadFails
  BY <1>7, SetupRaisesKeepsInv DEF LoadFails
<1>8. CASE Loaded
  <2>1. EngineInv'
    BY <1>8 DEF Loaded, EngineInv, InService, engines
  <2> QED
    BY <1>8, <2>1, DogFrame DEF Loaded
<1>9. CASE ProcessorFails
  BY <1>9, SetupRaisesKeepsInv DEF ProcessorFails
<1>10. CASE ProcessorLoads
  <2>1. EngineInv'
    BY <1>10 DEF ProcessorLoads, EngineInv, InService, engines
  <2> QED
    BY <1>10, <2>1, DogFrame DEF ProcessorLoads
<1>11. CASE Start
  <2>1. EngineInv'
    BY <1>11 DEF Start, EngineInv, InService, engines, held
  <2>2. CASE watchdog # 0 /\ Running(watchdog)
    <3>1. UNCHANGED dogs /\ pc' # "join"
      BY <1>11, <2>2 DEF Start, dogs
    <3> QED
      BY <2>1, <3>1, DogFrame
  <2>3. CASE ~ (watchdog # 0 /\ Running(watchdog))
    <3>1. \A t \in Dogs : Running(t) => event[t] \in stopped
      BY <2>3 DEF DogInv, Dogs
    <3>2. /\ watchdog' = NextDog /\ active' = NextDog
          /\ thread' = [thread EXCEPT ![NextDog] = "wait"]
          /\ event' = [event EXCEPT ![NextDog] = NextDog]
          /\ UNCHANGED stopped
      BY <1>11, <2>3 DEF Start
    <3>3. pc' # "join"
      BY <1>11 DEF Start
    <3>4. \A t \in Dogs : t # NextDog => thread'[t] = thread[t] /\ event'[t] = event[t]
      BY <3>2 DEF DogInv
    <3>5. \A t \in Dogs : Running(t)' /\ event'[t] \notin stopped' => t = watchdog'
      BY <3>1, <3>2, <3>4 DEF Running
    <3>6. watchdog' \in Dogs => event'[watchdog'] = active' /\ active' # 0
      BY <3>2 DEF DogInv, Dogs
    <3>7. DOMAIN thread' = Dogs /\ DOMAIN event' = Dogs
      BY <3>2 DEF DogInv
    <3>8. DogInv'
      BY <3>3, <3>5, <3>6, <3>7 DEF DogInv
    <3> QED
      BY <2>1, <3>8
  <2> QED
    BY <2>2, <2>3
<1>12. CASE Process \/ CallReturns \/ CallRaises \/ Raised \/ NoProcessor \/ Shutdown
  <2>1. EngineInv'
    BY <1>12 DEF Process, CallReturns, CallRaises, Raised, NoProcessor, Shutdown, EngineInv, InService, engines, held
  <2>2. UNCHANGED dogs /\ pc' # "join"
    BY <1>12 DEF Process, CallReturns, CallRaises, Raised, NoProcessor, Shutdown
  <2> QED
    BY <2>1, <2>2, DogFrame
<1>13. CASE ExitActor
  BY <1>13, EndKeepsInv DEF ExitActor
<1>14. CASE StopWatchdog
  <2>1. EngineInv'
    BY <1>14 DEF StopWatchdog, EngineInv, InService, engines, held
  <2>2. DogInv'
    BY <1>14 DEF StopWatchdog, DogInv, Running
  <2> QED
    BY <2>1, <2>2
<1>15. CASE Join
  <2>1. EngineInv'
    BY <1>15 DEF Join, EngineInv, InService, engines, held
  <2>2. \A t \in Dogs : Running(t) => event[t] \in stopped
    BY <1>15 DEF Join, DogInv
  <2>3. DogInv'
    BY <1>15, <2>2 DEF Join, DogInv, Running, Dogs
  <2> QED
    BY <2>1, <2>3
<1>16. CASE Terminate
  <2>1. EngineInv'
    <3>1. /\ InService' \subseteq InService \ Children /\ live' \subseteq (live \ Children) \cup doomed'
      BY <1>16, KillKeepsInService DEF Terminate
    <3>2. live \ Children \subseteq orphans /\ orphans \ Children \subseteq orphans'
      BY <1>16 DEF Terminate, Kill, Children
    <3> QED
      BY <1>16, <3>1, <3>2 DEF Terminate, EngineInv, Children
  <2> QED
    BY <1>16, <2>1, DogFrame DEF Terminate
<1>17. CASE DropRefs
  <2>1. CASE attempt > 0
    <3>1. EngineInv'
      BY <1>17, <2>1 DEF DropRefs, EngineInv, InService
    <3> QED
      BY <1>17, <2>1, <3>1, DogFrame DEF DropRefs
  <2>2. CASE ~ (attempt > 0)
    BY <1>17, <2>2, EndKeepsInv DEF DropRefs
  <2> QED
    BY <2>1, <2>2
<1>18. ASSUME NEW t \in Dogs, Watch(t) PROVE IInv'
  <2>1. CASE ExitProcess(t)
    BY <2>1, EndKeepsInv DEF ExitProcess
  <2>2. ASSUME NEW from, NEW to, from # "none", from # "gone", Step(t, from, to),
               from = "wait" \/ from = "check" \/ from = "scan" PROVE IInv'
    <3>1. EngineInv'
      BY <2>2 DEF Step, EngineInv, InService, engines, held
    <3>2. \A u \in Dogs : Running(u)' => Running(u)
      BY <2>2 DEF Step, Running, DogInv
    <3>3. DogInv'
      BY <2>2, <3>2 DEF Step, DogInv
    <3> QED
      BY <3>1, <3>3
  <2> QED
    BY <1>18, <2>1, <2>2 DEF Watch, Wakes, Stops, Leaves, Looks, Goes
<1>19. CASE SetUpOnNode
  <2>1. EngineInv'
    BY <1>19 DEF SetUpOnNode, EngineInv, InService, held
  <2> QED
    BY <1>19, <2>1, DogFrame DEF SetUpOnNode
<1>20. CASE UNCHANGED vars
  BY <1>20 DEF vars, held, call, engines, dogs, EngineInv, InService, DogInv, Running
<1> QED
  BY <1>1, <1>2, <1>3, <1>4, <1>5, <1>6, <1>7, <1>8, <1>9, <1>10, <1>11, <1>12, <1>13, <1>14,
     <1>15, <1>16, <1>17, <1>18, <1>19, <1>20 DEF Next

\* Whatever dies and whichever step fails, one engine and one watchdog at most are left, but for
\* processes that outlive a SIGKILL and orphans that a set-up of the node passed over.
THEOREM OneOfEachHolds == Spec => []OneOfEach
  BY InitInv, NextInv, InvImplies, PTL DEF Spec

-----------------------------------------------------------------------------
(* NvcfClient                                                              *)

BatchTypes ==
  /\ jobs \in 1 .. MaxJobs /\ funcs \in Nat /\ temp \in BOOLEAN /\ files \in BOOLEAN
  /\ batch \in {"setup", "running", "ok", "raised"}
  /\ step \in [1 .. MaxJobs -> {"waiting", "invoke", "posted", "poll", "ok", "raised"}]
  /\ cnt \in [1 .. MaxJobs -> 0 .. RetryCnt]
  /\ fails \in [1 .. MaxJobs -> 0 .. RetryCnt]
  /\ tries \in [1 .. MaxJobs -> 0 .. RetryCnt]
  /\ server \in [Client!Attempts -> {"none", "running", "done", "failed", "gone"}]

\* A job has the retries left that no failure took, and posts once more than it failed at most.
CountsHold(j) ==
  /\ cnt[j] + fails[j] = RetryCnt
  /\ step[j] \in {"waiting", "invoke", "posted", "poll"} => cnt[j] > 0
  /\ step[j] \in {"waiting", "invoke"} => tries[j] <= fails[j]
  /\ step[j] \in {"posted", "poll"} => tries[j] > 0 /\ tries[j] <= fails[j] + 1
  /\ step[j] = "raised" /\ j \notin final => cnt[j] = 0

\* What runs, or is done, for a job is its last attempt or one whose answer was lost.
AttemptsHold(j) ==
  /\ step[j] = "ok" => Client!Produced(j) \/ j \in unsure
  /\ \A n \in 1 .. RetryCnt :
       /\ n > tries[j] => server[<<j, n>>] = "none"
       /\ server[<<j, n>>] \in {"running", "done"} =>
         \/ <<j, n>> \in unknown
         \/ step[j] \in {"posted", "poll", "ok", "raised"} /\ n = tries[j]

BatchInv ==
  /\ BatchTypes
  /\ \A j \in 1 .. MaxJobs : CountsHold(j) /\ AttemptsHold(j)
  /\ batch = "running" => files = temp
  /\ batch # "running" => Client!AtWork = {}
  /\ batch = "setup" \/ (batch # "running" /\ funcs > 0) => ~files

LEMMA BatchInit == Client!Init => BatchInv
<1> SUFFICES ASSUME Client!Init PROVE BatchInv
  OBVIOUS
<1>0. MaxJobs \in Nat /\ MaxFuncs \in Nat /\ RetryCnt \in Nat \ {0}
  BY ClientAssumption
<1> USE DEF Client!Init
<1>1. BatchTypes
  <2>1. funcs \in Nat /\ 0 \in 0 .. RetryCnt /\ RetryCnt \in 0 .. RetryCnt
    BY <1>0
  <2>2. /\ cnt \in [1 .. MaxJobs -> 0 .. RetryCnt]
        /\ fails \in [1 .. MaxJobs -> 0 .. RetryCnt]
        /\ tries \in [1 .. MaxJobs -> 0 .. RetryCnt]
    BY <2>1
  <2>3. /\ step \in [1 .. MaxJobs -> {"waiting", "invoke", "posted", "poll", "ok", "raised"}]
        /\ server \in [Client!Attempts -> {"none", "running", "done", "failed", "gone"}]
    OBVIOUS
  <2> QED
    BY <2>1, <2>2, <2>3 DEF BatchTypes
<1>2. \A j \in 1 .. MaxJobs : CountsHold(j)
  BY <1>0 DEF CountsHold
<1>3. \A j \in 1 .. MaxJobs, n \in 1 .. RetryCnt : server[<<j, n>>] = "none"
  BY DEF Client!Attempts
<1>4. \A j \in 1 .. MaxJobs : AttemptsHold(j)
  BY <1>3 DEF AttemptsHold
<1>5. Client!AtWork = {}
  BY <1>0 DEF Client!AtWork, Client!Jobs
<1> QED
  BY <1>1, <1>2, <1>4, <1>5 DEF BatchInv

\* A step of one job that is at work: what has to be said of the others and of the batch.
LEMMA JobStep ==
  ASSUME BatchInv, NEW j \in 1 .. MaxJobs, BatchTypes', CountsHold(j)', AttemptsHold(j)',
         UNCHANGED <<jobs, funcs, temp, batch, files>>,
         unknown \subseteq unknown', unsure \subseteq unsure', final \subseteq final', final' \subseteq final \cup {j},
         \A i \in 1 .. MaxJobs : i # j =>
           /\ step'[i] = step[i] /\ cnt'[i] = cnt[i] /\ fails'[i] = fails[i] /\ tries'[i] = tries[i]
           /\ \A n \in 1 .. RetryCnt : server'[<<i, n>>] = server[<<i, n>>],
         batch = "running"
  PROVE  BatchInv'
<1>1. ASSUME NEW i \in 1 .. MaxJobs, i # j PROVE CountsHold(i)' /\ AttemptsHold(i)'
  <2>1. CountsHold(i) /\ AttemptsHold(i)
    BY DEF BatchInv
  <2>2. CountsHold(i)'
    BY <1>1, <2>1 DEF CountsHold
  <2>3. AttemptsHold(i)'
    BY <1>1, <2>1 DEF AttemptsHold, Client!Produced
  <2> QED
    BY <2>2, <2>3
<1> QED
  BY <1>1 DEF BatchInv

\* What a failure that takes a retry does to the counts.
LEMMA Retried ==
  ASSUME BatchTypes, NEW j \in 1 .. MaxJobs, CountsHold(j), NEW at \in {"invoke", "poll"},
         step[j] \in {"invoke", "posted", "poll"}, Client!Retry(j, at)
  PROVE  /\ cnt' \in [1 .. MaxJobs -> 0 .. RetryCnt]
         /\ fails' \in [1 .. MaxJobs -> 0 .. RetryCnt]
         /\ step' \in [1 .. MaxJobs -> {"waiting", "invoke", "posted", "poll", "ok", "raised"}]
         /\ cnt'[j] = cnt[j] - 1 /\ fails'[j] = fails[j] + 1 /\ final' = final
         /\ step'[j] = IF cnt[j] = 1 THEN "raised" ELSE at
         /\ \A i \in 1 .. MaxJobs : i # j =>
              step'[i] = step[i] /\ cnt'[i] = cnt[i] /\ fails'[i] = fails[i]
<1>0. RetryCnt \in Nat \ {0} /\ MaxJobs \in Nat
  BY ClientAssumption
<1>1. cnt[j] - 1 \in 0 .. RetryCnt /\ fails[j] + 1 \in 0 .. RetryCnt
  BY <1>0 DEF BatchTypes, CountsHold
<1>2. /\ cnt' = [cnt EXCEPT ![j] = cnt[j] - 1] /\ fails' = [fails EXCEPT ![j] = fails[j] + 1]
      /\ step' = [step EXCEPT ![j] = IF cnt[j] = 1 THEN "raised" ELSE at]
      /\ final' = final
  BY DEF Client!Retry, BatchTypes
<1>3. /\ cnt \in [1 .. MaxJobs -> 0 .. RetryCnt] /\ fails \in [1 .. MaxJobs -> 0 .. RetryCnt]
      /\ step \in [1 .. MaxJobs -> {"waiting", "invoke", "posted", "poll", "ok", "raised"}]
  BY DEF BatchTypes
<1>4. cnt' \in [1 .. MaxJobs -> 0 .. RetryCnt] /\ fails' \in [1 .. MaxJobs -> 0 .. RetryCnt]
  BY <1>1, <1>2, <1>3
<1>5. step' \in [1 .. MaxJobs -> {"waiting", "invoke", "posted", "poll", "ok", "raised"}]
  BY <1>2, <1>3
<1> QED
  BY <1>2, <1>3, <1>4, <1>5

\* A failure keeps the counts of the job in step, and its attempts accounted for.
LEMMA RetriedHolds ==
  ASSUME NEW j \in 1 .. MaxJobs, NEW at \in {"invoke", "poll"},
         cnt[j] \in 0 .. RetryCnt, fails[j] \in 0 .. RetryCnt, tries[j] \in 0 .. RetryCnt,
         CountsHold(j), AttemptsHold(j), step[j] \in {"invoke", "posted", "poll"},
         cnt'[j] = cnt[j] - 1, fails'[j] = fails[j] + 1, final' = final,
         step'[j] = IF cnt[j] = 1 THEN "raised" ELSE at,
         server' = server,
         tries'[j] = IF step[j] = "invoke" THEN tries[j] + 1 ELSE tries[j],
         at = "poll" => step[j] = "poll",
         unknown \subseteq unknown',
         step[j] # "poll" \/ at # "poll" =>
           <<j, tries[j]>> \in unknown' \/ ~ (step[j] \in {"posted", "poll"})
           \/ server[<<j, tries[j]>>] \notin {"running", "done"}
  PROVE  CountsHold(j)' /\ AttemptsHold(j)'
<1>0. RetryCnt \in Nat
  BY ClientAssumption
<1>1. CASE cnt[j] = 1
  <2>1. step'[j] = "raised" /\ cnt'[j] = 0
    BY <1>1
  <2>2. CountsHold(j)'
    BY <1>0, <1>1, <2>1 DEF CountsHold
  <2>3. ASSUME NEW n \in 1 .. RetryCnt, n > tries'[j] PROVE server'[<<j, n>>] = "none"
    BY <1>0, <2>3 DEF AttemptsHold
  <2>4. ASSUME NEW n \in 1 .. RetryCnt, server'[<<j, n>>] \in {"running", "done"}
        PROVE  <<j, n>> \in unknown' \/ (step'[j] \in {"posted", "poll", "ok", "raised"} /\ n = tries'[j])
    BY <1>0, <2>1, <2>4 DEF AttemptsHold
  <2> QED
    BY <2>1, <2>2, <2>3, <2>4 DEF AttemptsHold
<1>2. CASE cnt[j] # 1
  <2>1. step'[j] = at /\ cnt[j] > 1 /\ cnt'[j] > 0
    BY <1>0, <1>2 DEF CountsHold
  <2>2. CountsHold(j)'
    <3>1. CASE at = "poll"
      BY <1>0, <2>1, <3>1 DEF CountsHold
    <3>2. CASE at = "invoke"
      BY <1>0, <2>1, <3>2 DEF CountsHold
    <3> QED
      BY <3>1, <3>2
  <2>3. ASSUME NEW n \in 1 .. RetryCnt, n > tries'[j] PROVE server'[<<j, n>>] = "none"
    BY <1>0, <2>3 DEF AttemptsHold
  <2>4. ASSUME NEW n \in 1 .. RetryCnt, server'[<<j, n>>] \in {"running", "done"}
        PROVE  <<j, n>> \in unknown' \/ (step'[j] \in {"posted", "poll", "ok", "raised"} /\ n = tries'[j])
    BY <1>0, <2>1, <2>4 DEF AttemptsHold
  <2> QED
    BY <2>1, <2>2, <2>3, <2>4 DEF AttemptsHold
<1> QED
  BY <1>1, <1>2

LEMMA BatchStep ==
  ASSUME BatchInv, Client!Next
  PROVE  BatchInv'
<1>0. BatchTypes /\ RetryCnt \in Nat \ {0} /\ MaxJobs \in Nat /\ jobs \in 1 .. MaxJobs
  BY ClientAssumption DEF BatchInv, BatchTypes
<1> USE DEF Client!cmdline
<1>1. CASE Client!Prepare
  <2>1. BatchTypes' /\ Client!AtWork' = Client!AtWork
    BY <1>0, <1>1 DEF Client!Prepare, BatchTypes, Client!AtWork, Client!Jobs
  <2>2. \A j \in 1 .. MaxJobs : CountsHold(j)' /\ AttemptsHold(j)'
    BY <1>1 DEF Client!Prepare, BatchInv, CountsHold, AttemptsHold, Client!Produced
  <2> QED
    BY <1>0, <1>1, <2>1, <2>2 DEF Client!Prepare, BatchInv, BatchTypes
<1>2. CASE Client!CleanUp
  <2>1. BatchTypes' /\ Client!AtWork' = {}
    BY <1>0, <1>2 DEF Client!CleanUp, BatchTypes, Client!AtWork, Client!Jobs
  <2>2. \A j \in 1 .. MaxJobs : CountsHold(j)' /\ AttemptsHold(j)'
    BY <1>2 DEF Client!CleanUp, BatchInv, CountsHold, AttemptsHold, Client!Produced
  <2> QED
    BY <1>2, <2>1, <2>2 DEF Client!CleanUp, BatchInv
<1>3. ASSUME NEW j \in Client!Jobs,
             \/ Client!Begin(j) \/ Client!Post(j) \/ Client!PostLost(j)
             \/ Client!AnswerPending(j) \/ Client!AnswerDone(j) \/ Client!AnswerFailed(j) \/ Client!AnswerLost(j)
             \/ Client!PollDone(j) \/ Client!PollNothing(j) \/ Client!PollFailed(j) \/ Client!PollError(j)
             \/ Client!PollBreaks(j)
      PROVE  BatchInv'
  <2>0. j \in 1 .. MaxJobs /\ CountsHold(j) /\ AttemptsHold(j) /\ j \in Nat
    BY <1>0 DEF Client!Jobs, BatchInv
  <2>01. cnt[j] \in 0 .. RetryCnt /\ fails[j] \in 0 .. RetryCnt /\ tries[j] \in 0 .. RetryCnt
    BY <1>0, <2>0 DEF BatchTypes
  <2>1. batch = "running"
    <3>1. step[j] \in {"invoke", "posted", "poll"} => batch = "running"
      BY DEF BatchInv, Client!AtWork
    <3> QED
      BY <1>3, <3>1 DEF Client!Begin, Client!Post, Client!PostLost, Client!AnswerPending, Client!AnswerDone,
         Client!AnswerFailed, Client!AnswerLost, Client!PollDone, Client!PollNothing, Client!PollFailed, Client!PollError, Client!PollBreaks
  <2> USE DEF BatchTypes, CountsHold, AttemptsHold, Client!Produced, Client!Attempts, Client!Last
  <2>2. CASE Client!Begin(j)
    <3>1. BatchTypes' /\ CountsHold(j)' /\ AttemptsHold(j)'
      BY <1>0, <2>0, <2>2 DEF Client!Begin
    <3> QED
      BY <1>0, <2>0, <2>1, <2>2, <3>1, JobStep DEF Client!Begin
  <2>3. CASE Client!Post(j)
    <3>1. step[j] = "invoke" /\ tries' = [tries EXCEPT ![j] = @ + 1] /\ tries[j] + 1 \in 1 .. RetryCnt
          /\ UNCHANGED <<jobs, funcs, temp, batch, files, unknown, unsure>>
      BY <1>0, <2>0, <2>3 DEF Client!Post
    <3>2. CASE server' = [server EXCEPT ![<<j, tries[j] + 1>>] = "running"] /\ step' = [step EXCEPT ![j] = "posted"]
               /\ UNCHANGED <<cnt, fails, final>>
      <4>1. <<j, tries[j] + 1>> \in Client!Attempts
        BY <2>0, <3>1
      <4>2. \A i \in 1 .. MaxJobs, n \in 1 .. RetryCnt :
              server'[<<i, n>>] = IF i = j /\ n = tries[j] + 1 THEN "running" ELSE server[<<i, n>>]
        BY <1>0, <3>2, <4>1
      <4>3. BatchTypes'
        <5>1. tries' \in [1 .. MaxJobs -> 0 .. RetryCnt]
          BY <1>0, <2>0, <3>1
        <5>2. server' \in [Client!Attempts -> {"none", "running", "done", "failed", "gone"}]
          BY <1>0, <3>2
        <5>3. step' \in [1 .. MaxJobs -> {"waiting", "invoke", "posted", "poll", "ok", "raised"}]
          BY <1>0, <2>0, <3>2
        <5> QED
          BY <1>0, <3>1, <3>2, <5>1, <5>2, <5>3
      <4>4. CountsHold(j)'
        BY <1>0, <2>0, <3>1, <3>2
      <4>5. AttemptsHold(j)'
        BY <1>0, <2>0, <3>1, <3>2, <4>2
      <4>6. \A i \in 1 .. MaxJobs : i # j =>
              /\ step'[i] = step[i] /\ cnt'[i] = cnt[i] /\ fails'[i] = fails[i] /\ tries'[i] = tries[i]
              /\ \A n \in 1 .. RetryCnt : server'[<<i, n>>] = server[<<i, n>>]
        BY <1>0, <3>1, <3>2, <4>2
      <4>7. UNCHANGED <<jobs, funcs, temp, batch, files, unsure>> /\ unknown' = unknown /\ final' = final
        BY <3>1, <3>2
      <4> QED
        BY <2>0, <2>1, <4>3, <4>4, <4>5, <4>6, <4>7, JobStep
    <3>3. CASE Client!GiveUp(j) /\ UNCHANGED server
      <4>0. /\ step' = [step EXCEPT ![j] = "raised"] /\ final' = final \cup {j}
            /\ UNCHANGED <<cnt, fails, server>>
        BY <3>3 DEF Client!GiveUp
      <4>1. BatchTypes' /\ CountsHold(j)' /\ AttemptsHold(j)'
        <5>1. tries' \in [1 .. MaxJobs -> 0 .. RetryCnt]
          BY <1>0, <2>0, <3>1
        <5>2. step' \in [1 .. MaxJobs -> {"waiting", "invoke", "posted", "poll", "ok", "raised"}]
          BY <1>0, <4>0
        <5>4. BatchTypes'
          BY <1>0, <3>1, <4>0, <5>1, <5>2
        <5>5. CountsHold(j)'
          BY <1>0, <2>0, <3>1, <4>0
        <5>6. AttemptsHold(j)'
          BY <1>0, <2>0, <3>1, <4>0
        <5> QED
          BY <5>4, <5>5, <5>6
      <4>2. \A i \in 1 .. MaxJobs : i # j =>
              /\ step'[i] = step[i] /\ cnt'[i] = cnt[i] /\ fails'[i] = fails[i] /\ tries'[i] = tries[i]
              /\ \A n \in 1 .. RetryCnt : server'[<<i, n>>] = server[<<i, n>>]
        BY <1>0, <3>1, <3>3 DEF Client!GiveUp
      <4>3. /\ UNCHANGED <<jobs, funcs, temp, batch, files, unsure>> /\ unknown' = unknown
            /\ final' = final \cup {j}
        BY <3>1, <3>3 DEF Client!GiveUp
      <4> QED
        BY <2>0, <2>1, <4>1, <4>2, <4>3, JobStep
    <3> QED
      BY <2>3, <3>2, <3>3 DEF Client!Post
  <2>4. CASE Client!PostLost(j)
    <3>1. Client!Retry(j, "invoke") /\ step[j] = "invoke"
      BY <2>4 DEF Client!PostLost
    <3>2. /\ tries' = [tries EXCEPT ![j] = tries[j] + 1] /\ tries[j] + 1 \in 0 .. RetryCnt
          /\ unknown' = unknown /\ UNCHANGED <<jobs, funcs, temp, batch, files, server, unsure>>
      BY <1>0, <2>0, <2>4 DEF Client!PostLost
    <3>3. /\ cnt' \in [1 .. MaxJobs -> 0 .. RetryCnt]
          /\ fails' \in [1 .. MaxJobs -> 0 .. RetryCnt]
          /\ step' \in [1 .. MaxJobs -> {"waiting", "invoke", "posted", "poll", "ok", "raised"}]
          /\ cnt'[j] = cnt[j] - 1 /\ fails'[j] = fails[j] + 1 /\ final' = final
          /\ step'[j] = IF cnt[j] = 1 THEN "raised" ELSE "invoke"
          /\ \A i \in 1 .. MaxJobs : i # j =>
               step'[i] = step[i] /\ cnt'[i] = cnt[i] /\ fails'[i] = fails[i]
      BY <1>0, <2>0, <3>1, Retried
    <3>4. tries'[j] = tries[j] + 1 /\ tries' \in [1 .. MaxJobs -> 0 .. RetryCnt]
      BY <1>0, <2>0, <3>2
    <3>5. BatchTypes'
      BY <1>0, <3>2, <3>3, <3>4
    <3>9. step[j] = "invoke"
      BY <2>4, <3>2 DEF Client!PostLost
    <3>6. CountsHold(j)' /\ AttemptsHold(j)'
      <4>1. server' = server /\ unknown' = unknown /\ final' = final
        BY <3>2, <3>3
      <4>2. tries'[j] = IF step[j] = "invoke" THEN tries[j] + 1 ELSE tries[j]
        BY <3>1, <3>4
      <4>3. cnt'[j] = cnt[j] - 1 /\ fails'[j] = fails[j] + 1 /\ step'[j] = IF cnt[j] = 1 THEN "raised" ELSE "invoke"
        BY <3>3
      <4> HIDE DEF BatchTypes, CountsHold, AttemptsHold, Client!Produced, Client!Attempts, Client!Last
      <4> QED
        BY <2>0, <2>01, <3>9, <4>1, <4>2, <4>3, RetriedHolds
    <3>8. \A i \in 1 .. MaxJobs : i # j =>
            /\ step'[i] = step[i] /\ cnt'[i] = cnt[i] /\ fails'[i] = fails[i] /\ tries'[i] = tries[i]
            /\ \A n \in 1 .. RetryCnt : server'[<<i, n>>] = server[<<i, n>>]
      BY <1>0, <3>1, <3>2, <3>3
    <3> QED
      BY <2>0, <2>1, <3>2, <3>3, <3>5, <3>6, <3>8, JobStep
  <2>5. CASE Client!AnswerPending(j)
    <3>1. BatchTypes' /\ CountsHold(j)' /\ AttemptsHold(j)'
      BY <1>0, <2>0, <2>5 DEF Client!AnswerPending, Client!Retry, Client!GiveUp
    <3> QED
      BY <1>0, <2>0, <2>1, <2>5, <3>1, JobStep DEF Client!AnswerPending, Client!Retry, Client!GiveUp
  <2>6. CASE Client!AnswerDone(j)
    <3>1. step[j] = "posted" /\ server[<<j, tries[j]>>] = "done" /\ tries[j] \in 1 .. RetryCnt
      BY <1>0, <2>0, <2>6 DEF Client!AnswerDone
    <3>2. /\ step' = [step EXCEPT ![j] = "ok"]
          /\ UNCHANGED <<jobs, funcs, temp, batch, files, server, cnt, fails, tries, unknown, unsure, final>>
      BY <2>6 DEF Client!AnswerDone
    <3>3. step'[j] = "ok"
      BY <1>0, <2>0, <3>2
    <3>5. BatchTypes'
      BY <1>0, <3>2
    <3>6. CountsHold(j)'
      BY <1>0, <2>0, <3>1, <3>2, <3>3
    <3>7. AttemptsHold(j)'
      BY <1>0, <2>0, <3>1, <3>2, <3>3
    <3>8. \A i \in 1 .. MaxJobs : i # j =>
            /\ step'[i] = step[i] /\ cnt'[i] = cnt[i] /\ fails'[i] = fails[i] /\ tries'[i] = tries[i]
            /\ \A n \in 1 .. RetryCnt : server'[<<i, n>>] = server[<<i, n>>]
      BY <1>0, <3>1, <3>2, <3>3
    <3> QED
      BY <2>0, <2>1, <3>2, <3>3, <3>5, <3>6, <3>7, <3>8, JobStep
  <2>7. CASE Client!AnswerFailed(j)
    <3>1. BatchTypes' /\ CountsHold(j)' /\ AttemptsHold(j)'
      BY <1>0, <2>0, <2>7 DEF Client!AnswerFailed, Client!Retry, Client!GiveUp
    <3> QED
      BY <1>0, <2>0, <2>1, <2>7, <3>1, JobStep DEF Client!AnswerFailed, Client!Retry, Client!GiveUp
  <2>8. CASE Client!AnswerLost(j)
    <3>1. Client!Retry(j, "invoke") /\ step[j] = "posted"
      BY <2>8 DEF Client!AnswerLost
    <3>2. /\ tries' = tries
          /\ unknown' = unknown \cup {<<j, tries[j]>>} /\ UNCHANGED <<jobs, funcs, temp, batch, files, server, unsure>>
      BY <1>0, <2>0, <2>8 DEF Client!AnswerLost
    <3>3. /\ cnt' \in [1 .. MaxJobs -> 0 .. RetryCnt]
          /\ fails' \in [1 .. MaxJobs -> 0 .. RetryCnt]
          /\ step' \in [1 .. MaxJobs -> {"waiting", "invoke", "posted", "poll", "ok", "raised"}]
          /\ cnt'[j] = cnt[j] - 1 /\ fails'[j] = fails[j] + 1 /\ final' = final
          /\ step'[j] = IF cnt[j] = 1 THEN "raised" ELSE "invoke"
          /\ \A i \in 1 .. MaxJobs : i # j =>
               step'[i] = step[i] /\ cnt'[i] = cnt[i] /\ fails'[i] = fails[i]
      BY <1>0, <2>0, <3>1, Retried
    <3>4. tries'[j] = tries[j] /\ tries' \in [1 .. MaxJobs -> 0 .. RetryCnt]
      BY <1>0, <2>0, <3>2
    <3>5. BatchTypes'
      BY <1>0, <3>2, <3>3, <3>4
    <3>9. <<j, tries[j]>> \in unknown'
      BY <2>8, <3>2 DEF Client!AnswerLost
    <3>6. CountsHold(j)' /\ AttemptsHold(j)'
      BY <2>0, <2>01, <3>1, <3>2, <3>3, <3>4, <3>9, RetriedHolds
    <3>8. \A i \in 1 .. MaxJobs : i # j =>
            /\ step'[i] = step[i] /\ cnt'[i] = cnt[i] /\ fails'[i] = fails[i] /\ tries'[i] = tries[i]
            /\ \A n \in 1 .. RetryCnt : server'[<<i, n>>] = server[<<i, n>>]
      BY <1>0, <3>1, <3>2, <3>3
    <3> QED
      BY <2>0, <2>1, <3>2, <3>3, <3>5, <3>6, <3>8, JobStep
  <2>9. CASE Client!PollDone(j)
    <3>1. step[j] = "poll" /\ server[<<j, tries[j]>>] = "done" /\ tries[j] \in 1 .. RetryCnt
      BY <1>0, <2>0, <2>9 DEF Client!PollDone
    <3>2. /\ step' = [step EXCEPT ![j] = "ok"]
          /\ UNCHANGED <<jobs, funcs, temp, batch, files, server, cnt, fails, tries, unknown, unsure, final>>
      BY <2>9 DEF Client!PollDone
    <3>3. step'[j] = "ok"
      BY <1>0, <2>0, <3>2
    <3>5. BatchTypes'
      BY <1>0, <3>2
    <3>6. CountsHold(j)'
      BY <1>0, <2>0, <3>1, <3>2, <3>3
    <3>7. AttemptsHold(j)'
      BY <1>0, <2>0, <3>1, <3>2, <3>3
    <3>8. \A i \in 1 .. MaxJobs : i # j =>
            /\ step'[i] = step[i] /\ cnt'[i] = cnt[i] /\ fails'[i] = fails[i] /\ tries'[i] = tries[i]
            /\ \A n \in 1 .. RetryCnt : server'[<<i, n>>] = server[<<i, n>>]
      BY <1>0, <3>1, <3>2, <3>3
    <3> QED
      BY <2>0, <2>1, <3>2, <3>3, <3>5, <3>6, <3>7, <3>8, JobStep
  <2>10. CASE Client!PollFailed(j)
    <3>1. Client!Retry(j, "invoke") /\ step[j] = "poll"
      BY <2>10 DEF Client!PollFailed
    <3>2. /\ tries' = tries
          /\ unknown' = unknown /\ UNCHANGED <<jobs, funcs, temp, batch, files, server, unsure>>
      BY <1>0, <2>0, <2>10 DEF Client!PollFailed
    <3>3. /\ cnt' \in [1 .. MaxJobs -> 0 .. RetryCnt]
          /\ fails' \in [1 .. MaxJobs -> 0 .. RetryCnt]
          /\ step' \in [1 .. MaxJobs -> {"waiting", "invoke", "posted", "poll", "ok", "raised"}]
          /\ cnt'[j] = cnt[j] - 1 /\ fails'[j] = fails[j] + 1 /\ final' = final
          /\ step'[j] = IF cnt[j] = 1 THEN "raised" ELSE "invoke"
          /\ \A i \in 1 .. MaxJobs : i # j =>
               step'[i] = step[i] /\ cnt'[i] = cnt[i] /\ fails'[i] = fails[i]
      BY <1>0, <2>0, <3>1, Retried
    <3>4. tries'[j] = tries[j] /\ tries' \in [1 .. MaxJobs -> 0 .. RetryCnt]
      BY <1>0, <2>0, <3>2
    <3>5. BatchTypes'
      BY <1>0, <3>2, <3>3, <3>4
    <3>9. server[<<j, tries[j]>>] \notin {"running", "done"}
      BY <2>10, <3>2 DEF Client!PollFailed
    <3>6. CountsHold(j)' /\ AttemptsHold(j)'
      BY <2>0, <2>01, <3>1, <3>2, <3>3, <3>4, <3>9, RetriedHolds
    <3>8. \A i \in 1 .. MaxJobs : i # j =>
            /\ step'[i] = step[i] /\ cnt'[i] = cnt[i] /\ fails'[i] = fails[i] /\ tries'[i] = tries[i]
            /\ \A n \in 1 .. RetryCnt : server'[<<i, n>>] = server[<<i, n>>]
      BY <1>0, <3>1, <3>2, <3>3
    <3> QED
      BY <2>0, <2>1, <3>2, <3>3, <3>5, <3>6, <3>8, JobStep
  <2>11. CASE Client!PollError(j)
    <3>1. Client!Retry(j, "poll") /\ step[j] = "poll"
      BY <2>11 DEF Client!PollError
    <3>2. /\ tries' = tries
          /\ unknown' = unknown /\ UNCHANGED <<jobs, funcs, temp, batch, files, server, unsure>>
      BY <1>0, <2>0, <2>11 DEF Client!PollError
    <3>3. /\ cnt' \in [1 .. MaxJobs -> 0 .. RetryCnt]
          /\ fails' \in [1 .. MaxJobs -> 0 .. RetryCnt]
          /\ step' \in [1 .. MaxJobs -> {"waiting", "invoke", "posted", "poll", "ok", "raised"}]
          /\ cnt'[j] = cnt[j] - 1 /\ fails'[j] = fails[j] + 1 /\ final' = final
          /\ step'[j] = IF cnt[j] = 1 THEN "raised" ELSE "poll"
          /\ \A i \in 1 .. MaxJobs : i # j =>
               step'[i] = step[i] /\ cnt'[i] = cnt[i] /\ fails'[i] = fails[i]
      BY <1>0, <2>0, <3>1, Retried
    <3>4. tries'[j] = tries[j] /\ tries' \in [1 .. MaxJobs -> 0 .. RetryCnt]
      BY <1>0, <2>0, <3>2
    <3>5. BatchTypes'
      BY <1>0, <3>2, <3>3, <3>4
    <3>9. step[j] = "poll"
      BY <2>11, <3>2 DEF Client!PollError
    <3>6. CountsHold(j)' /\ AttemptsHold(j)'
      BY <2>0, <2>01, <3>1, <3>2, <3>3, <3>4, <3>9, RetriedHolds
    <3>8. \A i \in 1 .. MaxJobs : i # j =>
            /\ step'[i] = step[i] /\ cnt'[i] = cnt[i] /\ fails'[i] = fails[i] /\ tries'[i] = tries[i]
            /\ \A n \in 1 .. RetryCnt : server'[<<i, n>>] = server[<<i, n>>]
      BY <1>0, <3>1, <3>2, <3>3
    <3> QED
      BY <2>0, <2>1, <3>2, <3>3, <3>5, <3>6, <3>8, JobStep
  <2>12. CASE Client!PollBreaks(j)
    <3>1. BatchTypes' /\ CountsHold(j)' /\ AttemptsHold(j)'
      BY <1>0, <2>0, <2>12 DEF Client!PollBreaks, Client!Retry, Client!GiveUp
    <3> QED
      BY <1>0, <2>0, <2>1, <2>12, <3>1, JobStep DEF Client!PollBreaks, Client!Retry, Client!GiveUp
  <2>13. CASE Client!PollNothing(j)
    <3>1. /\ step[j] = "poll" /\ step' = [step EXCEPT ![j] = "ok"] /\ unsure' = unsure \cup {j}
          /\ UNCHANGED <<jobs, funcs, temp, batch, files, server, cnt, fails, tries, unknown, final>>
      BY <2>13 DEF Client!PollNothing
    <3>2. step'[j] = "ok" /\ j \in unsure' /\ unsure \subseteq unsure'
      BY <1>0, <2>0, <3>1
    <3>3. BatchTypes'
      BY <1>0, <3>1
    <3>4. CountsHold(j)'
      BY <1>0, <2>0, <3>1, <3>2
    <3>5. AttemptsHold(j)'
      BY <1>0, <2>0, <3>1, <3>2
    <3>6. \A i \in 1 .. MaxJobs : i # j =>
            /\ step'[i] = step[i] /\ cnt'[i] = cnt[i] /\ fails'[i] = fails[i] /\ tries'[i] = tries[i]
            /\ \A n \in 1 .. RetryCnt : server'[<<i, n>>] = server[<<i, n>>]
      BY <1>0, <3>1
    <3> QED
      BY <2>0, <2>1, <3>1, <3>2, <3>3, <3>4, <3>5, <3>6, JobStep
  <2> QED
    BY <1>3, <2>2, <2>3, <2>4, <2>5, <2>6, <2>7, <2>8, <2>9, <2>10, <2>11, <2>12, <2>13
<1>4. ASSUME NEW a \in Client!Attempts, Client!Ends(a) \/ Client!Vanishes(a) PROVE BatchInv'
  <2>1. /\ server[a] = "running"
        /\ \E s \in {"done", "failed", "gone"} : server' = [server EXCEPT ![a] = s]
        /\ UNCHANGED <<jobs, funcs, temp, batch, files, step, cnt, tries, unknown, unsure, fails, final>>
    BY <1>4 DEF Client!Ends, Client!Vanishes
  <2>2. BatchTypes' /\ Client!AtWork' = Client!AtWork
    BY <1>0, <2>1 DEF BatchTypes, Client!AtWork, Client!Jobs
  <2>3. ASSUME NEW j \in 1 .. MaxJobs, NEW n \in 1 .. RetryCnt
        PROVE  /\ server'[<<j, n>>] \in {"running", "done"} => server[<<j, n>>] \in {"running", "done"}
               /\ server[<<j, n>>] = "done" => server'[<<j, n>>] = "done"
    BY <1>0, <2>1 DEF BatchTypes, Client!Attempts
  <2>4. \A j \in 1 .. MaxJobs : CountsHold(j)' /\ AttemptsHold(j)'
    BY <2>1, <2>3 DEF BatchInv, CountsHold, AttemptsHold, Client!Produced
  <2> QED
    BY <2>1, <2>2, <2>4 DEF BatchInv
<1> QED
  BY <1>1, <1>2, <1>3, <1>4 DEF Client!Next

\* A batch of the command line client ends a job well only when its request was done or its status
\* came back as nothing, gives up no job early, and does no work twice that the client knows of, over any number of jobs, functions, retries, lost answers and restarts.
THEOREM BatchIsSound == PartSpec => []BatchSound
<1>1. PartInit => BatchInv
  BY BatchInit DEF PartInit
<1>2. BatchInv /\ [PartNext]_partVars => BatchInv'
  <2> SUFFICES ASSUME BatchInv, [PartNext]_partVars PROVE BatchInv'
    OBVIOUS
  <2>1. CASE UNCHANGED clientVars
    BY <2>1 DEF clientVars, BatchInv, BatchTypes, CountsHold, AttemptsHold, Client!Produced, Client!AtWork, Client!Jobs
  <2>2. CASE Client!Next
    BY <2>2, BatchStep
  <2> QED
    BY <2>1, <2>2 DEF PartNext, partVars
<1>3. BatchInv => BatchSound
  <2> SUFFICES ASSUME BatchInv PROVE BatchSound
    OBVIOUS
  <2>0. Client!Jobs \subseteq 1 .. MaxJobs /\ RetryCnt \in Nat /\ BatchTypes
    BY ClientAssumption DEF BatchInv, BatchTypes, Client!Jobs
  <2>1. Client!OkIsDone
    BY <2>0 DEF BatchInv, AttemptsHold, Client!OkIsDone
  <2>2. Client!NoDoubleWork
    <3> SUFFICES ASSUME NEW j \in Client!Jobs, NEW m \in 1 .. RetryCnt, NEW n \in 1 .. RetryCnt, m < n,
                        server[<<j, m>>] \in {"running", "done"}, server[<<j, n>>] \in {"running", "done"},
                        <<j, m>> \notin unknown
                 PROVE  FALSE
      BY DEF Client!NoDoubleWork
    <3>1. m = tries[j] /\ tries[j] < n /\ step[j] \in {"posted", "poll", "ok", "raised"}
      BY <2>0 DEF BatchInv, AttemptsHold
    <3>2. server[<<j, n>>] = "none"
      BY <2>0, <3>1 DEF BatchInv, AttemptsHold
    <3> QED
      BY <3>2
  <2>3. Client!NotGivenUpEarly
    BY <2>0 DEF BatchInv, BatchTypes, CountsHold, Client!NotGivenUpEarly
  <2>4. Client!DataThere
    BY DEF BatchInv, BatchTypes, Client!DataThere
  <2> QED
    BY <2>1, <2>2, <2>3, <2>4 DEF BatchSound, Client!BatchSound
<1> QED
  BY <1>1, <1>2, <1>3, PTL DEF PartSpec
-----------------------------------------------------------------------------
(* SemanticDedup, for runs over one configuration                          *)

\* The row of a clip, the clips of a cluster, those of them that a clip further from the centroid
\* stands for, and the table they make.
RowOf(c)   == [cluster |-> label[c], actor |-> Dedup!ActorOf(c, config.pool), clip |-> c, rank |-> rank[c]]
ClipsOf(k) == {c \in Dedup!Files : label[c] = k}
DupsOf(k)  == {c \in ClipsOf(k) : \E d \in ClipsOf(k) : rank[d] < rank[c] /\ Dedup!Similar(c, d)}
Table(k)   == [ids |-> ClipsOf(k), dups |-> DupsOf(k)]

\* The clips whose cluster is done, and those of them that stay.
Judged == {c \in Dedup!Files : label[c] \notin toDedup}
Kept   == {c \in Judged : c \notin DupsOf(label[c])}

DedupTypes ==
  /\ phase \in {"off", "kmeans", "dedup", "failed"} /\ runs \in Nat
  /\ Dedup!Files \subseteq Dedup!Clips
  /\ config.clusters \in 0 .. MaxClusters
  /\ tables \in [1 .. MaxClusters -> [ids : SUBSET Dedup!Clips, dups : SUBSET Dedup!Clips]]
  /\ runs > 0 => /\ label \in [Dedup!Clips -> 1 .. config.clusters]
                 /\ rank \in [Dedup!Clips -> Dedup!Clips]
                 /\ \A c, d \in Dedup!Clips : rank[c] = rank[d] => c = d

\* Before the first run there is nothing; the rows and tables that are there are those that any
\* run would write.
DedupKeeps ==
  /\ runs = 0 => phase = "off" /\ rows = {} /\ \A k \in 1 .. MaxClusters : tables[k] = Dedup!None
  /\ \A r \in rows : r.clip \in Dedup!Files /\ r = RowOf(r.clip)
  /\ rows # {} => Dedup!Files \subseteq chunks
  /\ \A k \in 1 .. MaxClusters :
       /\ tables[k] \in {Dedup!None, Table(k)}
       /\ tables[k].dups # {} => Dedup!Files \subseteq chunks

\* What a run has done so far.
DedupGoes ==
  /\ phase = "kmeans" =>
       /\ toWrite \subseteq {<<label[c], Dedup!ActorOf(c, config.pool)>> : c \in Dedup!Files}
       /\ \A c \in Dedup!Files : <<label[c], Dedup!ActorOf(c, config.pool)>> \in toWrite \/ RowOf(c) \in rows
       /\ toDedup = 1 .. config.clusters
  /\ phase = "dedup" =>
       /\ \A c \in Dedup!Files : RowOf(c) \in rows
       /\ toDedup \subseteq 1 .. config.clusters
       /\ \A k \in (1 .. config.clusters) \ toDedup : tables[k] = Table(k)
  /\ phase \in {"kmeans", "dedup"} =>
       counts.kept = Cardinality(Kept) /\ counts.total = Cardinality(Judged)

\* What the last run that ended has counted.
DedupCounted ==
  csv.total > 0 => /\ csv.total = Cardinality(Dedup!Files)
                   /\ csv.kept = Cardinality({c \in Dedup!Files : c \notin DupsOf(label[c])})
                   /\ runs > 0 /\ \A k \in 1 .. config.clusters : tables[k] = Table(k)

DedupInv == DedupTypes /\ DedupKeeps /\ DedupGoes /\ DedupCounted

LEMMA DedupCards == \A S : Dedup!Cardinality(S) = Cardinality(S)
  BY DEF Dedup!Cardinality, Cardinality

LEMMA DedupConstants == N \in Nat /\ MaxClusters \in Nat /\ IsFiniteSet(Dedup!Clips)
<1>1. N \in Nat /\ MaxClusters \in Nat
  BY DedupAssumption
<1> QED
  BY <1>1, FS_Interval DEF Dedup!Clips

LEMMA DedupInit ==
  ASSUME Dedup!Init, summary \in BOOLEAN, chunks \subseteq Dedup!Clips
  PROVE  DedupInv
<1>1. Dedup!Files \subseteq Dedup!Clips
  BY DEF Dedup!Files
<1>2. 0 \in 0 .. MaxClusters /\ 0 \in Nat
  BY DedupConstants
<1>3. DedupTypes
  BY <1>1, <1>2 DEF Dedup!Init, DedupTypes, Dedup!None
<1>4. DedupKeeps
  BY DEF Dedup!Init, DedupKeeps, Dedup!None
<1>5. DedupGoes /\ DedupCounted
  BY DEF Dedup!Init, DedupGoes, DedupCounted
<1> QED
  BY <1>3, <1>4, <1>5 DEF DedupInv

\* What does not change when the input and the setup do not.
LEMMA DedupFrame ==
  ASSUME UNCHANGED <<similar, chunks, summary, config, label, rank>>
  PROVE  /\ Dedup!Files' = Dedup!Files
         /\ \A c, n : Dedup!ActorOf(c, n)' = Dedup!ActorOf(c, n)
         /\ \A c : RowOf(c)' = RowOf(c)
         /\ \A k : ClipsOf(k)' = ClipsOf(k) /\ DupsOf(k)' = DupsOf(k) /\ Table(k)' = Table(k)
<1>1. Dedup!Files' = Dedup!Files
  BY DEF Dedup!Files
<1>2. \A c, n : Dedup!ActorOf(c, n)' = Dedup!ActorOf(c, n)
  BY <1>1 DEF Dedup!ActorOf
<1>3. \A c : RowOf(c)' = RowOf(c)
  BY <1>2 DEF RowOf
<1>4. \A k : ClipsOf(k)' = ClipsOf(k)
  BY <1>1 DEF ClipsOf
<1>5. \A k : DupsOf(k)' = DupsOf(k)
  BY <1>4 DEF DupsOf, Dedup!Similar
<1>6. \A k : Table(k)' = Table(k)
  BY <1>4, <1>5 DEF Table
<1> QED
  BY <1>1, <1>2, <1>3, <1>4, <1>5, <1>6

\* The rows of a cluster whose actors have all written, and what sorting and marking makes of them.
LEMMA MarkedAre ==
  ASSUME DedupTypes, DedupKeeps, runs > 0, \A c \in Dedup!Files : RowOf(c) \in rows,
         NEW k, NEW order \in Dedup!Orders(k)
  PROVE  /\ {r.clip : r \in Dedup!RowsOf(k)} = ClipsOf(k)
         /\ {r.clip : r \in Dedup!Marked(k, order)} = DupsOf(k)
         /\ Cardinality(Dedup!RowsOf(k)) = Cardinality(ClipsOf(k))
         /\ Cardinality(Dedup!RowsOf(k) \ Dedup!Marked(k, order)) = Cardinality(ClipsOf(k) \ DupsOf(k))
<1> DEFINE R == Dedup!RowsOf(k)
           M == Dedup!Marked(k, order)
<1>1. \A r \in R : r.clip \in ClipsOf(k) /\ r = RowOf(r.clip) /\ r.rank = rank[r.clip]
  BY DEF Dedup!RowsOf, ClipsOf, RowOf, DedupKeeps
<1>2. \A c \in ClipsOf(k) : RowOf(c) \in R /\ RowOf(c).clip = c
  BY DEF Dedup!RowsOf, ClipsOf, RowOf
<1>3. \A c \in ClipsOf(k) : c \in Dedup!Clips /\ rank[c] \in Nat
  BY DedupConstants DEF ClipsOf, DedupTypes, Dedup!Clips
<1>4. order \in [R -> 1 .. Dedup!Cardinality(R)] /\ \A r, s \in R : r.rank < s.rank => order[r] < order[s]
  BY DEF Dedup!Orders, Dedup!Injection
<1>5. \A r, s \in R : order[s] < order[r] <=> s.rank < r.rank
  <2> SUFFICES ASSUME NEW r \in R, NEW s \in R PROVE order[s] < order[r] <=> s.rank < r.rank
    OBVIOUS
  <2>1. r.rank \in Nat /\ s.rank \in Nat /\ order[r] \in Int /\ order[s] \in Int
    BY <1>1, <1>3, <1>4
  <2>2. r.rank = s.rank => r = s
    <3>1. r.clip \in Dedup!Clips /\ s.clip \in Dedup!Clips
      BY <1>1, <1>3
    <3>2. r.rank = s.rank => r.clip = s.clip
      BY <1>1, <3>1 DEF DedupTypes
    <3> QED
      BY <1>1, <3>2
  <2> QED
    BY <1>4, <2>1, <2>2
<1>6. {r.clip : r \in R} = ClipsOf(k)
  BY <1>1, <1>2
<1>7. \A c \in ClipsOf(k) : RowOf(c) \in M <=> c \in DupsOf(k)
  <2> SUFFICES ASSUME NEW c \in ClipsOf(k) PROVE RowOf(c) \in M <=> c \in DupsOf(k)
    OBVIOUS
  <2>1. RowOf(c) \in R /\ RowOf(c).clip = c /\ RowOf(c).rank = rank[c]
    BY <1>2 DEF RowOf
  <2>2. ASSUME RowOf(c) \in M PROVE c \in DupsOf(k)
    <3>1. PICK s \in R : order[s] < order[RowOf(c)] /\ Dedup!Similar(RowOf(c).clip, s.clip)
      BY <2>2 DEF Dedup!Marked
    <3>2. s.clip \in ClipsOf(k) /\ rank[s.clip] < rank[c] /\ Dedup!Similar(c, s.clip)
      BY <1>1, <1>5, <2>1, <3>1
    <3> QED
      BY <3>2 DEF DupsOf
  <2>3. ASSUME c \in DupsOf(k) PROVE RowOf(c) \in M
    <3>1. PICK d \in ClipsOf(k) : rank[d] < rank[c] /\ Dedup!Similar(c, d)
      BY <2>3 DEF DupsOf
    <3>2. RowOf(d) \in R /\ RowOf(d).clip = d /\ RowOf(d).rank = rank[d]
      BY <1>2 DEF RowOf
    <3>3. order[RowOf(d)] < order[RowOf(c)]
      BY <1>5, <2>1, <3>1, <3>2
    <3> QED
      BY <2>1, <3>1, <3>2, <3>3 DEF Dedup!Marked
  <2> QED
    BY <2>2, <2>3
<1>8. M \subseteq R /\ DupsOf(k) \subseteq ClipsOf(k)
  BY DEF Dedup!Marked, DupsOf
<1>9. {r.clip : r \in M} = DupsOf(k)
  BY <1>1, <1>2, <1>7, <1>8
<1>10. IsFiniteSet(ClipsOf(k))
  BY DedupConstants, FS_Subset DEF ClipsOf, DedupTypes
<1>11. ASSUME NEW C \in SUBSET ClipsOf(k), NEW Q, Q = {RowOf(c) : c \in C} PROVE Cardinality(Q) = Cardinality(C)
  <2> DEFINE f == [c \in C |-> RowOf(c)]
  <2>1. f \in Bijection(C, Q)
    <3>1. \A a, b \in C : f[a] = f[b] => a = b
      BY <1>2
    <3> QED
      BY <1>11, <3>1 DEF Bijection, Injection, Surjection, IsInjective
  <2>2. ExistsBijection(C, Q) /\ IsFiniteSet(C)
    BY <1>10, <2>1, FS_Subset DEF ExistsBijection
  <2> QED
    BY <2>2, FS_Bijection
<1>12. R = {RowOf(c) : c \in ClipsOf(k)}
  BY <1>1, <1>2
<1>13. R \ M = {RowOf(c) : c \in ClipsOf(k) \ DupsOf(k)}
  BY <1>1, <1>2, <1>7
<1> QED
  BY <1>6, <1>9, <1>11, <1>12, <1>13

LEMMA JudgedFinite ==
  ASSUME DedupTypes
  PROVE  /\ IsFiniteSet(Dedup!Files) /\ IsFiniteSet(Judged) /\ IsFiniteSet(Kept)
         /\ \A k : IsFiniteSet(ClipsOf(k)) /\ IsFiniteSet(ClipsOf(k) \ DupsOf(k))
<1>1. \A S \in SUBSET Dedup!Clips : IsFiniteSet(S)
  BY DedupConstants, FS_Subset
<1> QED
  BY <1>1 DEF DedupTypes, Judged, Kept, ClipsOf

\* A step of a run; the setup is that of the runs before.
LEMMA DedupStep ==
  ASSUME SameConfig, DedupInv, Dedup!Next
  PROVE  DedupInv'
<1>0. DedupTypes /\ DedupKeeps /\ DedupGoes /\ DedupCounted /\ N \in Nat /\ MaxClusters \in Nat
  BY DedupConstants DEF DedupInv
<1> USE DEF Dedup!input, Dedup!setup
<1>1. ASSUME NEW cfg \in Dedup!Configs, NEW labels \in [Dedup!Clips -> 1 .. cfg.clusters],
             NEW ranks \in Dedup!Injection(Dedup!Clips, Dedup!Clips), Dedup!Run(cfg, labels, ranks)
      PROVE  DedupInv'
  <2>1. /\ phase = "off" /\ phase' = "kmeans" /\ runs' = runs + 1
        /\ config' = cfg /\ label' = labels /\ rank' = ranks
        /\ runs > 0 => config' = config /\ label' = label /\ rank' = rank
        /\ toWrite' = {<<labels[c], Dedup!ActorOf(c, cfg.pool)>> : c \in Dedup!Files}
        /\ toDedup' = 1 .. cfg.clusters /\ counts' = [kept |-> 0, total |-> 0]
        /\ UNCHANGED <<similar, chunks, summary, rows, tables, csv>>
    BY <1>1 DEF Dedup!Run
  <2>2. cfg.clusters \in 1 .. MaxClusters
    BY DEF Dedup!Configs
  <2>3. Dedup!Files' = Dedup!Files /\ \A c, n : Dedup!ActorOf(c, n)' = Dedup!ActorOf(c, n)
    <3>1. Dedup!Files' = Dedup!Files
      BY <2>1 DEF Dedup!Files
    <3> QED
      BY <3>1 DEF Dedup!ActorOf
  <2>4. DedupTypes'
    <3>1. ranks \in [Dedup!Clips -> Dedup!Clips] /\ \A c, d \in Dedup!Clips : ranks[c] = ranks[d] => c = d
      BY DEF Dedup!Injection, Dedup!IsInjective
    <3>2. runs' \in Nat /\ cfg.clusters \in 0 .. MaxClusters
      BY <1>0, <2>1, <2>2 DEF DedupTypes
    <3> QED
      BY <1>0, <2>1, <2>3, <3>1, <3>2 DEF DedupTypes
  <2>5. DedupKeeps'
    <3>1. runs' # 0
      BY <1>0, <2>1 DEF DedupTypes
    <3>2. CASE runs = 0
      <4>1. rows' = {} /\ \A k \in 1 .. MaxClusters : tables'[k] = Dedup!None
        BY <1>0, <2>1, <3>2 DEF DedupKeeps
      <4> QED
        BY <3>1, <4>1 DEF DedupKeeps, Dedup!None
    <3>3. CASE runs # 0
      <4>1. UNCHANGED <<similar, chunks, summary, config, label, rank>>
        BY <1>0, <2>1, <3>3 DEF DedupTypes
      <4> QED
        BY <1>0, <2>1, <3>1, <4>1, DedupFrame DEF DedupKeeps
    <3> QED
      BY <3>2, <3>3
  <2>6. DedupGoes'
    <3>1. \A c \in Dedup!Files' : label'[c] \in 1 .. cfg.clusters
      BY <1>0, <2>1, <2>3 DEF DedupTypes
    <3>2. Judged' = {} /\ Kept' = {}
      BY <2>1, <3>1 DEF Judged, Kept
    <3>3. counts'.kept = 0 /\ counts'.total = 0 /\ Cardinality({}) = 0
      BY <2>1, FS_EmptySet
    <3>4. \A c : Dedup!ActorOf(c, config.pool)' = Dedup!ActorOf(c, cfg.pool)
      BY <2>1, <2>3 DEF Dedup!ActorOf
    <3>5. toWrite' = {<<label[c], Dedup!ActorOf(c, config.pool)>> : c \in Dedup!Files}'
      BY <2>1, <2>3, <3>4
    <3>6. phase' = "kmeans" =>
            /\ toWrite' \subseteq {<<label[c], Dedup!ActorOf(c, config.pool)>> : c \in Dedup!Files}'
            /\ \A c \in Dedup!Files' :
                 <<label[c], Dedup!ActorOf(c, config.pool)>>' \in toWrite' \/ RowOf(c)' \in rows'
            /\ toDedup' = 1 .. config'.clusters
      BY <2>1, <3>5
    <3> QED
      BY <2>1, <3>2, <3>3, <3>6 DEF DedupGoes
  <2>7. DedupCounted'
    <3>1. CASE csv.total > 0
      <4>1. UNCHANGED <<similar, chunks, summary, config, label, rank>>
        BY <1>0, <2>1, <3>1 DEF DedupCounted
      <4>2. runs' > 0
        BY <1>0, <2>1 DEF DedupTypes
      <4>3. {c \in Dedup!Files : c \notin DupsOf(label[c])}' = {c \in Dedup!Files : c \notin DupsOf(label[c])}
        BY <4>1, DedupFrame
      <4> QED
        BY <1>0, <2>1, <3>1, <4>1, <4>2, <4>3, DedupFrame DEF DedupCounted
    <3>2. CASE ~ (csv.total > 0)
      BY <2>1, <3>2 DEF DedupCounted
    <3> QED
      BY <3>1, <3>2
  <2> QED
    BY <2>4, <2>5, <2>6, <2>7 DEF DedupInv
<1>2. ASSUME UNCHANGED <<similar, chunks, summary, config, label, rank, tables, csv, runs>>
      PROVE  DedupCounted' /\ (phase' \in {"off", "kmeans", "dedup", "failed"} => DedupTypes')
  <2>1. {c \in Dedup!Files : c \notin DupsOf(label[c])}' = {c \in Dedup!Files : c \notin DupsOf(label[c])}
    BY <1>2, DedupFrame
  <2>2. DedupCounted'
    BY <1>0, <1>2, <2>1, DedupFrame DEF DedupCounted
  <2>3. phase' \in {"off", "kmeans", "dedup", "failed"} => DedupTypes'
    BY <1>0, <1>2, DedupFrame DEF DedupTypes
  <2> QED
    BY <2>2, <2>3
<1>3. ASSUME UNCHANGED <<similar, chunks, summary, config, label, rank, tables, runs, rows>>, runs > 0
      PROVE  DedupKeeps'
  BY <1>0, <1>3, DedupFrame DEF DedupKeeps
<1>4. phase # "off" => runs > 0
  BY <1>0 DEF DedupKeeps, DedupTypes
<1>5. CASE Dedup!DownloadFails
  <2>1. phase # "off" /\ phase' = "failed"
        /\ UNCHANGED <<similar, chunks, summary, config, label, rank, tables, csv, runs, rows>>
    BY <1>5 DEF Dedup!DownloadFails
  <2>2. DedupGoes'
    BY <2>1 DEF DedupGoes
  <2> QED
    BY <1>2, <1>3, <1>4, <2>1, <2>2 DEF DedupInv
<1>6. CASE Dedup!Dies
  <2>1. phase # "off" /\ phase' = "off"
        /\ UNCHANGED <<similar, chunks, summary, config, label, rank, tables, csv, runs, rows>>
    BY <1>6 DEF Dedup!Dies
  <2>2. DedupGoes'
    BY <2>1 DEF DedupGoes
  <2> QED
    BY <1>2, <1>3, <1>4, <2>1, <2>2 DEF DedupInv
<1>7. CASE Dedup!Clustered
  <2>1. phase = "kmeans" /\ toWrite = {} /\ phase' = "dedup"
        /\ UNCHANGED <<similar, chunks, summary, config, label, rank, tables, csv, runs, rows, toDedup, counts>>
    BY <1>7 DEF Dedup!Clustered
  <2>2. \A c \in Dedup!Files : RowOf(c) \in rows
    BY <1>0, <2>1 DEF DedupGoes
  <2>3. (1 .. config.clusters) \ toDedup = {} /\ toDedup \subseteq 1 .. config.clusters
    BY <1>0, <2>1 DEF DedupGoes
  <2>4. Judged' = Judged /\ Kept' = Kept
    <3>1. Judged' = Judged
      BY <2>1, DedupFrame DEF Judged
    <3> QED
      BY <2>1, <3>1, DedupFrame DEF Kept
  <2>5. DedupGoes'
    BY <1>0, <2>1, <2>2, <2>3, <2>4, DedupFrame DEF DedupGoes
  <2> QED
    BY <1>2, <1>3, <1>4, <2>1, <2>5 DEF DedupInv
<1>8. ASSUME NEW f \in toWrite, Dedup!WriteShard(f) PROVE DedupInv'
  <2>1. /\ phase = "kmeans" /\ Dedup!Files \subseteq chunks /\ toWrite' = toWrite \ {f}
        /\ UNCHANGED <<similar, chunks, summary, config, label, rank, tables, csv, runs, toDedup, counts, phase>>
    BY <1>8 DEF Dedup!WriteShard
  <2>2. rows' = {r \in rows : <<r.cluster, r.actor>> # f} \cup
                {RowOf(c) : c \in {d \in Dedup!Files : <<label[d], Dedup!ActorOf(d, config.pool)>> = f}}
    <3>1. PICK c \in Dedup!Files : f = <<label[c], Dedup!ActorOf(c, config.pool)>>
      BY <1>0, <1>8, <2>1 DEF DedupGoes
    <3>2. {d \in Dedup!Files : label[d] = f[1] /\ Dedup!ActorOf(d, config.pool) = f[2]}
            = {d \in Dedup!Files : <<label[d], Dedup!ActorOf(d, config.pool)>> = f}
      BY <3>1
    <3>3. ASSUME NEW d, label[d] = f[1], Dedup!ActorOf(d, config.pool) = f[2]
          PROVE  [cluster |-> f[1], actor |-> f[2], clip |-> d, rank |-> rank[d]] = RowOf(d)
      BY <3>3 DEF RowOf
    <3> QED
      BY <1>8, <3>2, <3>3 DEF Dedup!WriteShard
  <2>3. \A r \in rows' : r.clip \in Dedup!Files /\ r = RowOf(r.clip)
    BY <1>0, <2>2 DEF DedupKeeps, RowOf
  <2>4. ASSUME NEW c \in Dedup!Files
        PROVE  <<label[c], Dedup!ActorOf(c, config.pool)>> \in toWrite' \/ RowOf(c) \in rows'
    <3>1. CASE <<label[c], Dedup!ActorOf(c, config.pool)>> = f
      BY <2>2, <3>1
    <3>2. CASE <<label[c], Dedup!ActorOf(c, config.pool)>> # f
      <4>1. <<RowOf(c).cluster, RowOf(c).actor>> # f
        BY <3>2 DEF RowOf
      <4> QED
        BY <1>0, <2>1, <2>2, <3>2, <4>1 DEF DedupGoes
    <3> QED
      BY <3>1, <3>2
  <2>5. DedupKeeps'
    BY <1>0, <1>4, <2>1, <2>3, DedupFrame DEF DedupKeeps
  <2>6. Judged' = Judged /\ Kept' = Kept
    <3>1. Judged' = Judged
      BY <2>1, DedupFrame DEF Judged
    <3> QED
      BY <2>1, <3>1, DedupFrame DEF Kept
  <2>7. toWrite' \subseteq {<<label[c], Dedup!ActorOf(c, config.pool)>> : c \in Dedup!Files}
    BY <1>0, <2>1 DEF DedupGoes
  <2>8. DedupGoes'
    BY <1>0, <2>1, <2>4, <2>6, <2>7, DedupFrame DEF DedupGoes
  <2>9. phase' \in {"off", "kmeans", "dedup", "failed"}
    BY <2>1
  <2> QED
    BY <1>2, <2>1, <2>5, <2>8, <2>9 DEF DedupInv
<1>9. CASE Dedup!Summarise
  <2>1. /\ phase = "dedup" /\ toDedup = {} /\ phase' = "off" /\ csv' = counts
        /\ UNCHANGED <<similar, chunks, summary, config, label, rank, tables, runs, rows>>
    BY <1>9 DEF Dedup!Summarise
  <2>2. Judged = Dedup!Files /\ Kept = {c \in Dedup!Files : c \notin DupsOf(label[c])}
    BY <2>1 DEF Judged, Kept
  <2>3. /\ csv'.total = Cardinality(Dedup!Files)
        /\ csv'.kept = Cardinality({c \in Dedup!Files : c \notin DupsOf(label[c])})
        /\ \A k \in 1 .. config.clusters : tables[k] = Table(k)
    BY <1>0, <2>1, <2>2 DEF DedupGoes
  <2>4. {c \in Dedup!Files : c \notin DupsOf(label[c])}' = {c \in Dedup!Files : c \notin DupsOf(label[c])}
    BY <2>1, DedupFrame
  <2>5. DedupCounted'
    BY <1>4, <2>1, <2>3, <2>4, DedupFrame DEF DedupCounted
  <2>6. DedupTypes'
    BY <1>0, <2>1, DedupFrame DEF DedupTypes
  <2>7. DedupGoes'
    BY <2>1 DEF DedupGoes
  <2> QED
    BY <1>3, <1>4, <2>1, <2>5, <2>6, <2>7 DEF DedupInv
<1>10. ASSUME NEW k \in toDedup, NEW order \in Dedup!Orders(k), Dedup!Dedup(k, order) PROVE DedupInv'
  <2> DEFINE R == Dedup!RowsOf(k)
             M == Dedup!Marked(k, order)
  <2>1. /\ phase = "dedup" /\ toDedup' = toDedup \ {k} /\ runs > 0
        /\ UNCHANGED <<similar, chunks, summary, config, label, rank, csv, runs, rows, phase>>
    BY <1>4, <1>10 DEF Dedup!Dedup
  <2>2. /\ {r.clip : r \in R} = ClipsOf(k) /\ {r.clip : r \in M} = DupsOf(k)
        /\ Cardinality(R) = Cardinality(ClipsOf(k))
        /\ Cardinality(R \ M) = Cardinality(ClipsOf(k) \ DupsOf(k))
    BY <1>0, <2>1, MarkedAre DEF DedupGoes
  <2>3. k \in 1 .. config.clusters /\ k \in 1 .. MaxClusters
    <3>1. k \in 1 .. config.clusters
      BY <1>0, <2>1 DEF DedupGoes
    <3> QED
      BY <1>0, <3>1 DEF DedupTypes
  <2>4. /\ tables' \in [1 .. MaxClusters -> [ids : SUBSET Dedup!Clips, dups : SUBSET Dedup!Clips]]
        /\ tables'[k] = Table(k) /\ \A j \in 1 .. MaxClusters : j # k => tables'[j] = tables[j]
        /\ rows = {} => \A j \in 1 .. MaxClusters : tables'[j] = tables[j]
        /\ counts'.total = counts.total + Cardinality(ClipsOf(k))
        /\ counts'.kept = counts.kept + Cardinality(ClipsOf(k) \ DupsOf(k))
    <3>1. ClipsOf(k) \subseteq Dedup!Clips /\ DupsOf(k) \subseteq Dedup!Clips
      BY <1>0 DEF ClipsOf, DupsOf, DedupTypes
    <3>2. CASE R = {}
      <4>1. ClipsOf(k) = {} /\ DupsOf(k) = {} /\ tables' = tables /\ counts' = counts
        BY <1>10, <2>2, <3>2 DEF Dedup!Dedup, DupsOf
      <4>2. Table(k) = Dedup!None
        BY <4>1 DEF Table, Dedup!None
      <4>3. Cardinality(ClipsOf(k)) = 0 /\ Cardinality(ClipsOf(k) \ DupsOf(k)) = 0
        BY <4>1, FS_EmptySet
      <4>4. counts.total \in Nat /\ counts.kept \in Nat
        BY <1>0, <2>1, JudgedFinite, FS_CardinalityType DEF DedupGoes
      <4> QED
        BY <1>0, <2>3, <4>1, <4>2, <4>3, <4>4 DEF DedupKeeps, DedupTypes
    <3>3. CASE R # {}
      <4>1. tables' = [tables EXCEPT ![k] = Table(k)]
        BY <1>10, <2>2, <3>3 DEF Dedup!Dedup, Table
      <4>2. rows # {}
        BY <3>3 DEF Dedup!RowsOf
      <4>3. Table(k) \in [ids : SUBSET Dedup!Clips, dups : SUBSET Dedup!Clips]
        BY <3>1 DEF Table
      <4>4. counts' = [kept  |-> counts.kept + Cardinality(ClipsOf(k) \ DupsOf(k)),
                       total |-> counts.total + Cardinality(ClipsOf(k))]
        BY <1>10, <2>2, <3>3, DedupCards DEF Dedup!Dedup
      <4> QED
        BY <1>0, <2>3, <4>1, <4>2, <4>3, <4>4 DEF DedupTypes
    <3> QED
      BY <3>2, <3>3
  <2>5. DedupTypes'
    BY <1>0, <2>1, <2>4, DedupFrame DEF DedupTypes
  <2>6. rows # {} => Dedup!Files \subseteq chunks
    BY <1>0 DEF DedupKeeps
  <2>7. DedupKeeps'
    <3>1. ASSUME NEW j \in 1 .. MaxClusters
          PROVE  tables'[j] \in {Dedup!None, Table(j)} /\ (tables'[j].dups # {} => Dedup!Files \subseteq chunks)
      <4>1. tables[j] \in {Dedup!None, Table(j)} /\ (tables[j].dups # {} => Dedup!Files \subseteq chunks)
        BY <1>0 DEF DedupKeeps
      <4> QED
        BY <2>4, <2>6, <4>1
    <3>2. \A r \in rows : r.clip \in Dedup!Files /\ r = RowOf(r.clip)
      BY <1>0 DEF DedupKeeps
    <3> QED
      BY <2>1, <2>6, <3>1, <3>2, DedupFrame DEF DedupKeeps, Dedup!None
  <2>8. Judged' = Judged \cup ClipsOf(k) /\ Judged \cap ClipsOf(k) = {}
    <3>1. Judged' = {c \in Dedup!Files : label[c] \notin toDedup \ {k}}
      BY <2>1, DedupFrame DEF Judged
    <3> QED
      BY <1>10, <3>1 DEF Judged, ClipsOf
  <2>9. Kept' = Kept \cup (ClipsOf(k) \ DupsOf(k)) /\ Kept \cap (ClipsOf(k) \ DupsOf(k)) = {}
    <3>1. Kept' = {c \in Judged' : c \notin DupsOf(label[c])}
      BY <2>1, DedupFrame DEF Kept
    <3> QED
      BY <2>8, <3>1 DEF Kept, ClipsOf
  <2>10. /\ Cardinality(Judged') = Cardinality(Judged) + Cardinality(ClipsOf(k))
         /\ Cardinality(Kept') = Cardinality(Kept) + Cardinality(ClipsOf(k) \ DupsOf(k))
    <3>1. IsFiniteSet(Judged) /\ IsFiniteSet(Kept) /\ IsFiniteSet(ClipsOf(k)) /\ IsFiniteSet(ClipsOf(k) \ DupsOf(k))
      BY <1>0, JudgedFinite
    <3>2. /\ Cardinality(Judged) \in Nat /\ Cardinality(Kept) \in Nat
          /\ Cardinality(ClipsOf(k)) \in Nat /\ Cardinality(ClipsOf(k) \ DupsOf(k)) \in Nat
      BY <3>1, FS_CardinalityType
    <3>3. Cardinality(Judged') = Cardinality(Judged) + Cardinality(ClipsOf(k)) - Cardinality({})
      BY <2>8, <3>1, FS_Union
    <3>4. Cardinality(Kept') = Cardinality(Kept) + Cardinality(ClipsOf(k) \ DupsOf(k)) - Cardinality({})
      BY <2>9, <3>1, FS_Union
    <3> QED
      BY <3>2, <3>3, <3>4, FS_EmptySet
  <2>11. ASSUME NEW j \in (1 .. config.clusters) \ toDedup' PROVE tables'[j] = Table(j)
    <3>1. j \in 1 .. MaxClusters
      BY <1>0 DEF DedupTypes
    <3> QED
      BY <1>0, <2>1, <2>4, <3>1 DEF DedupGoes
  <2>12. DedupGoes'
    <3>1. \A c \in Dedup!Files : RowOf(c) \in rows
      BY <1>0, <2>1 DEF DedupGoes
    <3>2. toDedup' \subseteq 1 .. config.clusters
      BY <1>0, <2>1 DEF DedupGoes
    <3>3. counts'.kept = Cardinality(Kept') /\ counts'.total = Cardinality(Judged')
      BY <1>0, <2>1, <2>4, <2>10 DEF DedupGoes
    <3> QED
      BY <2>1, <2>11, <3>1, <3>2, <3>3, DedupFrame DEF DedupGoes
  <2>13. DedupCounted'
    <3>1. {c \in Dedup!Files : c \notin DupsOf(label[c])}' = {c \in Dedup!Files : c \notin DupsOf(label[c])}
      BY <2>1, DedupFrame
    <3>2. ASSUME csv.total > 0, NEW j \in 1 .. config.clusters PROVE tables'[j] = Table(j)
      <4>1. tables[j] = Table(j) /\ j \in 1 .. MaxClusters
        BY <1>0, <3>2 DEF DedupCounted, DedupTypes
      <4> QED
        BY <2>4, <4>1
    <3> QED
      BY <1>0, <2>1, <3>1, <3>2, DedupFrame DEF DedupCounted
  <2> QED
    BY <2>5, <2>7, <2>12, <2>13 DEF DedupInv
<1> QED
  BY <1>1, <1>5, <1>6, <1>7, <1>8, <1>9, <1>10 DEF Dedup!Next

LEMMA DedupRests ==
  ASSUME DedupInv, UNCHANGED dedupVars
  PROVE  DedupInv'
<1>1. /\ UNCHANGED <<similar, chunks, summary, config, label, rank>>
      /\ UNCHANGED <<phase, toWrite, rows, toDedup, tables, counts, csv, runs>>
  BY DEF dedupVars
<1>2. DedupTypes' /\ DedupKeeps'
  BY <1>1, DedupFrame DEF DedupInv, DedupTypes, DedupKeeps
<1>3. Judged' = Judged /\ Kept' = Kept
  <2>1. Judged' = Judged
    BY <1>1, DedupFrame DEF Judged
  <2> QED
    BY <1>1, <2>1, DedupFrame DEF Kept
<1>4. DedupGoes'
  BY <1>1, <1>3, DedupFrame DEF DedupInv, DedupGoes
<1>5. {c \in Dedup!Files : c \notin DupsOf(label[c])}' = {c \in Dedup!Files : c \notin DupsOf(label[c])}
  BY <1>1, DedupFrame
<1>6. DedupCounted'
  BY <1>1, <1>5, DedupFrame DEF DedupInv, DedupCounted
<1> QED
  BY <1>2, <1>4, <1>6 DEF DedupInv

\* A clip that is left out is joined to one that stays: the one furthest from the centroid of
\* those that it is joined to.
LEMMA GroupIsKept ==
  ASSUME DedupInv
  PROVE  Dedup!GroupKept
<1>0. DedupTypes /\ DedupKeeps
  BY DEF DedupInv
<1>1. ASSUME NEW c \in Dedup!Removed
      PROVE  /\ c \in Dedup!Files /\ c \in Dedup!Clips /\ Dedup!Files \subseteq chunks /\ runs > 0
             /\ c \in DupsOf(label[c])
  <2>1. PICK k \in 1 .. MaxClusters : c \in tables[k].dups
    BY DEF Dedup!Removed
  <2>2. tables[k] = Table(k) /\ Dedup!Files \subseteq chunks
    BY <1>0, <2>1 DEF DedupKeeps, Dedup!None
  <2>3. c \in DupsOf(k) /\ c \in ClipsOf(k)
    BY <2>1, <2>2 DEF Table, DupsOf
  <2>4. runs > 0
    BY <1>0, <2>1 DEF DedupKeeps, DedupTypes, Dedup!None
  <2> QED
    BY <1>0, <2>2, <2>3, <2>4 DEF ClipsOf, DedupTypes
<1> DEFINE S == {n \in Nat : \A c \in Dedup!Removed : rank[c] <= n =>
                               \E d \in chunks \ Dedup!Removed : Dedup!Joined(c, d)}
<1>2. \A c \in Dedup!Removed : rank[c] \in Nat \ {0}
  <2>1. \A c \in Dedup!Removed : rank[c] \in Dedup!Clips
    BY <1>0, <1>1 DEF DedupTypes
  <2> QED
    BY <2>1, DedupConstants DEF Dedup!Clips
<1>3. 0 \in S
  BY <1>2
<1>4. ASSUME NEW n \in Nat, n \in S PROVE n + 1 \in S
  <2> SUFFICES ASSUME NEW c \in Dedup!Removed, rank[c] <= n + 1
               PROVE  \E d \in chunks \ Dedup!Removed : Dedup!Joined(c, d)
    OBVIOUS
  <2>1. PICK d \in ClipsOf(label[c]) : rank[d] < rank[c] /\ Dedup!Similar(c, d)
    BY <1>1 DEF DupsOf
  <2>2. d \in Dedup!Files /\ d \in Dedup!Clips /\ d \in chunks /\ rank[d] \in Nat
    <3>1. d \in Dedup!Files /\ d \in Dedup!Clips /\ d \in chunks /\ rank[d] \in Dedup!Clips
      BY <1>0, <1>1, <2>1 DEF ClipsOf, DedupTypes
    <3> QED
      BY <3>1, DedupConstants DEF Dedup!Clips
  <2>3. Dedup!Joined(c, d)
    BY <2>1, <2>2 DEF Dedup!Joined
  <2>4. CASE d \in Dedup!Removed
    <3>1. rank[d] <= n
      BY <1>2, <2>1, <2>2
    <3>2. PICK e \in chunks \ Dedup!Removed : Dedup!Joined(d, e)
      BY <1>4, <2>4, <3>1
    <3>3. Dedup!Joined(c, e)
      BY <2>3, <3>2 DEF Dedup!Joined
    <3> QED
      BY <3>2, <3>3
  <2> QED
    BY <2>2, <2>3, <2>4
<1>5. \A n \in Nat : n \in S
  <2> HIDE DEF S
  <2> QED
    BY <1>3, <1>4, Induction
<1> QED
  BY <1>2, <1>5 DEF Dedup!GroupKept

LEMMA SummaryIsTrue ==
  ASSUME DedupInv
  PROVE  Dedup!SummaryAgrees
<1> SUFFICES ASSUME csv.total > 0
             PROVE  /\ csv.total = Cardinality(Dedup!Files)
                    /\ csv.total - csv.kept = Cardinality(Dedup!Removed)
  BY DedupCards DEF Dedup!SummaryAgrees
<1>0. DedupTypes /\ DedupCounted /\ DedupKeeps /\ MaxClusters \in Nat
  BY DedupConstants DEF DedupInv
<1> DEFINE K == {c \in Dedup!Files : c \notin DupsOf(label[c])}
<1>1. /\ csv.total = Cardinality(Dedup!Files) /\ csv.kept = Cardinality(K)
      /\ runs > 0 /\ \A k \in 1 .. config.clusters : tables[k] = Table(k)
  BY <1>0 DEF DedupCounted
<1>2. Dedup!Removed = Dedup!Files \ K
  <2>1. ASSUME NEW c \in Dedup!Removed PROVE c \in Dedup!Files \ K
    <3>1. PICK k \in 1 .. MaxClusters : c \in tables[k].dups
      BY <2>1 DEF Dedup!Removed
    <3>2. c \in DupsOf(k) /\ c \in ClipsOf(k)
      BY <1>0, <3>1 DEF DedupKeeps, Dedup!None, Table, DupsOf
    <3> QED
      BY <3>2 DEF ClipsOf
  <2>2. ASSUME NEW c \in Dedup!Files \ K PROVE c \in Dedup!Removed
    <3>1. c \in Dedup!Clips /\ c \in DupsOf(label[c]) /\ label[c] \in 1 .. config.clusters
      BY <1>0, <1>1, <2>2 DEF DedupTypes
    <3>2. PICK k \in 1 .. config.clusters : k = label[c]
      BY <3>1
    <3>3. k \in 1 .. MaxClusters
      BY <1>0 DEF DedupTypes
    <3>4. c \in tables[k].dups
      <4>1. tables[k] = Table(k)
        BY <1>1
      <4>2. Table(k).dups = DupsOf(k)
        BY DEF Table
      <4> QED
        BY <3>1, <3>2, <4>1, <4>2
    <3> QED
      BY <3>3, <3>4 DEF Dedup!Removed
  <2> QED
    BY <2>1, <2>2
<1>3. IsFiniteSet(Dedup!Files) /\ Dedup!Files \cap K = K /\ IsFiniteSet(K)
  BY <1>0, JudgedFinite, FS_Subset
<1>4. Cardinality(Dedup!Removed) = Cardinality(Dedup!Files) - Cardinality(K)
  <2> HIDE DEF K
  <2> QED
    <3>1. Cardinality(Dedup!Files \ K) = Cardinality(Dedup!Files) - Cardinality(Dedup!Files \cap K)
      BY <1>3, FS_Difference
    <3> QED
      BY <1>2, <1>3, <3>1
<1> QED
  BY <1>1, <1>4

\* Of the clips that are joined by similarity one stays at least, and the summary tells what is
\* left out, for any number of clips, clusters, actors and runs over one configuration.
THEOREM DedupIsSound ==
  ASSUME SameConfig
  PROVE  PartSpec => []DedupSound
<1>1. PartInit => DedupInv
  BY DedupInit DEF PartInit, Dedup!Init
<1>2. DedupInv /\ [PartNext]_partVars => DedupInv'
  <2> SUFFICES ASSUME DedupInv, [PartNext]_partVars PROVE DedupInv'
    OBVIOUS
  <2>1. CASE part = "dedup" /\ Dedup!Next
    BY <2>1, DedupStep
  <2>2. CASE UNCHANGED dedupVars
    BY <2>2, DedupRests
  <2> QED
    BY <2>1, <2>2 DEF PartNext, partVars
<1>3. DedupInv => DedupSound
  BY GroupIsKept, SummaryIsTrue DEF DedupSound, Dedup!DedupSound
<1> QED
  BY <1>1, <1>2, <1>3, PTL DEF PartSpec

-----------------------------------------------------------------------------
(* RayDataSplit: captions stand under their windows, and a summary says what  *)
(* the metadata says, for any videos, jobs, runs and batches.                 *)

\* A list of spans without two that start at the same time.
SpansHold(q) ==
  /\ q \in Seq(Nat \X Nat)
  /\ \A i, k \in DOMAIN q : q[i][1] = q[k][1] => i = k

\* What may stand in a window: nothing, or what the engine said about this very window.
SaidOf(c, n) == {RayData!Nothing} \cup {[about |-> <<c, n>>, how |-> how] : how \in Outcomes}

WindowsHold(c, q) ==
  /\ q \in Seq([index : Nat, said : UNION {SaidOf(c, n) : n \in Nat}])
  /\ \A i \in DOMAIN q : /\ q[i].index > 0 => q[i].index <= c[3] - c[2]
                        /\ q[i].said \in SaidOf(c, q[i].index)
  /\ \A i, k \in DOMAIN q : i < k => q[i].index < q[k].index

MetaHome(c, m) ==
  \A i \in DOMAIN m :
    /\ m[i].index \in 1 .. (c[3] - c[2])
    /\ i > 1 => m[i - 1].index < m[i].index
    /\ m[i].caption \in {<<>>, <<c, m[i].index>>}
    /\ m[i].caption = <<>> <=> m[i].status = "error"

Filled(q) == \A i \in DOMAIN q : q[i].index > 0 => q[i].said # RayData!Nothing

RayTypes ==
  /\ job \in RayJobs
  /\ rayPhase \in {"idle", "running", "failed", "done"}
  /\ video \in [RayVideos -> {"listed", "read", "split", "gone"}]
  /\ spans \in [RayVideos -> Seq(Nat \X Nat)]
  /\ \A v \in RayVideos : SpansHold(spans[v])
  /\ IsFiniteSet(DOMAIN rayRows)
  /\ DOMAIN metas \subseteq DOMAIN mp4s

\* A row of a clip, by the stage that it has reached.
RowHolds(c) ==
  /\ c[1] \in RayVideos /\ c[2] \in Nat /\ c[3] \in Nat /\ video[c[1]] = "gone"
  /\ rayRows[c] = [at |-> rayRows[c].at, torn |-> rayRows[c].torn, windows |-> rayRows[c].windows]
  /\ rayRows[c].at \in {"clip", "written", "windowed", "asked", "captioned", "out"}
  /\ WindowsHold(c, rayRows[c].windows)
  /\ rayRows[c].at \in {"clip", "written"} => rayRows[c].windows = <<>>
  /\ rayRows[c].at # "clip" => c \in DOMAIN mp4s
  /\ rayRows[c].at \in {"captioned", "out"} => Filled(rayRows[c].windows)
  /\ rayRows[c].at = "out" =>
       c \in DOMAIN metas /\ metas[c] = RayData!Meta(rayRows[c].windows)

RowsHold ==
  /\ \A c \in DOMAIN rayRows : RowHolds(c)
  /\ \A c, d \in DOMAIN rayRows : c[1] = d[1] /\ c[2] = d[2] => c = d

\* A batch knows the place of each of its windows, and which ones have been answered.
Places(b, k) == rayRows[b.requests[k][1]].windows[b.requests[k][2]]

BatchHolds(b) ==
  /\ b = [clips |-> b.clips, requests |-> b.requests, over |-> b.over]
  /\ b.clips \subseteq DOMAIN rayRows /\ b.clips # {}
  /\ \A c \in b.clips : rayRows[c].at = "asked"
  /\ \A k \in DOMAIN b.requests :
       b.requests[k][1] \in b.clips /\ b.requests[k][2] \in DOMAIN rayRows[b.requests[k][1]].windows
  /\ \A c \in b.clips : \A i \in DOMAIN rayRows[c].windows :
       rayRows[c].windows[i].index > 0 =>
         \E k \in DOMAIN b.requests : b.requests[k][1] = c /\ b.requests[k][2] = i
  /\ \A k \in b.over : k \in DOMAIN b.requests /\ Places(b, k).said # RayData!Nothing

BatchesHold ==
  /\ \A b \in batches : BatchHolds(b)
  /\ \A a, b \in batches : a.clips \cap b.clips # {} => a = b

\* Runs: a batch is of one that goes on, and one that is done has put out all its rows.
RunHolds ==
  /\ rayPhase # "running" => batches = {}
  /\ rayPhase = "done" => \A c \in DOMAIN rayRows : rayRows[c].at = "out"

RayGoes ==
  /\ RayTypes /\ RowsHold /\ BatchesHold
  /\ \A c \in DOMAIN metas : MetaHome(c, metas[c])

RayInv == RayGoes /\ RunHolds /\ RayData!SummaryTrue

\* The operators of the library, in the instance and here.
LEMMA RaySets ==
  /\ \A S : RayData!SetToSeqs(S) = SetToSeqs(S)
  /\ \A S : RayData!Cardinality(S) = Cardinality(S)
  /\ \A q : RayData!ToSet(q) = ToSet(q)
  /\ \A q : RayData!FlattenSeq(q) = FlattenSeq(q)
  /\ \A S : RayData!SetToSeq(S) = SetToSeq(S)
<1>1. \A S : RayData!Cardinality(S) = Cardinality(S)
  BY DEF RayData!Cardinality, Cardinality
<1>2. \A S : RayData!SetToSeqs(S) = SetToSeqs(S)
  BY <1>1, Zenon DEF RayData!SetToSeqs, SetToSeqs
<1>3. \A q : RayData!ToSet(q) = ToSet(q)
  BY DEF RayData!ToSet, ToSet
<1>4. \A q : RayData!FlattenSeq(q) = FlattenSeq(q)
  BY Zenon DEF RayData!FlattenSeq, FlattenSeq
<1>5. \A S : RayData!SetToSeq(S) = SetToSeq(S)
  BY <1>1, Zenon DEF RayData!SetToSeq, SetToSeq, RayData!IsInjective, IsInjective
<1> QED
  BY <1>1, <1>2, <1>3, <1>4, <1>5

\* Numbers in order.
LEMMA Increasing ==
  ASSUME NEW S, IsFiniteSet(S), S \subseteq Nat
  PROVE  LET q == RayData!InOrder(S, <) IN
         /\ q \in Seq(S) /\ IsInjective(q) /\ ToSet(q) = S
         /\ \A i, k \in DOMAIN q : i < k => q[i] < q[k]
<1> DEFINE q == RayData!InOrder(S, <)
           R == {p \in S \X S : p[1] < p[2]}
<1>1. \A x, y \in S : <<x, y>> \in R <=> x < y
  OBVIOUS
<1>2. PICK p \in SetToSeqs(S) : \A i, k \in DOMAIN p : i < k => <<p[i], p[k]>> \in R
  <2> HIDE DEF R
  <2>1. \A x \in S : <<x, x>> \notin R
    BY <1>1
  <2>2. \A x, y, z \in S : <<x, y>> \in R /\ <<y, z>> \in R => <<x, z>> \in R
    BY <1>1
  <2>3. \A x, y \in S : x # y => <<x, y>> \in R \/ <<y, x>> \in R
    BY <1>1
  <2> QED
    BY ONLY IsFiniteSet(S), <2>1, <2>2, <2>3, SortedOnce
<1>3. p \in RayData!SetToSeqs(S) /\ \A i, k \in DOMAIN p : i < k => p[i] < p[k]
  BY <1>2, RaySets
<1>4. q \in RayData!SetToSeqs(S) /\ \A i, k \in DOMAIN q : i < k => q[i] < q[k]
  BY <1>3, Zenon DEF RayData!InOrder
<1> HIDE DEF q
<1> QED
  BY <1>4, RaySets, ArrangedOnce DEF q

\* Clips in the order of time.
LEMMA InTime ==
  ASSUME NEW S, IsFiniteSet(S), \A c \in S : c[2] \in Nat, \A c, d \in S : c[2] = d[2] => c = d
  PROVE  LET q == RayData!InOrder(S, LAMBDA c, d : c[2] < d[2]) IN
         /\ q \in Seq(S) /\ ToSet(q) = S
         /\ \A i, k \in DOMAIN q : i < k => q[i][2] < q[k][2]
<1> DEFINE q == RayData!InOrder(S, LAMBDA c, d : c[2] < d[2])
           R == {p \in S \X S : p[1][2] < p[2][2]}
<1>1. \A x, y \in S : <<x, y>> \in R <=> x[2] < y[2]
  OBVIOUS
<1>2. PICK p \in SetToSeqs(S) : \A i, k \in DOMAIN p : i < k => <<p[i], p[k]>> \in R
  <2> HIDE DEF R
  <2>1. \A x \in S : <<x, x>> \notin R
    BY <1>1
  <2>2. \A x, y, z \in S : <<x, y>> \in R /\ <<y, z>> \in R => <<x, z>> \in R
    BY <1>1
  <2>3. \A x, y \in S : x # y => <<x, y>> \in R \/ <<y, x>> \in R
    BY <1>1
  <2> QED
    BY <2>1, <2>2, <2>3, SortedOnce
<1>3. p \in RayData!SetToSeqs(S) /\ \A i, k \in DOMAIN p : i < k => p[i][2] < p[k][2]
  BY <1>2, RaySets
<1>4. q \in RayData!SetToSeqs(S) /\ \A i, k \in DOMAIN q : i < k => q[i][2] < q[k][2]
  BY <1>3, Zenon DEF RayData!InOrder
<1> HIDE DEF q
<1> QED
  BY <1>4, RaySets, ArrangedOnce DEF q

\* The places that the engine is asked about: those of the windows with frames, in order.
LEMMA AskedAre ==
  ASSUME NEW q, NEW n \in Nat, DOMAIN q = 1 .. n, \A i \in DOMAIN q : q[i].index \in Nat,
         \A i, k \in DOMAIN q : i < k => q[i].index < q[k].index
  PROVE  LET p == RayData!Asked(q) IN
         /\ p \in Seq({i \in DOMAIN q : q[i].index > 0}) /\ ToSet(p) = {i \in DOMAIN q : q[i].index > 0}
         /\ \A i, k \in DOMAIN p : i < k => q[p[i]].index < q[p[k]].index
<1> DEFINE S == {i \in DOMAIN q : q[i].index > 0}
           a == RayData!Asked(q)
           R == {p \in S \X S : q[p[1]].index < q[p[2]].index}
<1>1. \A x, y \in S : <<x, y>> \in R <=> q[x].index < q[y].index
  OBVIOUS
<1>2. \A x, y \in S : x # y => q[x].index < q[y].index \/ q[y].index < q[x].index
  <2> SUFFICES ASSUME NEW x \in S, NEW y \in S, x # y
               PROVE  q[x].index < q[y].index \/ q[y].index < q[x].index
    OBVIOUS
  <2>1. x < y \/ y < x
    OBVIOUS
  <2> QED
    BY <2>1
<1>3. \A x \in S : q[x].index \in Nat
  OBVIOUS
<1>4. IsFiniteSet(S)
  <2>1. IsFiniteSet(1 .. n)
    BY FS_Interval
  <2> QED
    BY <2>1, FS_Subset
<1>5. a = RayData!InOrder(S, LAMBDA i, k : q[i].index < q[k].index)
  BY Zenon DEF RayData!Asked
<1> HIDE DEF S, a
<1>6. PICK p \in SetToSeqs(S) : \A i, k \in DOMAIN p : i < k => <<p[i], p[k]>> \in R
  <2> HIDE DEF R
  <2>1. \A x \in S : <<x, x>> \notin R
    BY <1>1, <1>3
  <2>2. \A x, y, z \in S : <<x, y>> \in R /\ <<y, z>> \in R => <<x, z>> \in R
    BY <1>1, <1>3
  <2>3. \A x, y \in S : x # y => <<x, y>> \in R \/ <<y, x>> \in R
    BY <1>1, <1>2
  <2> QED
    BY <1>4, <2>1, <2>2, <2>3, SortedOnce
<1>7. p \in RayData!SetToSeqs(S) /\ \A i, k \in DOMAIN p : i < k => q[p[i]].index < q[p[k]].index
  BY <1>6, RaySets
<1>8. a \in RayData!SetToSeqs(S) /\ \A i, k \in DOMAIN a : i < k => q[a[i]].index < q[a[k]].index
  BY <1>5, <1>7, Zenon DEF RayData!InOrder
<1>9. a \in Seq(S) /\ ToSet(a) = S
  BY <1>4, <1>8, RaySets, ArrangedOnce
<1> QED
  BY <1>8, <1>9 DEF S, a

\* The metadata of a clip whose windows hold what was said about them.
LEMMA MetaIs ==
  ASSUME NEW c, c[2] \in Nat, c[3] \in Nat, NEW q, WindowsHold(c, q)
  PROVE  LET m == RayData!Meta(q) IN
         /\ MetaHome(c, m)
         /\ \A i \in DOMAIN q : q[i].index > 0 => \E k \in DOMAIN m : m[k].index = q[i].index
         /\ RayData!NumWindows(q) = Cardinality({i \in DOMAIN m : m[i].caption # <<>>})
<1> DEFINE m == RayData!Meta(q)
           p == RayData!Asked(q)
<1>1. PICK n \in Nat : DOMAIN q = 1 .. n
  BY DEF WindowsHold
<1>2. ASSUME NEW i \in DOMAIN q
      PROVE  /\ q[i].index \in Nat /\ (q[i].index > 0 => q[i].index <= c[3] - c[2])
             /\ q[i].said \in SaidOf(c, q[i].index)
  <2>1. q[i] \in [index : Nat, said : UNION {SaidOf(c, j) : j \in Nat}]
    <3> DEFINE X == [index : Nat, said : UNION {SaidOf(c, j) : j \in Nat}]
    <3>1. q \in Seq(X)
      BY Zenon DEF WindowsHold
    <3> HIDE DEF X
    <3>2. q[i] \in X
      BY <3>1, ElementOfSeq
    <3> QED
      BY <3>2, Zenon DEF X
  <2>2. q[i].index \in Nat
    BY <2>1
  <2> QED
    BY <2>2 DEF WindowsHold
<1>3. /\ p \in Seq({i \in DOMAIN q : q[i].index > 0}) /\ ToSet(p) = {i \in DOMAIN q : q[i].index > 0}
      /\ \A i, k \in DOMAIN p : i < k => q[p[i]].index < q[p[k]].index
  BY <1>1, <1>2, AskedAre DEF WindowsHold
<1> HIDE DEF p
<1>4. PICK l \in Nat : DOMAIN p = 1 .. l
  BY <1>3
<1>5. \A i \in DOMAIN p : p[i] \in DOMAIN q /\ q[p[i]].index > 0
  BY <1>3, ElementOfSeq
<1>6. m = [i \in DOMAIN p |-> RayData!Window(q[p[i]])]
  BY DEF RayData!Meta, p
<1>7. ASSUME NEW i \in DOMAIN p
      PROVE  /\ m[i].index = q[p[i]].index
             /\ m[i].caption = IF RayData!Answered(q[p[i]]) THEN <<c, m[i].index>> ELSE <<>>
             /\ m[i].status = "error" <=> ~ RayData!Answered(q[p[i]])
  <2>1. m[i] = RayData!Window(q[p[i]])
    BY <1>6
  <2>2. q[p[i]].said \in SaidOf(c, q[p[i]].index)
    BY <1>2, <1>5
  <2>3. RayData!Answered(q[p[i]]) => q[p[i]].said.about = <<c, q[p[i]].index>>
    BY <2>2 DEF SaidOf, RayData!Answered, RayData!Nothing
  <2> QED
    BY <2>1, <2>3 DEF RayData!Window, RayData!Answered
<1>8. DOMAIN m = DOMAIN p
  BY <1>6
<1> HIDE DEF m
<1>9. \A x : <<c, x>> # <<>>
  OBVIOUS
<1>10. MetaHome(c, m)
  <2> SUFFICES ASSUME NEW i \in DOMAIN m
               PROVE  /\ m[i].index \in 1 .. (c[3] - c[2])
                      /\ i > 1 => m[i - 1].index < m[i].index
                      /\ m[i].caption \in {<<>>, <<c, m[i].index>>}
                      /\ m[i].caption = <<>> <=> m[i].status = "error"
    BY Zenon DEF MetaHome
  <2>1. m[i].index \in 1 .. (c[3] - c[2])
    <3>1. p[i] \in DOMAIN q /\ q[p[i]].index > 0 /\ m[i].index = q[p[i]].index
      BY <1>5, <1>7, <1>8
    <3>2. q[p[i]].index \in Nat /\ q[p[i]].index <= c[3] - c[2]
      BY <1>2, <3>1
    <3> QED
      BY <3>1, <3>2
  <2>2. ASSUME i > 1 PROVE m[i - 1].index < m[i].index
    <3>1. i - 1 \in DOMAIN p /\ i \in DOMAIN p /\ i - 1 < i
      BY <1>4, <1>8, <2>2
    <3> QED
      BY <1>3, <1>7, <3>1
  <2> QED
    BY <1>7, <1>8, <1>9, <2>1, <2>2
<1>11. ASSUME NEW i \in DOMAIN q, q[i].index > 0 PROVE \E k \in DOMAIN m : m[k].index = q[i].index
  <2>1. i \in ToSet(p)
    BY <1>3, <1>11
  <2>2. PICK k \in DOMAIN p : p[k] = i
    BY <2>1 DEF ToSet
  <2> QED
    BY <1>7, <1>8, <2>2
<1>12. RayData!NumWindows(q) = Cardinality({i \in DOMAIN m : m[i].caption # <<>>})
  <2>1. RayData!NumWindows(q) = Cardinality({i \in DOMAIN p : RayData!Answered(q[p[i]])})
    BY RaySets, Zenon DEF RayData!NumWindows, p
  <2>2. \A i \in DOMAIN p : m[i].caption # <<>> <=> RayData!Answered(q[p[i]])
    BY <1>7, <1>9
  <2>3. {i \in DOMAIN p : RayData!Answered(q[p[i]])} = {i \in DOMAIN m : m[i].caption # <<>>}
    BY <1>8, <2>2
  <2> QED
    BY <2>1, <2>3, Zenon
<1> QED
  BY <1>10, <1>11, <1>12 DEF m

-----------------------------------------------------------------------------
\* Spans.
LEMMA SpansAre ==
  ASSUME RayTypes, NEW v \in RayVideos, NEW q \in RayData!Spans(Duration[v])
  PROVE  SpansHold(q)
<1> DEFINE d == Duration[v]
<1>1. d \in Nat
  BY RayAssumption
<1>2. /\ job.method \in {"fixed", "scenes"} /\ job.len \in Nat /\ job.stride \in Nat \ {0} /\ job.min \in Nat
      /\ job.limit \in Nat
  <2>1. job \in [inputs : SUBSET RayVideos, method : {"fixed", "scenes"}, len : Nat, stride : Nat \ {0},
                 min : Nat, limit : Nat, caption : BOOLEAN]
    BY RayAssumption DEF RayTypes
  <2> QED
    BY <2>1
<1> HIDE DEF d
<1>3. ASSUME NEW u, SpansHold(u) PROVE SpansHold(RayData!Limited(u))
  <2>1. CASE job.limit = 0 \/ Len(u) <= job.limit
    BY <1>3, <2>1 DEF RayData!Limited
  <2>2. CASE ~ (job.limit = 0 \/ Len(u) <= job.limit)
    <3>1. RayData!Limited(u) = SubSeq(u, 1, job.limit)
      BY <2>2 DEF RayData!Limited
    <3>2. u \in Seq(Nat \X Nat) /\ Len(u) \in Nat /\ job.limit <= Len(u) /\ job.limit >= 1
      BY <1>2, <1>3, <2>2 DEF SpansHold
    <3>3. \A i \in 1 .. job.limit : u[i] \in Nat \X Nat
      BY <1>2, <3>2, ElementOfSeq
    <3> DEFINE w == SubSeq(u, 1, job.limit)
    <3>4. /\ w \in Seq(Nat \X Nat) /\ Len(w) = job.limit
          /\ \A i \in 1 .. job.limit : w[i] = u[i]
      <4>1. 1 \in Int /\ job.limit \in Int
        BY <1>2
      <4>2. /\ w \in Seq(Nat \X Nat) /\ Len(w) = IF 1 <= job.limit THEN job.limit - 1 + 1 ELSE 0
            /\ \A i \in 1 .. job.limit - 1 + 1 : w[i] = u[1 + i - 1]
        BY <3>3, <4>1, SubSeqProperties
      <4> QED
        BY <1>2, <3>2, <4>2
    <3> HIDE DEF w
    <3>5. DOMAIN w \subseteq DOMAIN u /\ \A i \in DOMAIN w : w[i] = u[i]
      <4>1. DOMAIN w = 1 .. job.limit /\ DOMAIN u = 1 .. Len(u)
        BY <3>2, <3>4
      <4>2. DOMAIN w \subseteq DOMAIN u
        BY <1>2, <3>2, <4>1
      <4> QED
        BY <3>4, <4>1, <4>2
    <3>6. SpansHold(w)
      BY <1>3, <3>4, <3>5 DEF SpansHold
    <3> QED
      BY <3>1, <3>6 DEF w
  <2> QED
    BY <2>1, <2>2
<1>4. SpansHold(RayData!FixedSpans(d))
  <2> DEFINE End(s) == RayData!Min({s + job.len, d})
             S == {s \in 0 .. (d - 1) : s % job.stride = 0 /\ End(s) - s >= job.min}
             p == RayData!InOrder(S, <)
             w == [i \in DOMAIN p |-> <<p[i], End(p[i])>>]
  <2>1. RayData!FixedSpans(d) = w
    BY Zenon DEF RayData!FixedSpans
  <2>2. \A s \in Nat : End(s) \in Nat
    <3> SUFFICES ASSUME NEW s \in Nat PROVE End(s) \in Nat
      OBVIOUS
    <3>1. PICK x \in {s + job.len, d} : \A y \in {s + job.len, d} : x <= y
      <4>1. s + job.len \in Nat
        BY <1>2
      <4> QED
        BY <1>1, <4>1
    <3>2. End(s) \in {s + job.len, d}
      BY <3>1, Zenon DEF RayData!Min
    <3> QED
      BY <1>1, <1>2, <3>2
  <2> HIDE DEF End
  <2>3. S \subseteq Nat /\ IsFiniteSet(S)
    <3>1. IsFiniteSet(0 .. (d - 1)) /\ S \in SUBSET (0 .. (d - 1))
      BY <1>1, FS_Interval
    <3> QED
      BY <1>1, <3>1, FS_Subset
  <2> HIDE DEF S
  <2>4. p \in Seq(S) /\ IsInjective(p)
    BY <2>3, Increasing
  <2> HIDE DEF p
  <2>5. PICK n \in Nat : DOMAIN p = 1 .. n /\ \A i \in 1 .. n : p[i] \in Nat
    <3>1. DOMAIN p = 1 .. Len(p) /\ Len(p) \in Nat /\ \A i \in 1 .. Len(p) : p[i] \in S
      BY <2>4, ElementOfSeq
    <3> QED
      BY <2>3, <3>1
  <2>6. w \in [1 .. n -> Nat \X Nat]
    BY <2>2, <2>5
  <2>7. w \in Seq(Nat \X Nat)
    BY <2>6, SeqDef
  <2>8. \A i, k \in DOMAIN w : w[i][1] = w[k][1] => i = k
    BY <2>4, <2>5 DEF IsInjective
  <2> QED
    BY <2>1, <2>7, <2>8 DEF SpansHold
<1>5. ASSUME NEW u \in RayData!SceneSpans(d) PROVE SpansHold(u)
  <2>1. CASE u = <<>>
    BY <2>1 DEF SpansHold
  <2>2. CASE u = <<<<0, d>>>>
    BY <1>1, <2>2 DEF SpansHold
  <2>3. ASSUME NEW x \in 1 .. (d - 1), u = <<<<0, x>>, <<x, d>>>> PROVE SpansHold(u)
    <3>1. x \in Nat /\ x # 0
      BY <1>1
    <3>2. u \in Seq(Nat \X Nat) /\ DOMAIN u = 1 .. 2 /\ u[1][1] = 0 /\ u[2][1] = x
      BY <1>1, <2>3, <3>1
    <3>3. \A i \in 1 .. 2 : i = 1 \/ i = 2
      OBVIOUS
    <3> QED
      BY <3>1, <3>2, <3>3 DEF SpansHold
  <2> QED
    BY <1>5, <2>1, <2>2, <2>3 DEF RayData!SceneSpans
<1>6. PICK u : q = RayData!Limited(u) /\ u \in IF job.method = "fixed" THEN {RayData!FixedSpans(d)} ELSE RayData!SceneSpans(d)
  BY DEF RayData!Spans, d
<1>7. SpansHold(u)
  BY <1>4, <1>5, <1>6
<1> QED
  BY <1>3, <1>6, <1>7

-----------------------------------------------------------------------------
\* What a step does not touch.
LEMMA RowFrame ==
  ASSUME NEW c \in DOMAIN rayRows, RowHolds(c), rayRows'[c] = rayRows[c], video'[c[1]] = "gone",
         DOMAIN mp4s \subseteq DOMAIN mp4s',
         c \in DOMAIN metas => c \in DOMAIN metas' /\ metas'[c] = metas[c]
  PROVE  RowHolds(c)'
  BY DEF RowHolds

LEMMA BatchFrame ==
  ASSUME NEW b, BatchHolds(b), DOMAIN rayRows \subseteq DOMAIN rayRows',
         \A c \in b.clips : rayRows'[c] = rayRows[c]
  PROVE  BatchHolds(b)'
<1>1. \A k \in DOMAIN b.requests : Places(b, k)' = Places(b, k)
  BY DEF BatchHolds, Places
<1>2. \A k \in b.over : k \in DOMAIN b.requests /\ Places(b, k)'.said # RayData!Nothing
  BY <1>1 DEF BatchHolds
<1> QED
  BY <1>2 DEF BatchHolds

LEMMA RunGoesOn ==
  ASSUME RayGoes', rayPhase' = "running"
  PROVE  RayInv'
  BY DEF RayInv, RunHolds, RayData!SummaryTrue

LEMMA RayInit == RayData!Init => RayInv
<1> SUFFICES ASSUME RayData!Init PROVE RayInv
  OBVIOUS
<1>1. SpansHold(<<>>)
  BY DEF SpansHold
<1>2. RayTypes
  BY <1>1, FS_EmptySet DEF RayData!Init, RayTypes
<1>3. RowsHold /\ BatchesHold /\ (\A c \in DOMAIN metas : MetaHome(c, metas[c]))
  BY DEF RayData!Init, RowsHold, BatchesHold
<1>4. RunHolds /\ RayData!SummaryTrue
  BY DEF RayData!Init, RunHolds, RayData!SummaryTrue
<1> QED
  BY <1>2, <1>3, <1>4 DEF RayInv, RayGoes

\* A run begins from nothing, and one that fails drops its rows.
LEMMA RunBegins == RayInv /\ RayData!Begin => RayInv'
<1> SUFFICES ASSUME RayInv, RayData!Begin PROVE RayInv'
  OBVIOUS
<1>1. /\ rayPhase' = "running" /\ rayRows' = <<>> /\ batches' = {} /\ job' \in RayJobs
      /\ video' = [v \in RayVideos |-> IF v \in job'.inputs THEN "listed" ELSE "gone"]
      /\ spans' = [v \in RayVideos |-> <<>>]
      /\ mp4s' = mp4s /\ metas' = metas
  BY DEF RayData!Begin, RayData!outputVars, RayInv, RayGoes, RayTypes
<1>2. SpansHold(<<>>)
  BY DEF SpansHold
<1>3. RayTypes'
  <2>1. video' \in [RayVideos -> {"listed", "read", "split", "gone"}]
    BY <1>1
  <2>2. spans' \in [RayVideos -> Seq(Nat \X Nat)] /\ \A v \in RayVideos : SpansHold(spans'[v])
    BY <1>1, <1>2 DEF SpansHold
  <2>3. IsFiniteSet(DOMAIN rayRows')
    BY <1>1, FS_EmptySet
  <2>4. DOMAIN metas' \subseteq DOMAIN mp4s'
    BY <1>1 DEF RayInv, RayGoes, RayTypes
  <2> QED
    BY <1>1, <2>1, <2>2, <2>3, <2>4 DEF RayTypes
<1>4. RowsHold' /\ BatchesHold'
  BY <1>1 DEF RowsHold, BatchesHold
<1>5. (\A c \in DOMAIN metas : MetaHome(c, metas[c]))'
  BY <1>1 DEF RayInv, RayGoes
<1> QED
  BY <1>1, <1>3, <1>4, <1>5, RunGoesOn DEF RayGoes

LEMMA RunFails ==
  ASSUME RayInv, RayData!Fails, DOMAIN mp4s \subseteq DOMAIN mp4s'
  PROVE  RayInv'
<1>1. /\ rayPhase' = "failed" /\ rayRows' = <<>> /\ batches' = {}
      /\ UNCHANGED <<job, video, spans, metas>>
  BY DEF RayData!Fails
<1>2. RayTypes'
  <2>1. IsFiniteSet(DOMAIN rayRows')
    BY <1>1, FS_EmptySet
  <2>2. DOMAIN metas' \subseteq DOMAIN mp4s'
    BY <1>1 DEF RayInv, RayGoes, RayTypes
  <2> QED
    BY <1>1, <2>1, <2>2 DEF RayTypes, RayInv, RayGoes
<1>3. RowsHold' /\ BatchesHold'
  BY <1>1 DEF RowsHold, BatchesHold
<1>4. (\A c \in DOMAIN metas : MetaHome(c, metas[c]))'
  BY <1>1 DEF RayInv, RayGoes
<1>5. RunHolds' /\ RayData!SummaryTrue'
  BY <1>1 DEF RunHolds, RayData!SummaryTrue
<1> QED
  BY <1>2, <1>3, <1>4, <1>5 DEF RayInv, RayGoes

\* A video goes on: there is no row of its clips yet.
LEMMA VideoGoes ==
  ASSUME RayInv, NEW v \in RayVideos, NEW from, from # "gone", NEW to \in {"read", "split"},
         RayData!Goes(v, from, to), rayRows' = rayRows, NEW q, SpansHold(q),
         spans' = [spans EXCEPT ![v] = q]
  PROVE  RayInv'
<1>1. /\ rayPhase = "running" /\ video[v] = from /\ video' = [video EXCEPT ![v] = to]
      /\ UNCHANGED <<job, rayPhase, batches, mp4s, metas>>
  BY DEF RayData!Goes, RayData!outputVars
<1>2. RayTypes /\ RowsHold /\ BatchesHold
  BY DEF RayInv, RayGoes
<1>3. RayTypes'
  <2>1. video' \in [RayVideos -> {"listed", "read", "split", "gone"}]
    BY <1>1, <1>2 DEF RayTypes
  <2>2. spans' \in [RayVideos -> Seq(Nat \X Nat)] /\ \A u \in RayVideos : SpansHold(spans'[u])
    BY <1>2 DEF RayTypes, SpansHold
  <2> QED
    BY <1>1, <1>2, <2>1, <2>2 DEF RayTypes
<1>4. RowsHold'
  <2>1. ASSUME NEW c \in DOMAIN rayRows PROVE RowHolds(c)'
    <3>1. RowHolds(c)
      BY <1>2 DEF RowsHold
    <3>2. video'[c[1]] = "gone"
      BY <1>1, <1>2, <3>1 DEF RowHolds, RayTypes
    <3> QED
      BY <1>1, <3>1, <3>2, RowFrame
  <2> QED
    BY <1>2, <2>1 DEF RowsHold
<1>5. BatchesHold'
  <2>1. ASSUME NEW b \in batches PROVE BatchHolds(b)'
    <3>1. BatchHolds(b)
      BY <1>2 DEF BatchesHold
    <3> QED
      BY <3>1, BatchFrame
  <2> QED
    BY <1>1, <1>2, <2>1 DEF BatchesHold
<1>6. (\A c \in DOMAIN metas : MetaHome(c, metas[c]))'
  BY <1>1 DEF RayInv, RayGoes
<1> QED
  BY <1>1, <1>3, <1>4, <1>5, <1>6, RunGoesOn DEF RayGoes

\* The fields of a row.
LEMMA RowIs ==
  ASSUME NEW r, NEW a, NEW t, NEW w, r = [at |-> a, torn |-> t, windows |-> w]
  PROVE  /\ r.at = a /\ r.torn = t /\ r.windows = w
         /\ r = [at |-> r.at, torn |-> r.torn, windows |-> r.windows]
  OBVIOUS

\* A clip: its video, start, end and splitter.
LEMMA ClipIs ==
  ASSUME NEW v, NEW x \in Nat \X Nat, NEW method
  PROVE  LET c == <<v>> \o x \o <<method>> IN c[1] = v /\ c[2] = x[1] /\ c[3] = x[2]
<1> DEFINE T == {v, method} \cup Nat
           s == <<v>> \o x
           c == s \o <<method>>
<1>1. x \in Seq(T) /\ Len(x) = 2 /\ <<v>> \in Seq(T) /\ <<method>> \in Seq(T)
  OBVIOUS
<1>2. Len(<<v>>) = 1 /\ <<v>>[1] = v /\ Len(<<method>>) = 1
  OBVIOUS
<1> HIDE DEF T
<1>3. s \in Seq(T) /\ Len(s) = 3 /\ s[1] = v /\ s[2] = x[1] /\ s[3] = x[2]
  <2>1. /\ s \in Seq(T) /\ Len(s) = Len(<<v>>) + Len(x)
        /\ \A i \in 1 .. Len(<<v>>) + Len(x) : s[i] = IF i <= Len(<<v>>) THEN <<v>>[i] ELSE x[i - Len(<<v>>)]
    BY <1>1, ConcatProperties
  <2> HIDE DEF s
  <2>2. \A i \in 1 .. 3 : s[i] = IF i <= 1 THEN <<v>>[i] ELSE x[i - 1]
    BY <1>1, <1>2, <2>1
  <2>3. s[1] = <<v>>[1] /\ s[2] = x[2 - 1] /\ s[3] = x[3 - 1]
    BY <2>2
  <2> QED
    BY <1>1, <1>2, <2>1, <2>3
<1> HIDE DEF s
<1>4. /\ Len(c) = Len(s) + Len(<<method>>)
      /\ \A i \in 1 .. Len(s) + Len(<<method>>) : c[i] = IF i <= Len(s) THEN s[i] ELSE <<method>>[i - Len(s)]
  BY <1>1, <1>3, ConcatProperties
<1> HIDE DEF c
<1>5. \A i \in 1 .. 3 : c[i] = s[i]
  BY <1>2, <1>3, <1>4
<1>6. c[1] = v /\ c[2] = x[1] /\ c[3] = x[2]
  BY <1>3, <1>5
<1> QED
  BY <1>6 DEF c, s

\* The clips of a video: finitely many, and no two that start at the same time.
LEMMA ClipsAre ==
  ASSUME RayTypes, NEW v \in RayVideos
  PROVE  /\ IsFiniteSet(RayData!ClipsOf(v))
         /\ \A c \in RayData!ClipsOf(v) : c[1] = v /\ c[2] \in Nat /\ c[3] \in Nat
         /\ \A c, d \in RayData!ClipsOf(v) : c[2] = d[2] => c = d
<1> DEFINE q == spans[v]
           f == [i \in DOMAIN q |-> <<v>> \o q[i] \o <<job.method>>]
<1>1. q \in Seq(Nat \X Nat) /\ \A i, k \in DOMAIN q : q[i][1] = q[k][1] => i = k
  BY DEF RayTypes, SpansHold
<1>2. RayData!ClipsOf(v) = {f[i] : i \in DOMAIN f}
  BY DEF RayData!ClipsOf
<1>3. ASSUME NEW i \in DOMAIN f
      PROVE  i \in DOMAIN q /\ f[i][1] = v /\ f[i][2] = q[i][1] /\ f[i][2] \in Nat /\ f[i][3] \in Nat
  <2>1. q[i] \in Nat \X Nat /\ i \in DOMAIN q
    BY <1>1, ElementOfSeq
  <2>2. f[i] = <<v>> \o q[i] \o <<job.method>>
    BY <2>1
  <2> HIDE DEF f, q
  <2> QED
    BY <2>1, <2>2, ClipIs
<1>4. IsFiniteSet(DOMAIN f)
  <2>1. DOMAIN f = 1 .. Len(q) /\ Len(q) \in Nat
    BY <1>1
  <2>2. PICK n \in Nat : DOMAIN f = 1 .. n
    BY <2>1
  <2>3. IsFiniteSet(1 .. n)
    BY FS_Interval
  <2> QED
    BY <2>2, <2>3
<1> HIDE DEF f
<1>5. f \in Surjection(DOMAIN f, {f[i] : i \in DOMAIN f})
  <2>1. f = [i \in DOMAIN f |-> f[i]]
    BY DEF f
  <2> QED
    BY <2>1 DEF Surjection
<1>6. IsFiniteSet({f[i] : i \in DOMAIN f})
  BY <1>4, <1>5, FS_Surjection
<1> HIDE DEF q
<1> QED
  BY <1>1, <1>2, <1>3, <1>6

\* The clips of a video, when its row goes.
LEMMA ClipsAreMade ==
  ASSUME RayInv, NEW v \in RayVideos, RayData!Transcode(v)
  PROVE  RayInv'
<1>1. /\ rayPhase = "running" /\ video[v] = "split" /\ video' = [video EXCEPT ![v] = "gone"]
      /\ UNCHANGED <<job, rayPhase, batches, mp4s, metas, spans>>
  BY DEF RayData!Goes, RayData!outputVars, RayData!Transcode
<1>2. RayTypes /\ RowsHold /\ BatchesHold
  BY DEF RayInv, RayGoes
<1>3. PICK made \in SUBSET RayData!ClipsOf(v) : \E cut \in [made -> BOOLEAN] :
        rayRows' = [c \in DOMAIN rayRows \cup made |->
                      IF c \in made THEN [at |-> "clip", torn |-> cut[c], windows |-> <<>>] ELSE rayRows[c]]
  BY DEF RayData!Transcode
<1>11. PICK cut \in [made -> BOOLEAN] :
        rayRows' = [c \in DOMAIN rayRows \cup made |->
                      IF c \in made THEN [at |-> "clip", torn |-> cut[c], windows |-> <<>>] ELSE rayRows[c]]
  BY <1>3
<1>4. \A c \in made : c[1] = v /\ c[2] \in Nat /\ c[3] \in Nat /\ c \notin DOMAIN rayRows
  BY <1>1, <1>2, ClipsAre DEF RowsHold, RowHolds
<1>5. /\ DOMAIN rayRows' = DOMAIN rayRows \cup made
      /\ \A c \in made : rayRows'[c] = [at |-> "clip", torn |-> cut[c], windows |-> <<>>]
      /\ \A c \in DOMAIN rayRows : rayRows'[c] = rayRows[c]
  BY <1>4, <1>11
<1>6. RayTypes'
  <2>1. video' \in [RayVideos -> {"listed", "read", "split", "gone"}]
    BY <1>1, <1>2 DEF RayTypes
  <2>2. IsFiniteSet(made)
    BY <1>2, ClipsAre, FS_Subset
  <2>3. IsFiniteSet(DOMAIN rayRows')
    <3>1. IsFiniteSet(DOMAIN rayRows)
      BY <1>2 DEF RayTypes
    <3>2. IsFiniteSet(DOMAIN rayRows \cup made)
      BY <2>2, <3>1, FS_Union
    <3> QED
      BY <1>5, <3>2
  <2> QED
    BY <1>1, <1>2, <2>1, <2>3 DEF RayTypes
<1>7. video'[v] = "gone" /\ \A u \in RayVideos : u # v => video'[u] = video[u]
  BY <1>1, <1>2 DEF RayTypes
<1>8. RowsHold'
  <2>1. ASSUME NEW c \in DOMAIN rayRows PROVE RowHolds(c)'
    <3>1. RowHolds(c)
      BY <1>2 DEF RowsHold
    <3>2. video'[c[1]] = "gone"
      BY <1>7, <3>1 DEF RowHolds
    <3> QED
      BY <1>1, <1>5, <3>1, <3>2, RowFrame
  <2>2. ASSUME NEW c \in made PROVE RowHolds(c)'
    <3>1. WindowsHold(c, <<>>)
      BY DEF WindowsHold
    <3>2. rayRows'[c].windows = <<>> /\ rayRows'[c].at = "clip"
      BY <1>5, RowIs
    <3>3. rayRows'[c] = [at |-> rayRows'[c].at, torn |-> rayRows'[c].torn, windows |-> rayRows'[c].windows]
      BY <1>5, RowIs
    <3> QED
      BY <1>4, <1>7, <3>1, <3>2, <3>3 DEF RowHolds
  <2>3. ASSUME NEW c \in DOMAIN rayRows', NEW d \in DOMAIN rayRows', c[1] = d[1], c[2] = d[2] PROVE c = d
    <3>1. CASE c \in made /\ d \in made
      BY <1>2, <2>3, <3>1, ClipsAre
    <3>2. CASE c \in DOMAIN rayRows /\ d \in DOMAIN rayRows
      BY <1>2, <2>3, <3>2 DEF RowsHold
    <3>3. ASSUME NEW x \in made, NEW y \in DOMAIN rayRows PROVE x[1] # y[1]
      BY <1>1, <1>2, <1>4 DEF RowsHold, RowHolds
    <3> QED
      BY <1>5, <2>3, <3>1, <3>2, <3>3
  <2> QED
    BY <1>5, <2>1, <2>2, <2>3 DEF RowsHold
<1>9. BatchesHold'
  <2>1. ASSUME NEW b \in batches PROVE BatchHolds(b)'
    <3>1. BatchHolds(b) /\ b.clips \subseteq DOMAIN rayRows
      BY <1>2 DEF BatchesHold, BatchHolds
    <3> QED
      BY <1>5, <3>1, BatchFrame
  <2> QED
    BY <1>1, <1>2, <2>1 DEF BatchesHold
<1>10. (\A c \in DOMAIN metas : MetaHome(c, metas[c]))'
  BY <1>1 DEF RayInv, RayGoes
<1> QED
  BY <1>1, <1>6, <1>8, <1>9, <1>10, RunGoesOn DEF RayGoes

\* A row that a stage takes on, and that no batch holds.
LEMMA RowMoves ==
  ASSUME RayInv, rayPhase = "running", NEW c \in DOMAIN rayRows, rayRows[c].at # "asked",
         NEW to, NEW q, RayData!Moves(c, to, q), batches' = batches,
         DOMAIN mp4s \subseteq DOMAIN mp4s', DOMAIN metas' \subseteq DOMAIN mp4s',
         \A d \in DOMAIN metas : d # c => d \in DOMAIN metas' /\ metas'[d] = metas[d],
         \A d \in DOMAIN metas' : MetaHome(d, metas'[d]),
         WindowsHold(c, q), c \in DOMAIN mp4s',
         to \in {"written", "windowed", "out"}, to = "written" => q = <<>>,
         to = "out" => Filled(q) /\ c \in DOMAIN metas' /\ metas'[c] = RayData!Meta(q)
  PROVE  RayInv'
<1>1. RayTypes /\ RowsHold /\ BatchesHold
  BY DEF RayInv, RayGoes
<1>2. /\ rayRows' = [rayRows EXCEPT ![c].at = to, ![c].windows = q]
      /\ UNCHANGED <<job, rayPhase, video, spans>>
  BY DEF RayData!Moves
<1>3. RowHolds(c)
  BY <1>1 DEF RowsHold
<1>4. /\ DOMAIN rayRows' = DOMAIN rayRows
      /\ \A d \in DOMAIN rayRows : d # c => rayRows'[d] = rayRows[d]
      /\ rayRows'[c] = [at |-> to, torn |-> rayRows[c].torn, windows |-> q]
  <2>1. rayRows[c] = [at |-> rayRows[c].at, torn |-> rayRows[c].torn, windows |-> rayRows[c].windows]
    BY <1>3 DEF RowHolds
  <2>2. [[rayRows[c] EXCEPT !.at = to] EXCEPT !.windows = q] = [at |-> to, torn |-> rayRows[c].torn, windows |-> q]
    <3>1. PICK r, a, t, w : r = rayRows[c] /\ r = [at |-> a, torn |-> t, windows |-> w]
      BY <2>1
    <3>2. [r EXCEPT !.at = to] = [at |-> to, torn |-> t, windows |-> w]
      BY ONLY <3>1
    <3>3. [[at |-> to, torn |-> t, windows |-> w] EXCEPT !.windows = q] = [at |-> to, torn |-> t, windows |-> q]
      OBVIOUS
    <3>4. r.torn = t
      BY <3>1
    <3> QED
      BY ONLY <3>1, <3>2, <3>3, <3>4
  <2> QED
    BY <1>2, <2>2
<1>5. RayTypes'
  BY <1>1, <1>2, <1>4 DEF RayTypes
<1>6. RowHolds(c)'
  <2>1. rayRows'[c].at = to /\ rayRows'[c].windows = q
    BY <1>4, RowIs
  <2>2. rayRows'[c] = [at |-> rayRows'[c].at, torn |-> rayRows'[c].torn, windows |-> rayRows'[c].windows]
    BY <1>4, RowIs
  <2>3. c[1] \in RayVideos /\ c[2] \in Nat /\ c[3] \in Nat /\ video'[c[1]] = "gone"
    BY <1>2, <1>3 DEF RowHolds
  <2> QED
    BY <2>1, <2>2, <2>3 DEF RowHolds
<1>7. RowsHold'
  <2>1. ASSUME NEW d \in DOMAIN rayRows, d # c PROVE RowHolds(d)'
    <3>1. RowHolds(d) /\ video'[d[1]] = "gone"
      BY <1>1, <1>2 DEF RowsHold, RowHolds
    <3> QED
      BY <1>4, <2>1, <3>1, RowFrame
  <2> QED
    BY <1>1, <1>4, <1>6, <2>1 DEF RowsHold
<1>8. BatchesHold'
  <2>1. ASSUME NEW b \in batches PROVE BatchHolds(b)'
    <3>1. BatchHolds(b) /\ b.clips \subseteq DOMAIN rayRows /\ c \notin b.clips
      BY <1>1 DEF BatchesHold, BatchHolds
    <3> QED
      BY <1>4, <3>1, BatchFrame
  <2> QED
    BY <1>1, <2>1 DEF BatchesHold
<1> QED
  BY <1>2, <1>5, <1>7, <1>8, RunGoesOn DEF RayGoes

-----------------------------------------------------------------------------
\* Clips, one by one.
LEMMA MetaEmpty == RayData!Meta(<<>>) = <<>>
<1>1. DOMAIN <<>> = 1 .. 0
  OBVIOUS
<1>2. ToSet(RayData!Asked(<<>>)) = {} /\ RayData!Asked(<<>>) \in Seq({i \in DOMAIN <<>> : <<>>[i].index > 0})
  BY <1>1, AskedAre
<1>3. DOMAIN RayData!Asked(<<>>) = {}
  BY <1>2 DEF ToSet
<1> QED
  BY <1>3 DEF RayData!Meta

LEMMA ClipIsWritten ==
  ASSUME RayInv, NEW c \in DOMAIN rayRows, RayData!WriteClip(c)
  PROVE  RayInv'
<1> DEFINE how == IF rayRows[c].torn THEN "torn" ELSE "whole"
<1>1. /\ rayPhase = "running" /\ rayRows[c].at = "clip" /\ batches' = batches
      /\ mp4s' = RayData!With(mp4s, c, how)
      /\ metas' = IF job.caption THEN metas ELSE RayData!With(metas, c, <<>>)
      /\ RayData!Moves(c, IF job.caption THEN "written" ELSE "out", <<>>)
  BY DEF RayData!WriteClip, RayData!At
<1> HIDE DEF how
<1>2. DOMAIN mp4s' = DOMAIN mp4s \cup {c}
  BY ONLY <1>1 DEF RayData!With
<1>3. WindowsHold(c, <<>>) /\ MetaHome(c, <<>>) /\ Filled(<<>>)
  BY DEF WindowsHold, MetaHome, Filled
<1>4. DOMAIN metas \subseteq DOMAIN mp4s /\ \A d \in DOMAIN metas : MetaHome(d, metas[d])
  BY DEF RayInv, RayGoes, RayTypes
<1>5. CASE job.caption
  <2>1. RayData!Moves(c, "written", <<>>) /\ metas' = metas
    BY <1>1, <1>5
  <2> QED
    BY <1>1, <1>2, <1>3, <1>4, <2>1, RowMoves
<1>6. CASE ~ job.caption
  <2>1. RayData!Moves(c, "out", <<>>) /\ metas' = RayData!With(metas, c, <<>>)
    BY <1>1, <1>6
  <2>2. /\ DOMAIN metas' = DOMAIN metas \cup {c} /\ metas'[c] = <<>>
        /\ \A d \in DOMAIN metas : d # c => metas'[d] = metas[d]
    BY ONLY <2>1 DEF RayData!With
  <2>3. \A d \in DOMAIN metas' : MetaHome(d, metas'[d])
    BY <1>3, <1>4, <2>2
  <2> QED
    BY <1>1, <1>2, <1>3, <1>4, <2>1, <2>2, <2>3, RowMoves, MetaEmpty
<1> QED
  BY <1>5, <1>6

LEMMA ClipIsPrepared ==
  ASSUME RayInv, NEW c \in DOMAIN rayRows, RayData!Prepare(c)
  PROVE  RayInv'
<1>1. PICK decoded \in SUBSET (1 .. (c[3] - c[2])) :
        LET q == RayData!InOrder(IF decoded = {} THEN {0} ELSE decoded, <) IN
        RayData!Moves(c, "windowed", [i \in DOMAIN q |-> [index |-> q[i], said |-> RayData!Nothing]])
  BY DEF RayData!Prepare
<1>2. rayPhase = "running" /\ rayRows[c].at = "written" /\ UNCHANGED <<batches, mp4s, metas>>
  BY DEF RayData!Prepare, RayData!At, RayData!outputVars
<1>3. c[2] \in Nat /\ c[3] \in Nat /\ c \in DOMAIN mp4s
  BY <1>2 DEF RayInv, RayGoes, RowsHold, RowHolds
<1> DEFINE S == IF decoded = {} THEN {0} ELSE decoded
           q == RayData!InOrder(S, <)
           w == [i \in DOMAIN q |-> [index |-> q[i], said |-> RayData!Nothing]]
<1>4. S \subseteq Nat /\ IsFiniteSet(S) /\ \A n \in S : n > 0 => n <= c[3] - c[2]
  <2>1. c[3] - c[2] \in Int
    BY <1>3
  <2>2. IsFiniteSet(1 .. (c[3] - c[2]))
    <3>1. PICK n \in Int : n = c[3] - c[2]
      BY <2>1
    <3>2. IsFiniteSet(1 .. n)
      BY <3>1, FS_Interval
    <3> QED
      BY <3>1, <3>2
  <2>3. IsFiniteSet(decoded) /\ IsFiniteSet({0})
    BY <2>2, FS_Subset, FS_Singleton
  <2>4. CASE decoded = {}
    BY <2>3, <2>4, <2>1
  <2>5. CASE decoded # {}
    <3>1. S = decoded
      BY <2>5
    <3>2. \A n \in decoded : n \in Nat /\ n <= c[3] - c[2]
      BY <2>1
    <3> QED
      BY <2>3, <3>1, <3>2
  <2> QED
    BY <2>4, <2>5
<1> HIDE DEF S
<1>5. q \in Seq(S) /\ \A i, k \in DOMAIN q : i < k => q[i] < q[k]
  BY <1>4, Increasing
<1> HIDE DEF q
<1>6. RayData!Moves(c, "windowed", w)
  BY <1>1 DEF q, S
<1>7. WindowsHold(c, w)
  <2> DEFINE X == [index : Nat, said : UNION {SaidOf(c, j) : j \in Nat}]
  <2>1. PICK n \in Nat : DOMAIN q = 1 .. n /\ \A i \in 1 .. n : q[i] \in S
    <3>1. DOMAIN q = 1 .. Len(q) /\ Len(q) \in Nat /\ \A i \in 1 .. Len(q) : q[i] \in S
      BY <1>5, ElementOfSeq
    <3> QED
      BY <3>1
  <2>2. RayData!Nothing \in UNION {SaidOf(c, j) : j \in Nat}
    <3>1. RayData!Nothing \in SaidOf(c, 0)
      BY DEF SaidOf
    <3> QED
      BY <3>1
  <2>3. w \in [1 .. n -> X]
    BY <1>4, <2>1, <2>2
  <2>4. w \in Seq(X)
    <3> HIDE DEF w, X
    <3> QED
      BY <2>3, SeqDef
  <2>5. \A i \in DOMAIN w : i \in DOMAIN q /\ w[i].index = q[i] /\ w[i].said = RayData!Nothing
    OBVIOUS
  <2> HIDE DEF w
  <2>6. \A i \in DOMAIN w : /\ w[i].index > 0 => w[i].index <= c[3] - c[2]
                            /\ w[i].said \in SaidOf(c, w[i].index)
    BY <1>4, <2>1, <2>5 DEF SaidOf
  <2>7. \A i, k \in DOMAIN w : i < k => w[i].index < w[k].index
    BY <1>5, <2>5
  <2> QED
    BY <2>4, <2>6, <2>7 DEF WindowsHold
<1> HIDE DEF w
<1> QED
  BY <1>2, <1>3, <1>6, <1>7, RowMoves DEF RayInv, RayGoes, RayTypes

LEMMA MetaIsWritten ==
  ASSUME RayInv, NEW c \in DOMAIN rayRows, RayData!WriteMeta(c)
  PROVE  RayInv'
<1> DEFINE q == rayRows[c].windows
           m == RayData!Meta(q)
<1>1. /\ rayPhase = "running" /\ rayRows[c].at = "captioned" /\ UNCHANGED <<batches, mp4s>>
      /\ metas' = RayData!With(metas, c, m) /\ RayData!Moves(c, "out", q)
  BY DEF RayData!WriteMeta, RayData!At
<1>2. c[2] \in Nat /\ c[3] \in Nat /\ WindowsHold(c, q) /\ Filled(q) /\ c \in DOMAIN mp4s
  BY <1>1 DEF RayInv, RayGoes, RowsHold, RowHolds
<1> HIDE DEF q
<1>3. MetaHome(c, m)
  BY <1>2, MetaIs
<1>4. /\ DOMAIN metas' = DOMAIN metas \cup {c} /\ metas'[c] = m
      /\ \A d \in DOMAIN metas : d # c => metas'[d] = metas[d]
  BY ONLY <1>1 DEF RayData!With
<1>5. DOMAIN metas \subseteq DOMAIN mp4s /\ \A d \in DOMAIN metas : MetaHome(d, metas[d])
  BY DEF RayInv, RayGoes, RayTypes
<1>6. \A d \in DOMAIN metas' : MetaHome(d, metas'[d])
  BY <1>3, <1>4, <1>5
<1> QED
  BY <1>1, <1>2, <1>4, <1>5, <1>6, RowMoves

-----------------------------------------------------------------------------
\* Batches.
LEMMA BatchMoves ==
  ASSUME RayInv, rayPhase = "running", UNCHANGED <<job, rayPhase, video, spans, mp4s, metas>>,
         DOMAIN rayRows' = DOMAIN rayRows, \A c \in DOMAIN rayRows : RowHolds(c)', BatchesHold'
  PROVE  RayInv'
<1>1. RayTypes'
  BY DEF RayInv, RayGoes, RayTypes
<1>2. RowsHold'
  BY DEF RayInv, RayGoes, RowsHold
<1>3. (\A c \in DOMAIN metas : MetaHome(c, metas[c]))'
  BY DEF RayInv, RayGoes
<1> QED
  BY <1>1, <1>2, <1>3, RunGoesOn DEF RayGoes

\* The requests of a batch: the places of all the windows with frames of its clips.
LEMMA RequestsAre ==
  ASSUME RayInv, NEW B \in SUBSET DOMAIN rayRows
  PROVE  LET r == RayData!Requests(RayData!SetToSeq(B)) IN
         /\ \A k \in DOMAIN r : r[k][1] \in B /\ r[k][2] \in DOMAIN rayRows[r[k][1]].windows
         /\ \A c \in B : \A i \in DOMAIN rayRows[c].windows :
              rayRows[c].windows[i].index > 0 => \E k \in DOMAIN r : r[k][1] = c /\ r[k][2] = i
<1> DEFINE u == SetToSeq(B)
           S(c) == {i \in DOMAIN rayRows[c].windows : rayRows[c].windows[i].index > 0}
           p(c) == RayData!Asked(rayRows[c].windows)
           G(c) == [i \in DOMAIN p(c) |-> <<c, p(c)[i]>>]
           T == B \X Nat
           ss == [k \in DOMAIN u |-> G(u[k])]
           r == RayData!Requests(RayData!SetToSeq(B))
<1>1. u \in Seq(B) /\ ToSet(u) = B
  <2>1. IsFiniteSet(B)
    BY FS_Subset DEF RayInv, RayGoes, RayTypes
  <2> QED
    BY <2>1, ListedOnce
<1>2. r = FlattenSeq(ss)
  BY RaySets, Zenon DEF RayData!Requests
<1> HIDE DEF u, r
<1>3. ASSUME NEW c \in B PROVE S(c) \subseteq Nat /\ p(c) \in Seq(S(c)) /\ ToSet(p(c)) = S(c)
  <2> DEFINE q == rayRows[c].windows
             X == [index : Nat, said : UNION {SaidOf(c, j) : j \in Nat}]
  <2>1. WindowsHold(c, q)
    BY DEF RayInv, RayGoes, RowsHold, RowHolds
  <2> HIDE DEF q
  <2>2. q \in Seq(X) /\ \A i, k \in DOMAIN q : i < k => q[i].index < q[k].index
    BY <2>1, Zenon DEF WindowsHold
  <2>3. PICK n \in Nat : DOMAIN q = 1 .. n /\ \A i \in 1 .. n : q[i] \in X
    <3> HIDE DEF X
    <3>1. Len(q) \in Nat /\ DOMAIN q = 1 .. Len(q) /\ \A i \in 1 .. Len(q) : q[i] \in X
      BY <2>2, ElementOfSeq
    <3> QED
      BY <3>1
  <2>4. \A i \in DOMAIN q : q[i].index \in Nat
    BY <2>3
  <2> HIDE DEF X
  <2>5. LET a == RayData!Asked(q) IN
        /\ a \in Seq({i \in DOMAIN q : q[i].index > 0}) /\ ToSet(a) = {i \in DOMAIN q : q[i].index > 0}
        /\ \A i, k \in DOMAIN a : i < k => q[a[i]].index < q[a[k]].index
    BY ONLY <2>2, <2>3, <2>4, AskedAre
  <2>6. {i \in DOMAIN q : q[i].index > 0} \subseteq Nat
    BY <2>3
  <2> QED
    BY <2>5, <2>6 DEF q
<1> HIDE DEF S, p
<1>4. ASSUME NEW c \in B PROVE G(c) \in Seq(T) /\ ToSet(G(c)) = {<<c, i>> : i \in S(c)}
  <2>1. PICK l \in Nat : DOMAIN p(c) = 1 .. l /\ \A i \in 1 .. l : p(c)[i] \in S(c)
    <3>1. p(c) \in Seq(S(c))
      BY <1>3
    <3>2. Len(p(c)) \in Nat /\ DOMAIN p(c) = 1 .. Len(p(c)) /\ \A i \in 1 .. Len(p(c)) : p(c)[i] \in S(c)
      BY <3>1, ElementOfSeq
    <3> QED
      BY <3>2
  <2>2. \A i \in 1 .. l : p(c)[i] \in Nat
    BY <1>3, <2>1
  <2>3. G(c) \in [1 .. l -> T]
    BY <2>1, <2>2
  <2>4. G(c) \in Seq(T)
    <3> HIDE DEF G, T
    <3> QED
      BY <2>3, SeqDef
  <2>5. \A i \in S(c) : \E k \in DOMAIN p(c) : p(c)[k] = i
    BY <1>3 DEF ToSet
  <2>6. ToSet(G(c)) = {<<c, i>> : i \in S(c)}
    BY <2>1, <2>5 DEF ToSet
  <2> QED
    BY <2>4, <2>6
<1> HIDE DEF G, T
<1>5. ss \in Seq(Seq(T)) /\ \A k \in DOMAIN ss : ss[k] = G(u[k]) /\ u[k] \in B
  <2>1. Len(u) \in Nat /\ DOMAIN u = 1 .. Len(u) /\ \A k \in 1 .. Len(u) : u[k] \in B
    BY <1>1, ElementOfSeq
  <2>2. ss \in [1 .. Len(u) -> Seq(T)]
    BY <1>4, <2>1
  <2>3. \A k \in DOMAIN ss : ss[k] = G(u[k]) /\ u[k] \in B
    BY <2>1
  <2> HIDE DEF ss
  <2>4. ss \in Seq(Seq(T))
    BY <2>1, <2>2, SeqDef
  <2> QED
    BY <2>3, <2>4
<1>6. \A c \in B : \E k \in DOMAIN ss : ss[k] = G(c)
  BY <1>1 DEF ToSet
<1> HIDE DEF ss
<1>7. r \in Seq(T) /\ ToSet(r) = UNION {ToSet(ss[k]) : k \in DOMAIN ss}
  BY <1>2, <1>5, Flattened
<1>8. ASSUME NEW k \in DOMAIN r PROVE r[k][1] \in B /\ r[k][2] \in DOMAIN rayRows[r[k][1]].windows
  <2>1. r[k] \in ToSet(r)
    BY DEF ToSet
  <2>2. PICK j \in DOMAIN ss : r[k] \in ToSet(ss[j])
    BY <1>7, <2>1, Zenon
  <2>3. ss[j] = G(u[j]) /\ u[j] \in B
    BY <1>5
  <2>4. r[k] \in {<<u[j], i>> : i \in S(u[j])}
    BY <1>4, <2>2, <2>3
  <2>5. PICK i \in S(u[j]) : r[k] = <<u[j], i>>
    BY <2>4
  <2> QED
    BY <2>3, <2>5 DEF S
<1>9. ASSUME NEW c \in B, NEW i \in DOMAIN rayRows[c].windows, rayRows[c].windows[i].index > 0
      PROVE  \E k \in DOMAIN r : r[k][1] = c /\ r[k][2] = i
  <2>1. i \in S(c)
    BY <1>9 DEF S
  <2>2. PICK j \in DOMAIN ss : ss[j] = G(c)
    BY <1>6
  <2>3. <<c, i>> \in ToSet(ss[j])
    BY <1>4, <2>1, <2>2
  <2>4. <<c, i>> \in ToSet(r)
    BY <1>7, <2>3
  <2>5. PICK k \in DOMAIN r : r[k] = <<c, i>>
    BY <2>4 DEF ToSet
  <2> QED
    BY <2>5
<1> QED
  BY <1>8, <1>9 DEF r

\* A row of a batch, when only its stage changes.
LEMMA StageMoves ==
  ASSUME NEW c \in DOMAIN rayRows, RowHolds(c), NEW to \in {"asked", "captioned"},
         rayRows[c].at \in {"windowed", "asked"}, rayRows'[c] = [rayRows[c] EXCEPT !.at = to],
         UNCHANGED <<video, mp4s>>, to = "captioned" => Filled(rayRows[c].windows)
  PROVE  RowHolds(c)' /\ rayRows'[c].at = to /\ rayRows'[c].windows = rayRows[c].windows
<1>1. PICK r, a, t, w : r = rayRows[c] /\ r = [at |-> a, torn |-> t, windows |-> w]
  BY DEF RowHolds
<1>2. rayRows'[c] = [at |-> to, torn |-> t, windows |-> w]
  BY <1>1
<1>3. rayRows[c].windows = w
  BY <1>1
<1>4. /\ rayRows'[c].at = to /\ rayRows'[c].windows = w
      /\ rayRows'[c] = [at |-> rayRows'[c].at, torn |-> rayRows'[c].torn, windows |-> rayRows'[c].windows]
  BY ONLY <1>2, RowIs
<1>5. WindowsHold(c, w) /\ c \in DOMAIN mp4s /\ (to = "captioned" => Filled(w))
  BY <1>3 DEF RowHolds
<1>6. c[1] \in RayVideos /\ c[2] \in Nat /\ c[3] \in Nat /\ video'[c[1]] = "gone"
  BY DEF RowHolds
<1>7. RowHolds(c)'
  BY <1>4, <1>5, <1>6 DEF RowHolds
<1> QED
  BY <1>3, <1>4, <1>7

\* A batch takes the rows with windows, and gives them back when all its requests are over.
LEMMA BatchIsAsked ==
  ASSUME RayInv, NEW B \in SUBSET {c \in DOMAIN rayRows : rayRows[c].at = "windowed"},
         RayData!Cardinality(B) \in 1 .. BatchSize, RayData!Ask(B)
  PROVE  RayInv'
<1>0. PICK r, new : r = RayData!Requests(RayData!SetToSeq(B)) /\ new = [clips |-> B, requests |-> r, over |-> {}]
  OBVIOUS
<1>1. /\ rayPhase = "running" /\ batches' = batches \cup {new}
      /\ rayRows' = [c \in DOMAIN rayRows |->
                       IF c \in B THEN [rayRows[c] EXCEPT !.at = "asked"] ELSE rayRows[c]]
      /\ UNCHANGED <<job, rayPhase, video, spans, mp4s, metas>>
  BY <1>0 DEF RayData!Ask, RayData!outputVars
<1>2. RowsHold /\ BatchesHold
  BY DEF RayInv, RayGoes
<1>3. B # {}
  <2>1. Cardinality(B) \in 1 .. BatchSize
    BY RaySets
  <2>2. Cardinality({}) = 0
    BY FS_EmptySet
  <2> QED
    BY <2>1, <2>2
<1>4. /\ \A k \in DOMAIN r : r[k][1] \in B /\ r[k][2] \in DOMAIN rayRows[r[k][1]].windows
      /\ \A c \in B : \A i \in DOMAIN rayRows[c].windows :
           rayRows[c].windows[i].index > 0 => \E k \in DOMAIN r : r[k][1] = c /\ r[k][2] = i
  BY <1>0, RequestsAre
<1>5. /\ DOMAIN rayRows' = DOMAIN rayRows
      /\ \A c \in B : rayRows'[c] = [rayRows[c] EXCEPT !.at = "asked"]
      /\ \A c \in DOMAIN rayRows : c \notin B => rayRows'[c] = rayRows[c]
  BY <1>1
<1>6. ASSUME NEW c \in B
      PROVE  RowHolds(c)' /\ rayRows'[c].at = "asked" /\ rayRows'[c].windows = rayRows[c].windows
  <2>1. RowHolds(c) /\ rayRows[c].at = "windowed"
    BY <1>2 DEF RowsHold
  <2> QED
    BY <1>1, <1>5, <2>1, StageMoves
<1>7. ASSUME NEW c \in DOMAIN rayRows PROVE RowHolds(c)'
  <2>1. CASE c \in B
    BY <1>6, <2>1
  <2>2. CASE c \notin B
    <3>1. RowHolds(c) /\ video'[c[1]] = "gone"
      BY <1>1, <1>2 DEF RowsHold, RowHolds
    <3> QED
      BY <1>1, <1>5, <2>2, <3>1, RowFrame
  <2> QED
    BY <2>1, <2>2
<1>8. ASSUME NEW b \in batches PROVE BatchHolds(b)' /\ b.clips \cap B = {}
  <2>1. BatchHolds(b)
    BY <1>2 DEF BatchesHold
  <2>2. b.clips \subseteq DOMAIN rayRows /\ b.clips \cap B = {}
    BY <2>1 DEF BatchHolds
  <2> QED
    BY <1>5, <2>1, <2>2, BatchFrame
<1>9. /\ new.clips = B /\ new.requests = r /\ new.over = {}
      /\ new = [clips |-> new.clips, requests |-> new.requests, over |-> new.over]
  BY <1>0
<1>10. BatchHolds(new)'
  <2>1. B \subseteq DOMAIN rayRows' /\ \A c \in B : rayRows'[c].at = "asked"
    BY <1>5, <1>6
  <2>2. \A k \in DOMAIN r : r[k][1] \in B /\ r[k][2] \in DOMAIN rayRows'[r[k][1]].windows
    BY <1>4, <1>6
  <2>3. \A c \in B : \A i \in DOMAIN rayRows'[c].windows :
          rayRows'[c].windows[i].index > 0 => \E k \in DOMAIN r : r[k][1] = c /\ r[k][2] = i
    BY <1>4, <1>6
  <2> QED
    BY <1>3, <1>9, <2>1, <2>2, <2>3 DEF BatchHolds
<1>11. BatchesHold'
  <2>1. ASSUME NEW b \in batches' PROVE BatchHolds(b)'
    BY <1>1, <1>8, <1>10, <2>1
  <2>2. ASSUME NEW a \in batches', NEW b \in batches', a.clips \cap b.clips # {} PROVE a = b
    <3>1. a \in batches \/ a = new
      BY <1>1
    <3>2. b \in batches \/ b = new
      BY <1>1
    <3>3. CASE a \in batches /\ b \in batches
      BY <1>2, <2>2, <3>3 DEF BatchesHold
    <3>4. CASE a = new /\ b \in batches
      BY <1>8, <1>9, <2>2, <3>4
    <3>5. CASE a \in batches /\ b = new
      BY <1>8, <1>9, <2>2, <3>5
    <3> QED
      BY <3>1, <3>2, <3>3, <3>4, <3>5
  <2> QED
    BY <2>1, <2>2 DEF BatchesHold
<1> QED
  BY <1>1, <1>5, <1>7, <1>11, BatchMoves

LEMMA BatchReturns ==
  ASSUME RayInv, NEW b \in batches, RayData!Return(b)
  PROVE  RayInv'
<1>1. /\ b.over = DOMAIN b.requests /\ batches' = batches \ {b}
      /\ rayRows' = [c \in DOMAIN rayRows |->
                       IF c \in b.clips THEN [rayRows[c] EXCEPT !.at = "captioned"] ELSE rayRows[c]]
      /\ UNCHANGED <<job, rayPhase, video, spans, mp4s, metas>>
  BY DEF RayData!Return, RayData!Replace, RayData!outputVars
<1>2. RowsHold /\ BatchesHold /\ BatchHolds(b) /\ rayPhase = "running"
  BY DEF RayInv, RayGoes, BatchesHold, RunHolds
<1>3. /\ DOMAIN rayRows' = DOMAIN rayRows /\ b.clips \subseteq DOMAIN rayRows
      /\ \A c \in b.clips : rayRows'[c] = [rayRows[c] EXCEPT !.at = "captioned"]
      /\ \A c \in DOMAIN rayRows : c \notin b.clips => rayRows'[c] = rayRows[c]
  BY <1>1, <1>2 DEF BatchHolds
<1>4. ASSUME NEW c \in DOMAIN rayRows PROVE RowHolds(c)'
  <2>1. RowHolds(c) /\ video'[c[1]] = "gone"
    BY <1>1, <1>2 DEF RowsHold, RowHolds
  <2>2. CASE c \in b.clips
    <3>1. Filled(rayRows[c].windows)
      <4> SUFFICES ASSUME NEW i \in DOMAIN rayRows[c].windows, rayRows[c].windows[i].index > 0
                   PROVE  rayRows[c].windows[i].said # RayData!Nothing
        BY DEF Filled
      <4>1. PICK k \in DOMAIN b.requests : b.requests[k][1] = c /\ b.requests[k][2] = i
        BY <1>2, <2>2 DEF BatchHolds
      <4>2. Places(b, k).said # RayData!Nothing
        BY <1>1, <1>2, <4>1 DEF BatchHolds
      <4> QED
        BY <4>1, <4>2 DEF Places
    <3>2. rayRows[c].at = "asked"
      BY <1>2, <2>2 DEF BatchHolds
    <3> QED
      BY <1>1, <1>3, <2>1, <2>2, <3>1, <3>2, StageMoves
  <2>3. CASE c \notin b.clips
    BY <1>1, <1>3, <2>1, <2>3, RowFrame
  <2> QED
    BY <2>2, <2>3
<1>5. BatchesHold'
  <2>1. ASSUME NEW a \in batches, a # b PROVE BatchHolds(a)'
    <3>1. BatchHolds(a) /\ a.clips \cap b.clips = {}
      BY <1>2, <2>1 DEF BatchesHold
    <3>2. a.clips \subseteq DOMAIN rayRows
      BY <3>1 DEF BatchHolds
    <3> QED
      BY <1>3, <3>1, <3>2, BatchFrame
  <2> QED
    BY <1>1, <1>2, <2>1 DEF BatchesHold
<1> QED
  BY <1>1, <1>2, <1>3, <1>4, <1>5, BatchMoves

\* A batch that goes on: it keeps its clips and its requests.
LEMMA BatchGoesOn ==
  ASSUME RayInv, NEW b \in batches, NEW over,
         RayData!Replace(b, {[b EXCEPT !.over = over]}),
         DOMAIN rayRows' = DOMAIN rayRows, \A c \in DOMAIN rayRows : c \notin b.clips => rayRows'[c] = rayRows[c],
         \A c \in b.clips : /\ rayRows'[c].at = "asked"
                            /\ DOMAIN rayRows'[c].windows = DOMAIN rayRows[c].windows
                            /\ \A i \in DOMAIN rayRows[c].windows :
                                 rayRows'[c].windows[i].index = rayRows[c].windows[i].index,
         \A k \in over : k \in DOMAIN b.requests /\ Places(b, k)'.said # RayData!Nothing
  PROVE  BatchesHold'
<1>1. BatchesHold /\ BatchHolds(b)
  BY DEF RayInv, RayGoes, BatchesHold
<1>2. PICK x, y, z : b = [clips |-> x, requests |-> y, over |-> z]
  BY <1>1 DEF BatchHolds
<1> DEFINE new == [b EXCEPT !.over = over]
<1>3. new = [clips |-> x, requests |-> y, over |-> over] /\ b.clips = x /\ b.requests = y
  BY <1>2
<1>4. batches' = (batches \ {b}) \cup {new}
  BY DEF RayData!Replace
<1> HIDE DEF new
<1>5. /\ new.clips = b.clips /\ new.requests = b.requests /\ new.over = over
      /\ new = [clips |-> new.clips, requests |-> new.requests, over |-> new.over]
  BY <1>3
<1>6. BatchHolds(new)'
  <2>1. \A k : Places(new, k)' = Places(b, k)'
    BY <1>5 DEF Places
  <2>2. new.clips \subseteq DOMAIN rayRows' /\ new.clips # {} /\ \A c \in new.clips : rayRows'[c].at = "asked"
    BY <1>1, <1>5 DEF BatchHolds
  <2>3. \A k \in DOMAIN new.requests :
          new.requests[k][1] \in new.clips /\ new.requests[k][2] \in DOMAIN rayRows'[new.requests[k][1]].windows
    BY <1>1, <1>5 DEF BatchHolds
  <2>4. \A c \in new.clips : \A i \in DOMAIN rayRows'[c].windows :
          rayRows'[c].windows[i].index > 0 =>
            \E k \in DOMAIN new.requests : new.requests[k][1] = c /\ new.requests[k][2] = i
    BY <1>1, <1>5 DEF BatchHolds
  <2>5. \A k \in new.over : k \in DOMAIN new.requests /\ Places(new, k)'.said # RayData!Nothing
    BY <1>5, <2>1
  <2> QED
    BY <1>5, <2>2, <2>3, <2>4, <2>5 DEF BatchHolds
<1>7. ASSUME NEW a \in batches, a # b PROVE BatchHolds(a)' /\ a.clips \cap b.clips = {}
  <2>1. BatchHolds(a) /\ a.clips \cap b.clips = {}
    BY <1>1, <1>7 DEF BatchesHold
  <2>2. a.clips \subseteq DOMAIN rayRows
    BY <2>1 DEF BatchHolds
  <2> QED
    BY <2>1, <2>2, BatchFrame
<1>8. ASSUME NEW a \in batches', NEW d \in batches', a.clips \cap d.clips # {} PROVE a = d
  <2>1. (a \in batches /\ a # b) \/ a = new
    BY <1>4
  <2>2. (d \in batches /\ d # b) \/ d = new
    BY <1>4
  <2>3. CASE a \in batches /\ a # b /\ d \in batches /\ d # b
    BY <1>1, <1>8, <2>3 DEF BatchesHold
  <2>4. CASE a = new /\ d \in batches /\ d # b
    BY <1>5, <1>7, <1>8, <2>4
  <2>5. CASE a \in batches /\ a # b /\ d = new
    BY <1>5, <1>7, <1>8, <2>5
  <2> QED
    BY <2>1, <2>2, <2>3, <2>4, <2>5
<1>9. ASSUME NEW a \in batches' PROVE BatchHolds(a)'
  BY <1>4, <1>6, <1>7
<1> QED
  BY <1>8, <1>9 DEF BatchesHold

\* What the engine says about a window goes into this window.
LEMMA RequestIsOver ==
  ASSUME RayInv, NEW b \in batches, NEW k \in DOMAIN b.requests, NEW how \in Outcomes,
         RayData!Complete(b, k, how)
  PROVE  RayInv'
<1>1. PICK c, j : c = b.requests[k][1] /\ j = b.requests[k][2]
  OBVIOUS
<1>2. PICK w : w = rayRows[c].windows
  OBVIOUS
<1>3. PICK x : x = [about |-> <<c, w[j].index>>, how |-> how]
  OBVIOUS
<1>4. /\ RayData!Replace(b, {[b EXCEPT !.over = @ \cup {k}]})
      /\ rayRows' = [rayRows EXCEPT ![c].windows[j].said = x]
      /\ UNCHANGED <<job, rayPhase, video, spans, mp4s, metas>>
  BY <1>1, <1>2, <1>3 DEF RayData!Complete, RayData!Place, RayData!outputVars
<1>5. RowsHold /\ BatchesHold /\ BatchHolds(b) /\ rayPhase = "running"
  BY DEF RayInv, RayGoes, BatchesHold, RunHolds
<1>6. c \in b.clips /\ c \in DOMAIN rayRows /\ j \in DOMAIN w /\ rayRows[c].at = "asked" /\ RowHolds(c)
  BY <1>1, <1>2, <1>5 DEF BatchHolds, RowsHold
<1> DEFINE X == [index : Nat, said : UNION {SaidOf(c, n) : n \in Nat}]
           u == [w EXCEPT ![j] = [w[j] EXCEPT !.said = x]]
<1>7. /\ DOMAIN rayRows' = DOMAIN rayRows
      /\ \A d \in DOMAIN rayRows : d # c => rayRows'[d] = rayRows[d]
      /\ rayRows'[c] = [rayRows[c] EXCEPT !.windows = u]
  BY <1>2, <1>4, <1>6
<1>8. WindowsHold(c, w)
  BY <1>2, <1>6 DEF RowHolds
<1>9. PICK n \in Nat : DOMAIN w = 1 .. n /\ \A i \in 1 .. n : w[i] \in X
  <2> HIDE DEF X
  <2>1. w \in Seq(X)
    BY <1>8, Zenon DEF WindowsHold, X
  <2>2. Len(w) \in Nat /\ DOMAIN w = 1 .. Len(w) /\ \A i \in 1 .. Len(w) : w[i] \in X
    BY <2>1, ElementOfSeq
  <2> QED
    BY <2>2
<1>10. PICK m, s : m \in Nat /\ w[j] = [index |-> m, said |-> s]
  BY <1>6, <1>9
<1>11. x \in SaidOf(c, m) /\ x # RayData!Nothing
  BY <1>3, <1>10 DEF SaidOf, RayData!Nothing
<1>12. u = [w EXCEPT ![j] = [index |-> m, said |-> x]]
  <2>1. [w[j] EXCEPT !.said = x] = [index |-> m, said |-> x]
    BY ONLY <1>10
  <2> QED
    BY ONLY <2>1
<1> HIDE DEF u
<1>13. /\ DOMAIN u = 1 .. n /\ u[j] = [index |-> m, said |-> x]
       /\ \A i \in 1 .. n : i # j => u[i] = w[i]
       /\ u = [i \in 1 .. n |-> u[i]]
  BY <1>6, <1>9, <1>12
<1>14. \A i \in 1 .. n : u[i].index = w[i].index
  BY <1>10, <1>13
<1>15. WindowsHold(c, u)
  <2>1. \A i \in 1 .. n : u[i] \in X
    <3>1. m \in Nat /\ x \in UNION {SaidOf(c, d) : d \in Nat}
      BY <1>10, <1>11
    <3>2. [index |-> m, said |-> x] \in X
      BY ONLY <3>1
    <3> HIDE DEF X
    <3> QED
      BY <1>9, <1>13, <3>2
  <2>2. u \in Seq(X)
    <3> HIDE DEF X
    <3>1. u \in [1 .. n -> X]
      BY <1>13, <2>1
    <3> QED
      BY <3>1, SeqDef
  <2>3. ASSUME NEW i \in 1 .. n
        PROVE  (u[i].index > 0 => u[i].index <= c[3] - c[2]) /\ u[i].said \in SaidOf(c, u[i].index)
    <3>1. (w[i].index > 0 => w[i].index <= c[3] - c[2]) /\ w[i].said \in SaidOf(c, w[i].index)
      BY <1>8, <1>9 DEF WindowsHold
    <3>2. CASE i = j
      BY <1>10, <1>11, <1>13, <3>1, <3>2
    <3>3. CASE i # j
      BY <1>13, <3>1, <3>3
    <3> QED
      BY <3>2, <3>3
  <2>4. \A i, l \in 1 .. n : i < l => u[i].index < u[l].index
    BY <1>8, <1>9, <1>14 DEF WindowsHold
  <2> HIDE DEF X
  <2> QED
    BY <1>13, <2>2, <2>3, <2>4 DEF WindowsHold, X
<1> HIDE DEF X
<1>16. rayRows'[c].at = "asked" /\ rayRows'[c].windows = u /\ RowHolds(c)'
  <2>1. PICK r, t : r = rayRows[c] /\ r = [at |-> "asked", torn |-> t, windows |-> w]
    BY <1>2, <1>6 DEF RowHolds
  <2>2. rayRows'[c] = [at |-> "asked", torn |-> t, windows |-> u]
    BY <1>7, <2>1
  <2>3. /\ rayRows'[c].at = "asked" /\ rayRows'[c].windows = u
        /\ rayRows'[c] = [at |-> rayRows'[c].at, torn |-> rayRows'[c].torn, windows |-> rayRows'[c].windows]
    BY ONLY <2>2, RowIs
  <2>4. c[1] \in RayVideos /\ c[2] \in Nat /\ c[3] \in Nat /\ video'[c[1]] = "gone" /\ c \in DOMAIN mp4s'
    BY <1>4, <1>6 DEF RowHolds
  <2> QED
    BY <1>15, <2>3, <2>4 DEF RowHolds
<1>17. ASSUME NEW d \in DOMAIN rayRows PROVE RowHolds(d)'
  <2>1. CASE d = c
    BY <1>16, <2>1
  <2>2. CASE d # c
    <3>1. RowHolds(d) /\ video'[d[1]] = "gone"
      BY <1>4, <1>5 DEF RowsHold, RowHolds
    <3> QED
      BY <1>4, <1>7, <2>2, <3>1, RowFrame
  <2> QED
    BY <2>1, <2>2
<1>18. BatchesHold'
  <2>1. PICK over : over = b.over \cup {k}
    OBVIOUS
  <2>2. RayData!Replace(b, {[b EXCEPT !.over = over]})
    BY <1>4, <2>1
  <2>3. \A d \in DOMAIN rayRows : d \notin b.clips => rayRows'[d] = rayRows[d]
    BY <1>6, <1>7
  <2>4. ASSUME NEW d \in b.clips
        PROVE  /\ rayRows'[d].at = "asked"
               /\ DOMAIN rayRows'[d].windows = DOMAIN rayRows[d].windows
               /\ \A i \in DOMAIN rayRows[d].windows :
                    rayRows'[d].windows[i].index = rayRows[d].windows[i].index
    <3>1. CASE d = c
      BY <1>2, <1>9, <1>13, <1>14, <1>16, <3>1
    <3>2. CASE d # c
      BY <1>5, <1>7, <3>2 DEF BatchHolds
    <3> QED
      BY <3>1, <3>2
  <2>5. ASSUME NEW l \in over PROVE l \in DOMAIN b.requests /\ Places(b, l)'.said # RayData!Nothing
    <3>1. l \in DOMAIN b.requests /\ (l = k \/ Places(b, l).said # RayData!Nothing)
      BY <1>5, <2>1 DEF BatchHolds
    <3>2. CASE b.requests[l][1] = c /\ b.requests[l][2] = j
      BY <1>11, <1>13, <1>16, <3>1, <3>2 DEF Places
    <3>3. CASE b.requests[l][1] = c /\ b.requests[l][2] # j
      <4>1. l # k /\ b.requests[l][2] \in 1 .. n
        BY <1>1, <1>2, <1>5, <1>9, <3>1, <3>3 DEF BatchHolds
      <4> QED
        BY <1>2, <1>13, <1>16, <3>1, <3>3, <4>1 DEF Places
    <3>4. CASE b.requests[l][1] # c
      <4>1. l # k /\ b.requests[l][1] \in DOMAIN rayRows
        BY <1>1, <1>5, <3>1, <3>4 DEF BatchHolds
      <4> QED
        BY <1>7, <3>1, <3>4, <4>1 DEF Places
    <3> QED
      BY <3>1, <3>2, <3>3, <3>4
  <2> QED
    BY <1>7, <2>2, <2>3, <2>4, <2>5, BatchGoesOn
<1> QED
  BY <1>4, <1>5, <1>7, <1>17, <1>18, BatchMoves

\* The batch of a worker that died: nothing is known of its windows any more.
LEMMA BatchStartsAgain ==
  ASSUME RayInv, NEW b \in batches, RayData!Again(b)
  PROVE  RayInv'
<1> DEFINE Fresh(q) == [i \in DOMAIN q |-> [q[i] EXCEPT !.said = RayData!Nothing]]
<1>1. /\ RayData!Replace(b, {[b EXCEPT !.over = {}]})
      /\ rayRows' = [c \in DOMAIN rayRows |->
                       IF c \notin b.clips THEN rayRows[c]
                       ELSE [rayRows[c] EXCEPT !.windows = Fresh(rayRows[c].windows)]]
      /\ UNCHANGED <<job, rayPhase, video, spans, mp4s, metas>>
  BY DEF RayData!Again, RayData!outputVars
<1>2. RowsHold /\ BatchesHold /\ BatchHolds(b) /\ rayPhase = "running"
  BY DEF RayInv, RayGoes, BatchesHold, RunHolds
<1>3. /\ DOMAIN rayRows' = DOMAIN rayRows /\ b.clips \subseteq DOMAIN rayRows
      /\ \A c \in b.clips : rayRows'[c] = [rayRows[c] EXCEPT !.windows = Fresh(rayRows[c].windows)]
      /\ \A c \in DOMAIN rayRows : c \notin b.clips => rayRows'[c] = rayRows[c]
  BY <1>1, <1>2 DEF BatchHolds
<1>4. ASSUME NEW c \in b.clips
      PROVE  /\ RowHolds(c)' /\ rayRows'[c].at = "asked"
             /\ DOMAIN rayRows'[c].windows = DOMAIN rayRows[c].windows
             /\ \A i \in DOMAIN rayRows[c].windows :
                  rayRows'[c].windows[i].index = rayRows[c].windows[i].index
  <2>1. c \in DOMAIN rayRows /\ rayRows[c].at = "asked" /\ RowHolds(c)
    BY <1>2 DEF BatchHolds, RowsHold
  <2> DEFINE X == [index : Nat, said : UNION {SaidOf(c, n) : n \in Nat}]
  <2>2. PICK r, t, w : r = rayRows[c] /\ r = [at |-> "asked", torn |-> t, windows |-> w]
    BY <2>1 DEF RowHolds
  <2>3. WindowsHold(c, w)
    BY <2>1, <2>2 DEF RowHolds
  <2>4. PICK n \in Nat : DOMAIN w = 1 .. n /\ \A i \in 1 .. n : w[i] \in X
    <3> HIDE DEF X
    <3>1. w \in Seq(X)
      BY <2>3, Zenon DEF WindowsHold, X
    <3>2. Len(w) \in Nat /\ DOMAIN w = 1 .. Len(w) /\ \A i \in 1 .. Len(w) : w[i] \in X
      BY <3>1, ElementOfSeq
    <3> QED
      BY <3>2
  <2>5. PICK u : u = Fresh(w)
    OBVIOUS
  <2>6. DOMAIN u = 1 .. n /\ u = [i \in 1 .. n |-> u[i]]
    BY <2>4, <2>5
  <2>7. ASSUME NEW i \in 1 .. n
        PROVE  /\ u[i].index = w[i].index /\ u[i].said = RayData!Nothing /\ w[i].index \in Nat
               /\ u[i] = [index |-> u[i].index, said |-> u[i].said]
    <3>1. PICK m, s : m \in Nat /\ w[i] = [index |-> m, said |-> s]
      BY <2>4
    <3>2. u[i] = [w[i] EXCEPT !.said = RayData!Nothing]
      BY <2>4, <2>5
    <3>3. [w[i] EXCEPT !.said = RayData!Nothing] = [index |-> m, said |-> RayData!Nothing]
      BY ONLY <3>1
    <3>4. u[i] = [index |-> m, said |-> RayData!Nothing]
      BY ONLY <3>2, <3>3
    <3> QED
      BY ONLY <3>1, <3>4
  <2>8. \A i \in 1 .. n : u[i].index = w[i].index /\ u[i].said = RayData!Nothing
    BY ONLY <2>7
  <2>9. WindowsHold(c, u)
    <3>1. \A i \in 1 .. n : u[i] \in X
      <4>1. RayData!Nothing \in UNION {SaidOf(c, j) : j \in Nat}
        <5>1. RayData!Nothing \in SaidOf(c, 0)
          BY DEF SaidOf
        <5> QED
          BY <5>1
      <4>2. ASSUME NEW i \in 1 .. n PROVE u[i] \in X
        <5>1. PICK m \in Nat : m = u[i].index
          BY <2>7
        <5>2. PICK y \in UNION {SaidOf(c, j) : j \in Nat} : y = u[i].said
          BY <2>7, <4>1
        <5>3. u[i] = [index |-> m, said |-> y]
          BY ONLY <2>7, <5>1, <5>2
        <5> QED
          BY ONLY <5>3
      <4> QED
        BY ONLY <4>2
    <3> HIDE DEF X
    <3>2. u \in Seq(X)
      <4>1. u \in [1 .. n -> X]
        BY <2>6, <3>1
      <4> QED
        BY <4>1, SeqDef
    <3>3. \A i \in 1 .. n : /\ u[i].index > 0 => u[i].index <= c[3] - c[2]
                            /\ u[i].said \in SaidOf(c, u[i].index)
      BY <2>3, <2>4, <2>8 DEF WindowsHold, SaidOf
    <3>4. \A i, k \in 1 .. n : i < k => u[i].index < u[k].index
      BY <2>3, <2>4, <2>8 DEF WindowsHold
    <3> QED
      BY <2>6, <3>2, <3>3, <3>4 DEF WindowsHold, X
  <2>10. rayRows'[c] = [at |-> "asked", torn |-> t, windows |-> u]
    <3>1. rayRows[c].windows = w
      BY <2>2
    <3>2. rayRows'[c] = [r EXCEPT !.windows = u]
      BY <1>3, <2>2, <2>5, <3>1
    <3> QED
      BY ONLY <2>2, <3>2
  <2>11. /\ rayRows'[c].at = "asked" /\ rayRows'[c].windows = u
         /\ rayRows'[c] = [at |-> rayRows'[c].at, torn |-> rayRows'[c].torn, windows |-> rayRows'[c].windows]
    BY ONLY <2>10, RowIs
  <2>12. c[1] \in RayVideos /\ c[2] \in Nat /\ c[3] \in Nat /\ video'[c[1]] = "gone" /\ c \in DOMAIN mp4s'
    BY <1>1, <2>1 DEF RowHolds
  <2>13. RowHolds(c)'
    BY <2>9, <2>11, <2>12 DEF RowHolds
  <2>14. rayRows[c].windows = w
    BY <2>2
  <2> QED
    BY <2>4, <2>6, <2>8, <2>11, <2>13, <2>14
<1>5. ASSUME NEW c \in DOMAIN rayRows PROVE RowHolds(c)'
  <2>1. RowHolds(c) /\ video'[c[1]] = "gone"
    BY <1>1, <1>2 DEF RowsHold, RowHolds
  <2>2. CASE c \in b.clips
    BY <1>4, <2>2
  <2>3. CASE c \notin b.clips
    BY <1>1, <1>3, <2>1, <2>3, RowFrame
  <2> QED
    BY <2>2, <2>3
<1>6. BatchesHold'
  <2>0. PICK over : over = {}
    OBVIOUS
  <2>1. RayData!Replace(b, {[b EXCEPT !.over = over]})
    BY <1>1, <2>0
  <2>2. \A c \in DOMAIN rayRows : c \notin b.clips => rayRows'[c] = rayRows[c]
    BY <1>3
  <2>3. \A k \in over : k \in DOMAIN b.requests /\ Places(b, k)'.said # RayData!Nothing
    BY <2>0
  <2> HIDE DEF Fresh
  <2> QED
    BY <1>3, <1>4, <2>1, <2>2, <2>3, BatchGoesOn
<1> QED
  BY <1>1, <1>2, <1>3, <1>5, <1>6, BatchMoves

-----------------------------------------------------------------------------
\* The sums of the summary, each with a name.
Counted(S) == RayData!MapThenSumSet(LAMBDA c : RayData!NumWindows(rayRows[c].windows), S)
Stated(S) == RayData!MapThenSumSet(RayData!Said, S)

SummaryHolds ==
  rayPhase = "done" =>
    /\ \A c \in DOMAIN rayRows : c[1] \in DOMAIN raySummary /\ c \in DOMAIN metas
    /\ \A v \in DOMAIN raySummary :
         /\ RayData!ToSet(raySummary[v].clips) \subseteq {c \in DOMAIN mp4s : c[1] = v}
         /\ raySummary[v].clips # <<>>
         /\ \A i, k \in DOMAIN raySummary[v].clips : i < k => raySummary[v].clips[i][2] < raySummary[v].clips[k][2]
         /\ raySummary[v].windows = Stated(RayData!ToSet(raySummary[v].clips))
         /\ raySummary[v].said = RayData!Cardinality({c \in RayData!ToSet(raySummary[v].clips) : RayData!Said(c) > 0})

LEMMA SummaryIs == (SummaryHolds <=> RayData!SummaryTrue) /\ (SummaryHolds' => RayData!SummaryTrue')
  BY Zenon DEF SummaryHolds, RayData!SummaryTrue, Stated

\* Two counts that agree on the members of a set have the same sum over it.
LEMMA SumsAgree ==
  ASSUME NEW S, metas' = metas, \A c \in S : RayData!NumWindows(rayRows[c].windows) = RayData!Said(c)
  PROVE  Counted(S) = Stated(S)'
<1> DEFINE
           A(f) == f = [s \in SUBSET S |->
                          IF s = {} THEN 0
                          ELSE RayData!NumWindows(rayRows[CHOOSE x \in s : TRUE].windows)
                                 + f[s \ {CHOOSE x \in s : TRUE}]]
           B(f) == f = [s \in SUBSET S |->
                          IF s = {} THEN 0
                          ELSE RayData!Said(CHOOSE x \in s : TRUE) + f[s \ {CHOOSE x \in s : TRUE}]]
<1>1. \A c : RayData!Said(c)' = RayData!Said(c)
  BY DEF RayData!Said
<1>2. ASSUME NEW f PROVE A(f) <=> B(f)
  <2> DEFINE X(s) == IF s = {} THEN 0
                     ELSE RayData!NumWindows(rayRows[CHOOSE x \in s : TRUE].windows)
                            + f[s \ {CHOOSE x \in s : TRUE}]
             Y(s) == IF s = {} THEN 0
                     ELSE RayData!Said(CHOOSE x \in s : TRUE) + f[s \ {CHOOSE x \in s : TRUE}]
  <2>1. ASSUME NEW s \in SUBSET S PROVE X(s) = Y(s)
    <3>1. CASE s = {}
      BY <3>1
    <3>2. CASE s # {}
      <4>1. (CHOOSE x \in s : TRUE) \in S
        BY <3>2
      <4>2. RayData!NumWindows(rayRows[CHOOSE x \in s : TRUE].windows) = RayData!Said(CHOOSE x \in s : TRUE)
        BY <4>1, Zenon
      <4> QED
        BY <4>2, Zenon
    <3> QED
      BY <3>1, <3>2
  <2> HIDE DEF X, Y
  <2>2. [s \in SUBSET S |-> X(s)] = [s \in SUBSET S |-> Y(s)]
    BY <2>1, Zenon
  <2> QED
    BY <2>2, Zenon DEF X, Y
<1>3. Counted(S) = (CHOOSE f : A(f))[S]
  BY Zenon DEF Counted, RayData!MapThenSumSet, RayData!MapThenFoldSet
<1>4. Stated(S)' = (CHOOSE f : B(f))[S]
  BY <1>1, Zenon DEF Stated, RayData!MapThenSumSet, RayData!MapThenFoldSet
<1> HIDE DEF A, B
<1>5. (CHOOSE f : A(f)) = (CHOOSE f : B(f))
  BY <1>2, Zenon
<1> QED
  BY <1>3, <1>4, <1>5, Zenon

LEMMA StatedRests ==
  ASSUME NEW S, metas' = metas
  PROVE  Stated(S)' = Stated(S)
<1> DEFINE B(f) == f = [s \in SUBSET S |->
                          IF s = {} THEN 0
                          ELSE RayData!Said(CHOOSE x \in s : TRUE) + f[s \ {CHOOSE x \in s : TRUE}]]
<1>1. \A c : RayData!Said(c)' = RayData!Said(c)
  BY DEF RayData!Said
<1>2. Stated(S) = (CHOOSE f : B(f))[S]
  BY Zenon DEF Stated, RayData!MapThenSumSet, RayData!MapThenFoldSet
<1>3. Stated(S)' = (CHOOSE f : B(f))[S]
  BY <1>1, Zenon DEF Stated, RayData!MapThenSumSet, RayData!MapThenFoldSet
<1> HIDE DEF B
<1> QED
  BY <1>2, <1>3, Zenon

-----------------------------------------------------------------------------
\* The driver: the summary counts what the metadata says.
LEMMA RunEnds == RayInv /\ RayData!WriteSummary => RayInv'
<1> SUFFICES ASSUME RayInv, RayData!WriteSummary PROVE RayInv'
  OBVIOUS
<1>1. /\ rayPhase = "running" /\ rayPhase' = "done" /\ \A c \in DOMAIN rayRows : rayRows[c].at = "out"
      /\ raySummary' = [v \in {u \in RayVideos : RayData!Listed(u) # {}} |-> RayData!Entry(v)]
      /\ UNCHANGED <<job, video, spans, rayRows, batches, mp4s, metas>>
  BY DEF RayData!WriteSummary
<1>2. RayTypes /\ RowsHold /\ BatchesHold /\ \A c \in DOMAIN metas : MetaHome(c, metas[c])
  BY DEF RayInv, RayGoes
<1>3. batches = {}
  <2> SUFFICES ASSUME NEW b \in batches PROVE FALSE
    OBVIOUS
  <2>1. BatchHolds(b)
    BY <1>2 DEF BatchesHold
  <2> QED
    BY <1>1, <2>1 DEF BatchHolds
<1>4. RayTypes'
  BY <1>1, <1>2 DEF RayTypes
<1>5. RowsHold'
  <2>1. ASSUME NEW c \in DOMAIN rayRows PROVE RowHolds(c)'
    BY <1>1, <1>2, RowFrame DEF RowsHold, RowHolds
  <2> QED
    BY <1>1, <1>2, <2>1 DEF RowsHold
<1>6. BatchesHold' /\ RunHolds'
  BY <1>1, <1>3 DEF BatchesHold, RunHolds
<1>7. ASSUME NEW c \in DOMAIN rayRows
      PROVE  /\ c[1] \in RayVideos /\ c[2] \in Nat /\ c \in DOMAIN metas /\ c \in DOMAIN mp4s
             /\ RayData!NumWindows(rayRows[c].windows) = RayData!Said(c)
  <2>1. RowHolds(c) /\ rayRows[c].at = "out"
    BY <1>1, <1>2 DEF RowsHold
  <2>2. /\ c[1] \in RayVideos /\ c[2] \in Nat /\ c[3] \in Nat /\ WindowsHold(c, rayRows[c].windows)
        /\ c \in DOMAIN metas /\ metas[c] = RayData!Meta(rayRows[c].windows) /\ c \in DOMAIN mp4s
    BY <2>1 DEF RowHolds
  <2>3. RayData!NumWindows(rayRows[c].windows) = Cardinality({i \in DOMAIN metas[c] : metas[c][i].caption # <<>>})
    BY <2>2, MetaIs
  <2>4. RayData!Said(c) = Cardinality({i \in DOMAIN metas[c] : metas[c][i].caption # <<>>})
    BY RaySets, Zenon DEF RayData!Said
  <2> QED
    BY <2>2, <2>3, <2>4
<1>8. ASSUME NEW v \in DOMAIN raySummary'
      PROVE  LET e == raySummary'[v] IN
             /\ RayData!ToSet(e.clips) \subseteq {c \in DOMAIN mp4s : c[1] = v} /\ e.clips # <<>>
             /\ \A i, k \in DOMAIN e.clips : i < k => e.clips[i][2] < e.clips[k][2]
             /\ e.windows = Stated(RayData!ToSet(raySummary[v].clips))'
             /\ e.said = RayData!Cardinality({c \in RayData!ToSet(e.clips) : RayData!Said(c) > 0})
  <2>1. PICK S, q, e : /\ S = RayData!Listed(v) /\ e = raySummary'[v]
                       /\ q = RayData!InOrder(S, LAMBDA c, d : c[2] < d[2])
    OBVIOUS
  <2>2. v \in RayVideos /\ S # {} /\ S = {c \in DOMAIN rayRows : c[1] = v} /\ e = RayData!Entry(v)
    BY <1>1, <2>1 DEF RayData!Listed
  <2>3. /\ e.clips = q /\ e.windows = Counted(S)
        /\ e.said = RayData!Cardinality({c \in S : RayData!NumWindows(rayRows[c].windows) > 0})
    <3> DEFINE said == RayData!Cardinality({c \in S : RayData!NumWindows(rayRows[c].windows) > 0})
    <3>1. RayData!Entry(v) = [clips |-> q, windows |-> Counted(S), said |-> said]
      BY <2>1, Zenon DEF RayData!Entry, Counted
    <3> HIDE DEF said
    <3>2. e.clips = q /\ e.windows = Counted(S) /\ e.said = said
      BY <2>2, <3>1
    <3> QED
      BY <3>2 DEF said
  <2>4. IsFiniteSet(S) /\ (\A c \in S : c[2] \in Nat) /\ \A c, d \in S : c[2] = d[2] => c = d
    <3>1. IsFiniteSet(S)
      BY <1>2, <2>2, FS_Subset DEF RayTypes
    <3>2. \A c, d \in S : c[2] = d[2] => c = d
      BY <1>2, <2>2 DEF RowsHold
    <3>3. \A c \in S : c[2] \in Nat
      BY <1>7, <2>2
    <3> QED
      BY <3>1, <3>2, <3>3
  <2>5. ToSet(q) = S /\ \A i, k \in DOMAIN q : i < k => q[i][2] < q[k][2]
    BY <2>1, <2>4, InTime
  <2>6. RayData!ToSet(e.clips) = S
    BY <2>3, <2>5, RaySets
  <2>7. S \subseteq {c \in DOMAIN mp4s : c[1] = v}
    BY <1>7, <2>2
  <2>8. e.clips # <<>>
    <3>1. ToSet(<<>>) = {}
      BY DEF ToSet
    <3> QED
      BY <2>2, <2>3, <2>5, <3>1
  <2>9. \A c \in S : RayData!NumWindows(rayRows[c].windows) = RayData!Said(c)
    BY <1>7, <2>2
  <2>10. e.windows = Stated(RayData!ToSet(raySummary[v].clips))'
    <3>1. Counted(S) = Stated(S)'
      BY <1>1, <2>9, SumsAgree
    <3>2. RayData!ToSet(raySummary'[v].clips) = S
      BY <2>1, <2>6
    <3> QED
      BY <2>3, <3>1, <3>2, Zenon
  <2>11. e.said = RayData!Cardinality({c \in S : RayData!Said(c) > 0})
    <3>1. {c \in S : RayData!NumWindows(rayRows[c].windows) > 0} = {c \in S : RayData!Said(c) > 0}
      BY <2>9
    <3> QED
      BY <2>3, <3>1
  <2> QED
    BY <2>1, <2>3, <2>5, <2>6, <2>7, <2>8, <2>10, <2>11
<1>9. ASSUME NEW c \in DOMAIN rayRows PROVE c[1] \in DOMAIN raySummary' /\ c \in DOMAIN metas
  BY <1>1, <1>7 DEF RayData!Listed
<1>10. RayData!SummaryTrue'
  <2>1. \A c : RayData!Said(c)' = RayData!Said(c)
    BY <1>1 DEF RayData!Said
  <2>2. ASSUME NEW v \in DOMAIN raySummary'
        PROVE  /\ RayData!ToSet(raySummary[v].clips)' \subseteq {c \in DOMAIN mp4s' : c[1] = v}
               /\ raySummary'[v].clips # <<>>
               /\ \A i, k \in DOMAIN raySummary'[v].clips :
                    i < k => raySummary'[v].clips[i][2] < raySummary'[v].clips[k][2]
               /\ raySummary'[v].windows = Stated(RayData!ToSet(raySummary[v].clips))'
               /\ raySummary'[v].said =
                    RayData!Cardinality({c \in RayData!ToSet(raySummary[v].clips) : RayData!Said(c) > 0})'
    <3>1. {c \in RayData!ToSet(raySummary'[v].clips) : RayData!Said(c)' > 0} =
          {c \in RayData!ToSet(raySummary'[v].clips) : RayData!Said(c) > 0}
      BY <2>1
    <3>2. {c \in DOMAIN mp4s' : c[1] = v} = {c \in DOMAIN mp4s : c[1] = v}
      BY <1>1
    <3> QED
      BY <1>8, <3>1, <3>2, Zenon
  <2>3. \A c \in DOMAIN rayRows' : c[1] \in DOMAIN raySummary' /\ c \in DOMAIN metas'
    BY <1>1, <1>9
  <2>4. SummaryHolds'
    BY <2>2, <2>3, Zenon DEF SummaryHolds
  <2> QED
    BY <2>4, SummaryIs
<1> QED
  BY <1>1, <1>2, <1>4, <1>5, <1>6, <1>10 DEF RayInv, RayGoes

-----------------------------------------------------------------------------
\* Every step of the pipeline, and every step of another part.
LEMMA RayStep == RayInv /\ RayData!Next => RayInv'
<1> SUFFICES ASSUME RayInv, RayData!Next PROVE RayInv'
  OBVIOUS
<1>1. CASE RayData!Begin
  BY <1>1, RunBegins
<1>2. CASE RayData!WriteSummary
  BY <1>2, RunEnds
<1>3. ASSUME NEW v \in RayVideos, RayData!Read(v) PROVE RayInv'
  <2>1. RayData!Goes(v, "listed", "read") /\ spans' = spans /\ rayRows' = rayRows
    BY <1>3 DEF RayData!Read
  <2>2. spans' = [spans EXCEPT ![v] = spans[v]] /\ SpansHold(spans[v])
    BY <2>1 DEF RayInv, RayGoes, RayTypes
  <2> QED
    BY <2>1, <2>2, VideoGoes
<1>4. ASSUME NEW v \in RayVideos, RayData!ReadFails(v) PROVE RayInv'
  BY <1>4, RunFails DEF RayData!ReadFails
<1>5. ASSUME NEW v \in RayVideos, RayData!Split(v) PROVE RayInv'
  <2>1. RayData!Goes(v, "read", "split") /\ rayRows' = rayRows
    BY <1>5 DEF RayData!Split
  <2>2. PICK q \in RayData!Spans(Duration[v]) : spans' = [spans EXCEPT ![v] = q]
    BY <1>5 DEF RayData!Split
  <2>3. SpansHold(q)
    BY SpansAre DEF RayInv, RayGoes
  <2> QED
    BY <2>1, <2>2, <2>3, VideoGoes
<1>6. ASSUME NEW v \in RayVideos, RayData!Transcode(v) PROVE RayInv'
  BY <1>6, ClipsAreMade
<1>7. ASSUME NEW c \in DOMAIN rayRows, RayData!WriteClip(c) PROVE RayInv'
  BY <1>7, ClipIsWritten
<1>8. ASSUME NEW c \in DOMAIN rayRows, RayData!WriteFails(c) PROVE RayInv'
  <2>1. RayData!Fails /\ mp4s' \in {mp4s} \cup IF rayRows[c].torn THEN {RayData!With(mp4s, c, "torn")} ELSE {}
    BY <1>8 DEF RayData!WriteFails
  <2>2. DOMAIN mp4s \subseteq DOMAIN RayData!With(mp4s, c, "torn")
    BY DEF RayData!With
  <2>3. DOMAIN mp4s \subseteq DOMAIN mp4s'
    BY <2>1, <2>2
  <2> QED
    BY <2>1, <2>3, RunFails
<1>9. ASSUME NEW c \in DOMAIN rayRows, RayData!Prepare(c) PROVE RayInv'
  BY <1>9, ClipIsPrepared
<1>10. ASSUME NEW c \in DOMAIN rayRows, RayData!PrepareFails(c) PROVE RayInv'
  BY <1>10, RunFails DEF RayData!PrepareFails
<1>11. ASSUME NEW c \in DOMAIN rayRows, RayData!WriteMeta(c) PROVE RayInv'
  BY <1>11, MetaIsWritten
<1>12. ASSUME NEW B \in SUBSET {c \in DOMAIN rayRows : rayRows[c].at = "windowed"},
              RayData!Cardinality(B) \in 1 .. BatchSize /\ RayData!Ask(B)
       PROVE  RayInv'
  BY <1>12, BatchIsAsked
<1>13. ASSUME NEW b \in batches, RayData!Return(b) PROVE RayInv'
  BY <1>13, BatchReturns
<1>14. ASSUME NEW b \in batches, RayData!Again(b) PROVE RayInv'
  BY <1>14, BatchStartsAgain
<1>15. ASSUME NEW b \in batches, RayData!BatchFails(b) PROVE RayInv'
  BY <1>15, RunFails DEF RayData!BatchFails
<1>16. ASSUME NEW b \in batches, NEW i \in DOMAIN b.requests, NEW how \in Outcomes, RayData!Complete(b, i, how)
       PROVE  RayInv'
  BY <1>16, RequestIsOver
<1> QED
  BY <1>1, <1>2, <1>3, <1>4, <1>5, <1>6, <1>7, <1>8, <1>9, <1>10, <1>11, <1>12, <1>13, <1>14, <1>15, <1>16, Zenon
     DEF RayData!Next

LEMMA RayRests == RayInv /\ UNCHANGED rayVars => RayInv'
<1> SUFFICES ASSUME RayInv, UNCHANGED rayVars PROVE RayInv'
  OBVIOUS
<1>1. UNCHANGED <<job, rayPhase, video, spans, rayRows, batches, mp4s, metas, raySummary>>
  BY DEF rayVars
<1>2. RayTypes' /\ RunHolds' /\ (\A c \in DOMAIN metas : MetaHome(c, metas[c]))'
  BY <1>1 DEF RayInv, RayGoes, RayTypes, RunHolds
<1>3. RowsHold'
  <2>1. ASSUME NEW c \in DOMAIN rayRows PROVE RowHolds(c)'
    BY <1>1, RowFrame DEF RayInv, RayGoes, RowsHold, RowHolds
  <2> QED
    BY <1>1, <2>1 DEF RayInv, RayGoes, RowsHold
<1>4. BatchesHold'
  <2>1. ASSUME NEW b \in batches PROVE BatchHolds(b)'
    <3>1. BatchHolds(b)
      BY DEF RayInv, RayGoes, BatchesHold
    <3> QED
      BY <1>1, <3>1, BatchFrame
  <2> QED
    BY <1>1, <2>1 DEF RayInv, RayGoes, BatchesHold
<1>5. RayData!SummaryTrue'
  <2>1. SummaryHolds
    BY SummaryIs DEF RayInv
  <2>2. \A S : Stated(S)' = Stated(S)
    BY <1>1, StatedRests
  <2>3. \A c : RayData!Said(c)' = RayData!Said(c)
    BY <1>1 DEF RayData!Said
  <2>4. \A v : Stated(RayData!ToSet(raySummary[v].clips))' = Stated(RayData!ToSet(raySummary[v].clips))
    BY <1>1, <2>2, Zenon
  <2>5. SummaryHolds'
    <3>1. ASSUME rayPhase = "done", NEW v \in DOMAIN raySummary
          PROVE  /\ RayData!ToSet(raySummary[v].clips)' \subseteq {c \in DOMAIN mp4s' : c[1] = v}
                 /\ raySummary'[v].clips # <<>>
                 /\ \A i, k \in DOMAIN raySummary'[v].clips :
                      i < k => raySummary'[v].clips[i][2] < raySummary'[v].clips[k][2]
                 /\ raySummary'[v].windows = Stated(RayData!ToSet(raySummary[v].clips))'
                 /\ raySummary'[v].said =
                      RayData!Cardinality({c \in RayData!ToSet(raySummary[v].clips) : RayData!Said(c) > 0})'
      <4>1. {c \in RayData!ToSet(raySummary'[v].clips) : RayData!Said(c)' > 0} =
            {c \in RayData!ToSet(raySummary[v].clips) : RayData!Said(c) > 0}
        BY <1>1, <2>3
      <4>2. raySummary' = raySummary /\ mp4s' = mp4s
        BY <1>1
      <4> QED
        BY <2>1, <2>4, <3>1, <4>1, <4>2, Zenon DEF SummaryHolds
    <3>2. rayPhase = "done" => \A c \in DOMAIN rayRows' : c[1] \in DOMAIN raySummary' /\ c \in DOMAIN metas'
      BY <1>1, <2>1 DEF SummaryHolds
    <3>3. rayPhase' = rayPhase /\ raySummary' = raySummary
      BY <1>1
    <3> QED
      BY <3>1, <3>2, <3>3, Zenon DEF SummaryHolds
  <2> QED
    BY <2>5, SummaryIs
<1> QED
  BY <1>2, <1>3, <1>4, <1>5 DEF RayInv, RayGoes

LEMMA RayKeeps == RayInv => RayDataSound
<1> SUFFICES ASSUME RayInv PROVE RayDataSound
  OBVIOUS
<1>1. RayData!FileFirst
  BY DEF RayInv, RayGoes, RayTypes, RayData!FileFirst
<1>2. RayData!CaptionsHome
  BY DEF RayInv, RayGoes, MetaHome, RayData!CaptionsHome
<1>3. RayData!NothingLost
  <2> SUFFICES ASSUME rayPhase = "done", NEW c \in DOMAIN rayRows, NEW w \in ToSet(rayRows[c].windows), w.index > 0
               PROVE  w.said # RayData!Nothing /\ \E m \in ToSet(metas[c]) : m.index = w.index
    BY RaySets DEF RayData!NothingLost
  <2>1. RowHolds(c) /\ rayRows[c].at = "out"
    BY DEF RayInv, RayGoes, RowsHold, RunHolds
  <2> DEFINE q == rayRows[c].windows
             m == RayData!Meta(q)
  <2>2. c[2] \in Nat /\ c[3] \in Nat /\ WindowsHold(c, q) /\ Filled(q) /\ metas[c] = m
    BY <2>1 DEF RowHolds
  <2>3. PICK i \in DOMAIN q : q[i] = w
    BY DEF ToSet
  <2> HIDE DEF q
  <2>4. PICK k \in DOMAIN m : m[k].index = w.index
    BY <2>2, <2>3, MetaIs
  <2> HIDE DEF m
  <2>5. m[k] \in ToSet(m)
    BY <2>4 DEF ToSet
  <2> QED
    BY <2>2, <2>3, <2>4, <2>5 DEF Filled
<1> QED
  BY <1>1, <1>2, <1>3 DEF RayInv, RayDataSound, RayData!RayDataSound

\* The output of the Ray Data pipeline holds what RayDataSound says, whatever the order in which
\* requests complete, for any videos, configurations, batches, failures and runs: no metadata
\* without its file, a caption only under its own window, a summary that counts what the metadata
\* says, and no window lost of a run that is done (_generate_clip_rows, write_summary_from_rows).
THEOREM RayDataIsSound == PartSpec => []RayDataSound
<1>1. PartInit => RayInv
  BY RayInit DEF PartInit
<1>2. RayInv /\ [PartNext]_partVars => RayInv'
  <2> SUFFICES ASSUME RayInv, [PartNext]_partVars PROVE RayInv'
    OBVIOUS
  <2>1. CASE part = "raydata" /\ RayData!Next
    BY <2>1, RayStep
  <2>2. CASE UNCHANGED rayVars
    BY <2>2, RayRests
  <2> QED
    BY <2>1, <2>2 DEF PartNext, partVars
<1>3. RayInv => RayDataSound
  BY RayKeeps
<1> QED
  BY <1>1, <1>2, <1>3, PTL DEF PartSpec

-----------------------------------------------------------------------------
(* ShardDataset: what is promised of a dataset that is listed.                *)

ShardClips == 1 .. NumClips

ShardInput == meta \in [ShardClips -> Metas] /\ excluded \in SUBSET ShardClips /\ drop \in BOOLEAN

LEMMA ShardConstants ==
  /\ NumClips \in Nat /\ Target \in Nat /\ MinClips \in Nat /\ MaxTars \in Nat \ {0} /\ NoBin \notin Bins
  /\ \A m \in Metas : m.size \in Nat /\ m.bin \in Bins \cup {NoBin} /\ m.captions \in Seq(BOOLEAN)
  /\ Shard!Clips = ShardClips /\ IsFiniteSet(ShardClips) /\ ShardClips \subseteq Nat
<1>1. NumClips \in Nat /\ Target \in Nat /\ MinClips \in Nat /\ MaxTars \in Nat \ {0} /\ NoBin \notin Bins
  BY ShardAssumption
<1>2. \A m \in Metas : m.size \in Nat /\ m.bin \in Bins \cup {NoBin} /\ m.captions \in Seq(BOOLEAN)
  BY ShardAssumption
<1>3. IsFiniteSet(1 .. NumClips) /\ 1 .. NumClips \subseteq Nat
  BY <1>1, FS_Interval
<1> QED
  BY <1>1, <1>2, <1>3 DEF ShardClips, Shard!Clips

\* The operators of the libraries are those of this module.
LEMMA ShardLibrary ==
  /\ \A S : Shard!SetToSeqs(S) = SetToSeqs(S)
  /\ \A S : Shard!Cardinality(S) = Cardinality(S)
  /\ \A q : Shard!ToSet(q) = ToSet(q)
  /\ \A q : Shard!FlattenSeq(q) = FlattenSeq(q)
  /\ \A q, e : Shard!Contains(q, e) <=> e \in ToSet(q)
<1>1. \A S : Shard!Cardinality(S) = Cardinality(S)
  BY DEF Shard!Cardinality, Cardinality
<1>2. \A S : Shard!SetToSeqs(S) = SetToSeqs(S)
  BY <1>1, Zenon DEF Shard!SetToSeqs, SetToSeqs
<1>3. \A q : Shard!ToSet(q) = ToSet(q)
  BY DEF Shard!ToSet, ToSet
<1>4. \A q : Shard!FlattenSeq(q) = FlattenSeq(q)
  BY DEF Shard!FlattenSeq, FlattenSeq
<1>5. \A q, e : Shard!Contains(q, e) <=> e \in ToSet(q)
  BY DEF Shard!Contains, ToSet
<1> QED
  BY <1>1, <1>2, <1>3, <1>4, <1>5

\* Numbers in their order.
LEMMA AscendingIs ==
  ASSUME NEW S, IsFiniteSet(S), S \subseteq Nat
  PROVE  /\ Shard!Ascending(S) \in Seq(S) /\ IsInjective(Shard!Ascending(S)) /\ ToSet(Shard!Ascending(S)) = S
         /\ \A i, k \in DOMAIN Shard!Ascending(S) : i < k => Shard!Ascending(S)[i] < Shard!Ascending(S)[k]
<1> DEFINE q == Shard!Ascending(S)
           R == {p \in S \X S : p[1] < p[2]}
<1>1. \A x, y \in S : <<x, y>> \in R <=> x < y
  OBVIOUS
<1>2. PICK p \in SetToSeqs(S) : \A i, k \in DOMAIN p : i < k => <<p[i], p[k]>> \in R
  <2> HIDE DEF R
  <2>1. \A x \in S : <<x, x>> \notin R
    BY <1>1
  <2>2. \A x, y, z \in S : <<x, y>> \in R /\ <<y, z>> \in R => <<x, z>> \in R
    BY <1>1
  <2>3. \A x, y \in S : x # y => <<x, y>> \in R \/ <<y, x>> \in R
    BY <1>1
  <2> QED
    BY ONLY IsFiniteSet(S), <2>1, <2>2, <2>3, SortedOnce
<1>3. p \in Shard!SetToSeqs(S) /\ \A i, k \in DOMAIN p : i < k => p[i] < p[k]
  BY <1>2, ShardLibrary
<1>4. q \in Shard!SetToSeqs(S) /\ \A i, k \in DOMAIN q : i < k => q[i] < q[k]
  BY <1>3, Zenon DEF Shard!Ascending
<1> HIDE DEF q
<1> QED
  BY <1>4, ShardLibrary, ArrangedOnce DEF q

\* Samples of one bin, as a set, and in their order.
Sampled(b) == {c \in Shard!Samples : meta[c].bin = b}

LEMMA BinnedIs ==
  ASSUME NEW b
  PROVE  /\ Shard!Binned(b) \in Seq(ShardClips) /\ IsInjective(Shard!Binned(b))
         /\ ToSet(Shard!Binned(b)) = Sampled(b)
         /\ \A i, k \in DOMAIN Shard!Binned(b) : i < k => Shard!Binned(b)[i] < Shard!Binned(b)[k]
<1>1. Sampled(b) \in SUBSET ShardClips
  BY ShardConstants DEF Sampled, Shard!Samples
<1>2. Sampled(b) \in SUBSET Nat /\ IsFiniteSet(Sampled(b))
  BY <1>1, ShardConstants, FS_Subset
<1>3. Shard!Binned(b) = Shard!Ascending(Sampled(b))
  BY DEF Shard!Binned, Sampled
<1>4. Seq(Sampled(b)) \subseteq Seq(ShardClips)
  BY <1>1
<1> QED
  BY <1>2, <1>3, <1>4, AscendingIs

-----------------------------------------------------------------------------
(* The groups of a bin: they have its samples, each once, in their order.     *)

\* o is what is between m and n in s.
Piece(o, s, m, n) == o \in Seq(ShardClips) /\ Len(o) = n - m /\ \A i \in 1 .. n - m : o[i] = s[m + i]

\* d cuts up the first m of s.
CutUp(d, s, m) ==
  /\ d \in Seq(Seq(ShardClips))
  /\ \A g \in DOMAIN d : d[g] # <<>> /\ IsInjective(d[g])
  /\ \A g, h \in DOMAIN d : g # h => ToSet(d[g]) \cap ToSet(d[h]) = {}
  /\ \A g \in DOMAIN d : \A c \in ToSet(d[g]) : \E i \in 1 .. m : s[i] = c
  /\ \A i \in 1 .. m : \E g \in DOMAIN d : s[i] \in ToSet(d[g])

LEMMA PieceOnce ==
  ASSUME NEW s \in Seq(ShardClips), IsInjective(s), NEW m \in 0 .. Len(s), NEW n \in 0 .. Len(s), m < n,
         NEW o, Piece(o, s, m, n)
  PROVE  /\ o # <<>> /\ IsInjective(o) /\ DOMAIN o = 1 .. n - m
         /\ \A c \in ToSet(o) : \E i \in m + 1 .. n : s[i] = c
         /\ \A i \in m + 1 .. n : s[i] \in ToSet(o)
<1>1. /\ o \in Seq(ShardClips) /\ Len(o) = n - m /\ DOMAIN o = 1 .. n - m /\ DOMAIN s = 1 .. Len(s)
      /\ Len(s) \in Nat
  BY DEF Piece
<1>2. o # <<>>
  BY <1>1
<1>3. ASSUME NEW i \in 1 .. n - m PROVE o[i] = s[m + i] /\ m + i \in m + 1 .. n /\ m + i \in 1 .. Len(s)
  BY <1>1 DEF Piece
<1>4. IsInjective(o)
  <2> SUFFICES ASSUME NEW i \in 1 .. n - m, NEW k \in 1 .. n - m, o[i] = o[k] PROVE i = k
    BY <1>1 DEF IsInjective
  <2>1. m + i \in DOMAIN s /\ m + k \in DOMAIN s /\ s[m + i] = s[m + k]
    BY <1>1, <1>3
  <2>2. m + i = m + k
    BY <2>1 DEF IsInjective
  <2> QED
    BY <2>2
<1>5. ASSUME NEW c \in ToSet(o) PROVE \E i \in m + 1 .. n : s[i] = c
  <2>1. PICK i \in 1 .. n - m : o[i] = c
    BY <1>1 DEF ToSet
  <2>2. m + i \in m + 1 .. n /\ s[m + i] = c
    BY <1>3, <2>1
  <2> QED
    BY <2>2
<1>6. ASSUME NEW i \in m + 1 .. n PROVE s[i] \in ToSet(o)
  <2>1. i - m \in 1 .. n - m /\ m + (i - m) = i
    OBVIOUS
  <2>2. o[i - m] = s[m + (i - m)]
    BY <1>3, <2>1
  <2> QED
    BY <1>1, <2>1, <2>2 DEF ToSet
<1> QED
  BY <1>1, <1>2, <1>4, <1>5, <1>6

LEMMA CutOn ==
  ASSUME NEW s \in Seq(ShardClips), IsInjective(s), NEW m \in 0 .. Len(s), NEW n \in 0 .. Len(s), m < n,
         NEW o, Piece(o, s, m, n), NEW d, CutUp(d, s, m)
  PROVE  CutUp(Append(d, o), s, n)
<1> DEFINE e == Append(d, o)
<1>1. /\ o # <<>> /\ IsInjective(o) /\ o \in Seq(ShardClips)
      /\ \A c \in ToSet(o) : \E i \in m + 1 .. n : s[i] = c
      /\ \A i \in m + 1 .. n : s[i] \in ToSet(o)
  BY PieceOnce DEF Piece
<1>2. d \in Seq(Seq(ShardClips)) /\ DOMAIN d = 1 .. Len(d) /\ Len(d) \in Nat /\ DOMAIN s = 1 .. Len(s)
  BY DEF CutUp
<1>3. /\ e \in Seq(Seq(ShardClips)) /\ Len(e) = Len(d) + 1 /\ DOMAIN e = 1 .. Len(d) + 1
      /\ \A g \in 1 .. Len(d) : e[g] = d[g]
      /\ e[Len(d) + 1] = o
  BY <1>1, <1>2, AppendProperties
<1> HIDE DEF e
<1>4. ASSUME NEW g \in DOMAIN d PROVE ToSet(d[g]) \cap ToSet(o) = {}
  <2> SUFFICES ASSUME NEW c \in ToSet(d[g]), c \in ToSet(o) PROVE FALSE
    OBVIOUS
  <2>1. PICK i \in 1 .. m : s[i] = c
    BY DEF CutUp
  <2>2. PICK k \in m + 1 .. n : s[k] = c
    BY <1>1
  <2>3. i \in DOMAIN s /\ k \in DOMAIN s /\ i # k
    BY <1>2
  <2> QED
    BY <2>1, <2>2, <2>3 DEF IsInjective
<1>5. ASSUME NEW g \in DOMAIN e 
  PROVE (g \in DOMAIN d /\ e[g] = d[g]) \/ (g = Len(d) + 1 /\ e[g] = o)
  BY <1>2, <1>3
<1>6. ASSUME NEW g \in DOMAIN e PROVE e[g] # <<>> /\ IsInjective(e[g])
  BY <1>1, <1>5 DEF CutUp
<1>7. ASSUME NEW g \in DOMAIN e, NEW h \in DOMAIN e, g # h PROVE ToSet(e[g]) \cap ToSet(e[h]) = {}
  <2>1. CASE g \in DOMAIN d /\ e[g] = d[g] /\ h \in DOMAIN d /\ e[h] = d[h]
    BY <1>7, <2>1 DEF CutUp
  <2>2. CASE g \in DOMAIN d /\ e[g] = d[g] /\ h = Len(d) + 1 /\ e[h] = o
    BY <1>4, <2>2
  <2>3. CASE g = Len(d) + 1 /\ e[g] = o /\ h \in DOMAIN d /\ e[h] = d[h]
    BY <1>4, <2>3
  <2> QED
    BY <1>5, <1>7, <2>1, <2>2, <2>3
<1>8. ASSUME NEW g \in DOMAIN e, NEW c \in ToSet(e[g]) PROVE \E i \in 1 .. n : s[i] = c
  <2>1. CASE g \in DOMAIN d /\ e[g] = d[g]
    <3>1. PICK i \in 1 .. m : s[i] = c
      BY <2>1 DEF CutUp
    <3>2. i \in 1 .. n
      OBVIOUS
    <3> QED
      BY <3>1, <3>2
  <2>2. CASE e[g] = o
    <3>1. PICK i \in m + 1 .. n : s[i] = c
      BY <1>1, <2>2
    <3>2. i \in 1 .. n
      OBVIOUS
    <3> QED
      BY <3>1, <3>2
  <2> QED
    BY <1>5, <2>1, <2>2
<1>9. ASSUME NEW i \in 1 .. n PROVE \E g \in DOMAIN e : s[i] \in ToSet(e[g])
  <2>1. CASE i <= m
    <3>1. i \in 1 .. m
      BY <2>1
    <3>2. PICK g \in DOMAIN d : s[i] \in ToSet(d[g])
      BY <3>1 DEF CutUp
    <3>3. g \in DOMAIN e /\ e[g] = d[g]
      BY <1>2, <1>3
    <3> QED
      BY <3>2, <3>3
  <2>2. CASE ~ (i <= m)
    <3>1. i \in m + 1 .. n
      BY <2>2
    <3>2. Len(d) + 1 \in DOMAIN e
      BY <1>2, <1>3
    <3> QED
      BY <1>1, <1>3, <3>1, <3>2
  <2> QED
    BY <2>1, <2>2
<1>10. CutUp(e, s, n)
  BY <1>3, <1>6, <1>7, <1>8, <1>9 DEF CutUp
<1> QED
  BY <1>10 DEF e

\* What is at hand after n samples.
Sizes == [done : Seq(Seq(ShardClips)), out : Seq(ShardClips), size : Nat]

GroupsHold(a, s, n) ==
  /\ a \in Sizes
  /\ \E m \in 0 .. n : Piece(a.out, s, m, n) /\ CutUp(a.done, s, m) /\ (n = 0 \/ m < n)

LEMMA AddIs ==
  ASSUME ShardInput, NEW a \in Sizes, NEW c \in ShardClips
  PROVE  /\ Shard!Add(a, c) \in Sizes
         /\ \/ /\ a.out # <<>>
               /\ Shard!Add(a, c).done = Append(a.done, a.out)
               /\ Shard!Add(a, c).out = <<c>>
            \/ /\ Shard!Add(a, c).done = a.done
               /\ Shard!Add(a, c).out = Append(a.out, c)
<1>1. meta[c] \in Metas /\ meta[c].size \in Nat
  BY ShardConstants DEF ShardInput
<1>2. a.done \in Seq(Seq(ShardClips)) /\ a.out \in Seq(ShardClips) /\ a.size \in Nat
  BY DEF Sizes
<1>3. /\ Append(a.done, a.out) \in Seq(Seq(ShardClips)) /\ Append(a.out, c) \in Seq(ShardClips)
      /\ <<c>> \in Seq(ShardClips)
  BY <1>2, AppendProperties
<1>4. a.size + meta[c].size \in Nat
  BY <1>1, <1>2
<1>5. CASE a.out # <<>> /\ a.size + meta[c].size > Target
  <2>1. Shard!Add(a, c) = [done |-> Append(a.done, a.out), out |-> <<c>>, size |-> meta[c].size]
    BY <1>5 DEF Shard!Add
  <2> QED
    BY <1>1, <1>3, <1>5, <2>1 DEF Sizes
<1>6. CASE ~ (a.out # <<>> /\ a.size + meta[c].size > Target)
  <2>1. Shard!Add(a, c) = [a EXCEPT !.out = Append(@, c), !.size = @ + meta[c].size]
    BY <1>6 DEF Shard!Add
  <2>2. Shard!Add(a, c) = [done |-> a.done, out |-> Append(a.out, c), size |-> a.size + meta[c].size]
    BY <2>1 DEF Sizes
  <2> QED
    BY <1>2, <1>3, <1>4, <2>2 DEF Sizes
<1> QED
  BY <1>5, <1>6

LEMMA AddFills ==
  ASSUME ShardInput, NEW s \in Seq(ShardClips), IsInjective(s), NEW n \in Nat, n + 1 <= Len(s),
         NEW a, GroupsHold(a, s, n)
  PROVE  GroupsHold(Shard!Add(a, s[n + 1]), s, n + 1)
<1> DEFINE c == s[n + 1]
           b == Shard!Add(a, c)
<1>1. PICK m \in 0 .. n : Piece(a.out, s, m, n) /\ CutUp(a.done, s, m) /\ (n = 0 \/ m < n)
  BY DEF GroupsHold
<1>2. a \in Sizes /\ c \in ShardClips /\ Len(s) \in Nat
  BY DEF GroupsHold
<1>3. /\ b \in Sizes
      /\ \/ /\ a.out # <<>>
            /\ b.done = Append(a.done, a.out)
            /\ b.out = <<c>>
         \/ /\ b.done = a.done
            /\ b.out = Append(a.out, c)
  BY <1>2, AddIs
<1>4. c = s[n + 1]
  OBVIOUS
<1> HIDE DEF b, c
<1>5. CASE a.out # <<>> /\ b.done = Append(a.done, a.out) /\ b.out = <<c>>
  <2>1. m < n /\ m \in 0 .. Len(s) /\ n \in 0 .. Len(s)
    <3>1. Len(a.out) = n - m /\ a.out \in Seq(ShardClips)
      BY <1>1 DEF Piece
    <3> QED
      BY <1>2, <1>5, <3>1
  <2>2. CutUp(b.done, s, n)
    BY <1>1, <1>5, <2>1, CutOn
  <2>3. Piece(b.out, s, n, n + 1)
    <3>1. Len(<<c>>) = n + 1 - n /\ <<c>> \in Seq(ShardClips) /\ \A i \in 1 .. n + 1 - n : <<c>>[i] = s[n + i]
      BY <1>2, <1>4
    <3> QED
      BY <1>5, <3>1 DEF Piece
  <2>4. n \in 0 .. n + 1 /\ n < n + 1
    OBVIOUS
  <2> QED
    BY <1>3, <2>2, <2>3, <2>4 DEF GroupsHold, b, c
<1>6. CASE b.done = a.done /\ b.out = Append(a.out, c)
  <2>1. a.out \in Seq(ShardClips) /\ Len(a.out) = n - m /\ \A i \in 1 .. n - m : a.out[i] = s[m + i]
    BY <1>1 DEF Piece
  <2>2. /\ b.out \in Seq(ShardClips) /\ Len(b.out) = n - m + 1
        /\ \A i \in 1 .. n - m : b.out[i] = a.out[i]
        /\ b.out[n - m + 1] = c
    BY <1>2, <1>6, <2>1, AppendProperties
  <2>3. ASSUME NEW i \in 1 .. n + 1 - m PROVE b.out[i] = s[m + i]
    <3>1. CASE i \in 1 .. n - m
      BY <2>1, <2>2, <3>1
    <3>2. CASE i = n - m + 1
      BY <1>4, <2>2, <3>2
    <3> QED
      BY <3>1, <3>2
  <2>4. Piece(b.out, s, m, n + 1)
    BY <2>2, <2>3 DEF Piece
  <2>5. m \in 0 .. n + 1 /\ m < n + 1
    OBVIOUS
  <2> QED
    BY <1>1, <1>3, <1>6, <2>4, <2>5 DEF GroupsHold, b, c
<1> QED
  BY <1>3, <1>5, <1>6

\* What _group_samples_by_size gives: all samples up to the last group, and that one if it is
\* not dropped.
LEMMA GroupsAre ==
  ASSUME ShardInput, NEW s \in Seq(ShardClips), IsInjective(s)
  PROVE  \E m \in 0 .. Len(s) :
           CutUp(Shard!GroupBySize(s), s, m) /\ (m = Len(s) \/ (drop /\ Len(s) - m < MinClips))
<1> DEFINE e == [done |-> <<>>, out |-> <<>>, size |-> 0]
           Is(f) == f = [n \in 0 .. Len(s) |-> IF n = 0 THEN e ELSE Shard!Add(f[n - 1], s[n])]
           h == CHOOSE f : Is(f)
           end == h[Len(s)]
           G == Shard!GroupBySize(s)
<1>1. G = IF end.out # <<>> /\ ~ (drop /\ Len(end.out) < MinClips) THEN Append(end.done, end.out) ELSE end.done
  BY DEF Shard!GroupBySize
<1>2. Len(s) \in Nat /\ DOMAIN s = 1 .. Len(s) /\ \A n \in 1 .. Len(s) : s[n] \in ShardClips
  BY ElementOfSeq
<1>3. e \in Sizes
  BY DEF Sizes
<1>4. e.done = <<>> /\ e.out = <<>>
  OBVIOUS
<1> HIDE DEF e
<1>5. \E f : Is(f)
  <2> DEFINE F == [n \in 1 .. Len(s) |-> [a \in Sizes |-> Shard!Add(a, s[n])]]
  <2>1. \A n \in 1 .. Len(s), a \in Sizes : Shard!Add(a, s[n]) \in Sizes
    BY <1>2, AddIs
  <2>2. F \in [1 .. Len(s) -> [Sizes -> Sizes]]
    BY <2>1
  <2>3. \A n \in 1 .. Len(s), a \in Sizes : F[n][a] = Shard!Add(a, s[n])
    OBVIOUS
  <2> HIDE DEF F
  <2>4. PICK f : StepsFrom(f, e, F, Len(s), Sizes)
    BY <1>2, <1>3, <2>2, StepByStep
  <2>5. f \in [0 .. Len(s) -> Sizes] /\ f[0] = e /\ \A n \in 1 .. Len(s) : f[n] = F[n][f[n - 1]]
    BY <2>4 DEF StepsFrom
  <2>6. ASSUME NEW n \in 0 .. Len(s) PROVE f[n] = IF n = 0 THEN e ELSE Shard!Add(f[n - 1], s[n])
    <3>1. CASE n = 0
      BY <2>5, <3>1
    <3>2. CASE n # 0
      <4>1. n \in 1 .. Len(s) /\ n - 1 \in 0 .. Len(s)
        BY <1>2, <3>2
      <4>2. f[n] = F[n][f[n - 1]] /\ f[n - 1] \in Sizes
        BY <2>5, <4>1
      <4> QED
        BY <2>3, <3>2, <4>1, <4>2
    <3> QED
      BY <3>1, <3>2
  <2>7. f = [n \in 0 .. Len(s) |-> f[n]]
    BY <2>5
  <2>8. Is(f)
    BY <2>6, <2>7
  <2> QED
    BY <2>8
<1>6. Is(h)
  <2> HIDE DEF Is
  <2> QED
    BY <1>5
<1>7. h[0] = e /\ \A n \in 1 .. Len(s) : h[n] = Shard!Add(h[n - 1], s[n])
  <2> HIDE DEF h
  <2>1. \A n \in 0 .. Len(s) : h[n] = IF n = 0 THEN e ELSE Shard!Add(h[n - 1], s[n])
    BY <1>6, Zenon
  <2> QED
    BY <1>2, <2>1
<1> HIDE DEF h, Is
<1> DEFINE S == {n \in Nat : n <= Len(s) => GroupsHold(h[n], s, n)}
<1>8. 0 \in S
  <2>1. Piece(<<>>, s, 0, 0)
    BY DEF Piece
  <2>2. CutUp(<<>>, s, 0)
    BY DEF CutUp
  <2>3. GroupsHold(e, s, 0)
    BY <1>3, <1>4, <2>1, <2>2 DEF GroupsHold
  <2> QED
    BY <1>7, <2>3
<1>9. ASSUME NEW n \in Nat, n \in S PROVE n + 1 \in S
  <2> SUFFICES ASSUME n + 1 <= Len(s) PROVE GroupsHold(h[n + 1], s, n + 1)
    OBVIOUS
  <2>1. GroupsHold(h[n], s, n)
    BY <1>2, <1>9
  <2>2. h[n + 1] = Shard!Add(h[n], s[n + 1])
    <3> DEFINE k == n + 1
    <3>1. k \in 1 .. Len(s) /\ k - 1 = n
      BY <1>2
    <3> HIDE DEF k
    <3>2. h[k] = Shard!Add(h[n], s[k])
      BY <1>7, <3>1
    <3> QED
      BY <3>2 DEF k
  <2> QED
    BY <2>1, <2>2, AddFills
<1> HIDE DEF S
<1>10. GroupsHold(end, s, Len(s))
  <2>1. Len(s) \in S
    BY <1>2, <1>8, <1>9, Induction
  <2> QED
    BY <1>2, <2>1 DEF S
<1> HIDE DEF end, G
<1>11. PICK m \in 0 .. Len(s) :
         Piece(end.out, s, m, Len(s)) /\ CutUp(end.done, s, m) /\ (Len(s) = 0 \/ m < Len(s))
  BY <1>10 DEF GroupsHold
<1>12. m \in Int /\ m <= Len(s) /\ Len(end.out) = Len(s) - m /\ (end.out = <<>> <=> m = Len(s))
  <2>0. Len(s) \in Nat
    OBVIOUS
  <2>1. m \in Int /\ m <= Len(s)
    BY <2>0
  <2>2. end.out \in Seq(ShardClips) /\ Len(end.out) = Len(s) - m
    BY <1>11 DEF Piece
  <2>3. end.out = <<>> => Len(end.out) = 0
    OBVIOUS
  <2>4. end.out # <<>> => Len(end.out) # 0
    BY <2>2, EmptySeq
  <2> QED
    BY <2>0, <2>1, <2>2, <2>3, <2>4
<1>13. CASE end.out # <<>> /\ ~ (drop /\ Len(end.out) < MinClips)
  <2>1. m < Len(s)
    BY <1>12, <1>13
  <2>2. CutUp(G, s, Len(s))
    BY <1>1, <1>2, <1>11, <1>13, <2>1, CutOn
  <2>3. Len(s) \in 0 .. Len(s)
    BY <1>2
  <2> QED
    BY <2>2, <2>3 DEF G
<1>14. CASE ~ (end.out # <<>> /\ ~ (drop /\ Len(end.out) < MinClips))
  <2>1. CutUp(G, s, m)
    BY <1>1, <1>11, <1>14
  <2>2. m = Len(s) \/ (drop /\ Len(s) - m < MinClips)
    <3>1. CASE end.out = <<>>
      BY <1>12, <3>1
    <3>2. CASE end.out # <<>>
      BY <1>12, <1>14, <3>2
    <3> QED
      BY <3>1, <3>2
  <2> QED
    BY <2>1, <2>2 DEF G
<1> QED
  BY <1>13, <1>14

-----------------------------------------------------------------------------
(* The tasks of a run.                                                        *)

ShardTask == [bin : Bins, part : Nat, tar : Nat, clips : Seq(ShardClips)]

GoodTask(t) ==
  /\ t \in ShardTask /\ t.clips # <<>> /\ IsInjective(t.clips)
  /\ \A c \in ToSet(t.clips) : c \in Shard!Samples /\ meta[c].bin = t.bin

\* Two tasks have no clip and no name in common.
Apart(t, u) ==
  /\ ToSet(t.clips) \cap ToSet(u.clips) = {}
  /\ ~ (t.bin = u.bin /\ t.part = u.part /\ t.tar = u.tar)

\* C has of a bin all wanted clips, or the last ones are missing, are few, and may be dropped.
AllThere(b, C) ==
  LET missing == {c \in Shard!Wanted : meta[c].bin = b /\ c \notin C}
  IN  /\ missing # {} => drop /\ Cardinality(missing) < MinClips
      /\ \A c \in missing, d \in Shard!Wanted \ missing : meta[d].bin = b => d < c

LEMMA WantedIs ==
  \A b \in Bins : \A c : c \in Sampled(b) <=> c \in Shard!Wanted /\ meta[c].bin = b
BY ShardConstants DEF Sampled, Shard!Wanted

LEMMA BinIsThere ==
  ASSUME NEW b \in Bins, drop \in BOOLEAN, NEW C, NEW m \in 0 .. Len(Shard!Binned(b)),
         \A i \in 1 .. m : Shard!Binned(b)[i] \in C,
         \A i \in m + 1 .. Len(Shard!Binned(b)) : Shard!Binned(b)[i] \notin C,
         m = Len(Shard!Binned(b)) \/ (drop /\ Len(Shard!Binned(b)) - m < MinClips)
  PROVE  AllThere(b, C)
<1> DEFINE s == Shard!Binned(b)
           missing == {c \in Shard!Wanted : meta[c].bin = b /\ c \notin C}
           f == [i \in m + 1 .. Len(s) |-> s[i]]
<1>1. /\ s \in Seq(ShardClips) /\ IsInjective(s) /\ ToSet(s) = Sampled(b)
      /\ \A i, k \in DOMAIN s : i < k => s[i] < s[k]
  BY BinnedIs
<1>2. Len(s) \in Nat /\ DOMAIN s = 1 .. Len(s) /\ m \in Nat /\ m <= Len(s)
  BY <1>1
<1>0. Len(s) \in Int /\ m \in Int /\ m <= Len(s)
  BY <1>1
<1>3. /\ \A i \in 1 .. m : s[i] \in C
      /\ \A i \in m + 1 .. Len(s) : s[i] \notin C
      /\ m = Len(s) \/ (drop /\ Len(s) - m < MinClips)
  OBVIOUS
<1> HIDE DEF s
<1>4. ASSUME NEW c \in Shard!Wanted, meta[c].bin = b
      PROVE  \E i \in 1 .. Len(s) : s[i] = c /\ (c \in missing <=> i \in m + 1 .. Len(s))
  <2>1. c \in ToSet(s)
    BY <1>1, <1>4, WantedIs
  <2>2. PICK i \in 1 .. Len(s) : s[i] = c
    BY <1>2, <2>1 DEF ToSet
  <2>3. i \in 1 .. m \/ i \in m + 1 .. Len(s)
    BY <1>2
  <2>4. c \in missing <=> i \in m + 1 .. Len(s)
    <3>1. CASE i \in 1 .. m
      BY <1>2, <1>3, <2>2, <3>1
    <3>2. CASE i \in m + 1 .. Len(s)
      BY <1>3, <1>4, <2>2, <3>2
    <3> QED
      BY <2>3, <3>1, <3>2
  <2> QED
    BY <2>2, <2>4
<1>5. ASSUME NEW c \in missing PROVE \E i \in m + 1 .. Len(s) : f[i] = c /\ s[i] = c
  <2>1. PICK i \in 1 .. Len(s) : s[i] = c /\ (c \in missing <=> i \in m + 1 .. Len(s))
    BY <1>4
  <2> QED
    BY <2>1
<1>6. ASSUME missing # {} PROVE drop /\ Cardinality(missing) < MinClips
  <2>1. m # Len(s)
    <3>1. PICK c \in missing : TRUE
      BY <1>6
    <3>2. PICK i \in m + 1 .. Len(s) : s[i] = c
      BY <1>5
    <3> QED
      BY <1>0
  <2>2. drop /\ Len(s) - m < MinClips
    BY <1>3, <2>1
  <2>3. IsFiniteSet(m + 1 .. Len(s)) /\ Cardinality(m + 1 .. Len(s)) = Len(s) - m
    <3>1. m + 1 \in Int /\ m + 1 <= Len(s) /\ Len(s) - (m + 1) + 1 = Len(s) - m
      BY <1>0, <2>1
    <3> QED
      BY <1>0, <3>1, FS_Interval
  <2>4. {f[i] : i \in m + 1 .. Len(s)} = {s[i] : i \in m + 1 .. Len(s)}
    OBVIOUS
  <2>5. missing \subseteq {s[i] : i \in m + 1 .. Len(s)}
    BY <1>5
  <2> DEFINE D == m + 1 .. Len(s)
             R == {s[i] : i \in D}
             g == [i \in D |-> s[i]]
  <2>6. g \in Surjection(D, R)
    <3>1. g \in [D -> R] /\ \A x \in R : \E i \in D : g[i] = x
      OBVIOUS
    <3> HIDE DEF g, D, R
    <3> QED
      BY <3>1 DEF Surjection
  <2>7. IsFiniteSet(D) /\ Cardinality(D) = Len(s) - m /\ missing \subseteq R
    BY <2>3, <2>5
  <2> HIDE DEF g, D, R, missing
  <2>8. IsFiniteSet(R) /\ Cardinality(R) <= Cardinality(D)
    BY <2>6, <2>7, FS_Surjection
  <2>9. Cardinality(missing) <= Cardinality(R) /\ Cardinality(missing) \in Nat /\ Cardinality(R) \in Nat
    BY <2>7, <2>8, FS_Subset, FS_CardinalityType
  <2> QED
    BY <1>2, <2>2, <2>7, <2>8, <2>9, ShardConstants
<1>7. ASSUME NEW c \in missing, NEW d \in Shard!Wanted \ missing, meta[d].bin = b PROVE d < c
  <2>1. PICK i \in m + 1 .. Len(s) : s[i] = c
    BY <1>5
  <2>2. PICK k \in 1 .. Len(s) : s[k] = d /\ (d \in missing <=> k \in m + 1 .. Len(s))
    BY <1>4, <1>7
  <2>3. k < i /\ i \in DOMAIN s /\ k \in DOMAIN s
    BY <1>2, <2>2
  <2> QED
    BY <1>1, <2>1, <2>2, <2>3
<1> QED
  BY <1>6, <1>7 DEF AllThere

\* Whole numbers are told apart by a part and what is left.
LEMMA PlacesDiffer ==
  ASSUME NEW n \in Nat, NEW k \in Nat, NEW d \in Nat \ {0}, n \div d = k \div d, n % d = k % d
  PROVE  n = k
<1>1. PICK q \in Nat, r \in 0 .. (d - 1) : n \div d = q /\ n % d = r /\ n = q * d + r
  BY Division
<1>2. PICK p \in Nat, t \in 0 .. (d - 1) : k \div d = p /\ k % d = t /\ k = p * d + t
  BY Division
<1>3. p = q /\ t = r
  BY <1>1, <1>2
<1> QED
  BY <1>1, <1>2, <1>3

LEMMA TasksOfBin ==
  ASSUME ShardInput, tars = {}, NEW b \in Bins
  PROVE  LET ts == Shard!TasksOf(b)
             s  == Shard!Binned(b)
         IN  /\ ts \in Seq(ShardTask)
             /\ \A g \in DOMAIN ts : GoodTask(ts[g]) /\ ts[g].bin = b
             /\ \A g, h \in DOMAIN ts : g # h => Apart(ts[g], ts[h])
             /\ \E m \in 0 .. Len(s) :
                  /\ \A g \in DOMAIN ts : \A c \in ToSet(ts[g].clips) : \E i \in 1 .. m : s[i] = c
                  /\ \A i \in 1 .. m : \E g \in DOMAIN ts : s[i] \in ToSet(ts[g].clips)
                  /\ m = Len(s) \/ (drop /\ Len(s) - m < MinClips)
<1> DEFINE ts == Shard!TasksOf(b)
           s  == Shard!Binned(b)
           G  == Shard!GroupBySize(s)
           Task(g) == [bin |-> b, part |-> (g - 1) \div MaxTars, tar |-> (g - 1) % MaxTars, clips |-> G[g]]
<1>1. s \in Seq(ShardClips) /\ IsInjective(s) /\ ToSet(s) = Sampled(b)
  BY BinnedIs
<1>2. PICK m \in 0 .. Len(s) : CutUp(G, s, m) /\ (m = Len(s) \/ (drop /\ Len(s) - m < MinClips))
  <2> HIDE DEF s
  <2> QED
    BY <1>1, GroupsAre
<1>3. Shard!FirstPart(b) = 0
  <2> DEFINE P == {t.part : t \in {u \in tars : u.bin = b /\ u.kind = "video"}}
             S == ({-1} \cup P)
  <2>1. P = {}
    OBVIOUS
  <2>2. S = {-1}
    BY <2>1
  <2>3. Shard!FirstPart(b) = Shard!Max(S) + 1
    BY DEF Shard!FirstPart
  <2> HIDE DEF S
  <2>4. Shard!Max(S) \in S
    <3>1. \E x \in S : \A y \in S : x >= y
      BY <2>2
    <3> QED
      BY <3>1 DEF Shard!Max
  <2> QED
    BY <2>2, <2>3, <2>4
<1>4. ts = [g \in 1 .. Len(G) |->
              [bin |-> b, part |-> Shard!FirstPart(b) + (g - 1) \div MaxTars, tar |-> (g - 1) % MaxTars,
               clips |-> G[g]]]
  BY DEF Shard!TasksOf
<1>5. /\ G \in Seq(Seq(ShardClips)) /\ DOMAIN G = 1 .. Len(G) /\ Len(G) \in Nat
      /\ \A g \in 1 .. Len(G) : G[g] \in Seq(ShardClips)
  <2>1. G \in Seq(Seq(ShardClips))
    BY <1>2 DEF CutUp
  <2> HIDE DEF G
  <2> QED
    BY <2>1, ElementOfSeq
<1> HIDE DEF ts, G, s
<1>6. ASSUME NEW n \in Nat PROVE n \div MaxTars \in Nat /\ n % MaxTars \in Nat /\ 0 + n \div MaxTars = n \div MaxTars
  <2>1. PICK q \in Nat, r \in 0 .. (MaxTars - 1) : n \div MaxTars = q /\ n % MaxTars = r /\ n = q * MaxTars + r
    BY ShardConstants, Division
  <2>2. r \in Nat
    BY ShardConstants
  <2> QED
    BY <2>1, <2>2
<1>7. DOMAIN ts = 1 .. Len(G)
  BY <1>4
<1>8. ASSUME NEW g \in 1 .. Len(G)
      PROVE  /\ ts[g].bin = b /\ ts[g].part = (g - 1) \div MaxTars /\ ts[g].tar = (g - 1) % MaxTars
             /\ ts[g].clips = G[g] /\ ts[g] \in ShardTask
  <2>1. g - 1 \in Nat
    BY <1>5
  <2>2. (g - 1) \div MaxTars \in Nat /\ (g - 1) % MaxTars \in Nat /\ 0 + (g - 1) \div MaxTars = (g - 1) \div MaxTars
    BY <1>6, <2>1
  <2> DEFINE q == (g - 1) \div MaxTars
             r == (g - 1) % MaxTars
  <2>3. ts[g] = [bin |-> b, part |-> 0 + q, tar |-> r, clips |-> G[g]]
    BY <1>3, <1>4
  <2>4. q \in Nat /\ r \in Nat /\ 0 + q = q /\ G[g] \in Seq(ShardClips)
    BY <1>5, <2>2
  <2> HIDE DEF q, r
  <2>5. ts[g] = [bin |-> b, part |-> q, tar |-> r, clips |-> G[g]]
    BY <2>3, <2>4
  <2>6. ts[g].bin = b /\ ts[g].part = q /\ ts[g].tar = r /\ ts[g].clips = G[g] /\ ts[g] \in ShardTask
    BY <2>4, <2>5 DEF ShardTask
  <2> QED
    BY <2>6 DEF q, r
<1>9. ts \in Seq(ShardTask)
  <2>1. ts \in [1 .. Len(G) -> ShardTask]
    BY <1>4, <1>8
  <2>2. \E n \in Nat : ts \in [1 .. n -> ShardTask]
    BY <1>5, <2>1
  <2> HIDE DEF ts
  <2> QED
    BY <2>2, SeqDef
<1>10. ASSUME NEW g \in 1 .. Len(G) PROVE GoodTask(ts[g])
  <2>1. ts[g].clips = G[g] /\ ts[g] \in ShardTask /\ ts[g].bin = b
    BY <1>8
  <2>2. G[g] # <<>> /\ IsInjective(G[g])
    BY <1>2, <1>5 DEF CutUp
  <2>3. ASSUME NEW c \in ToSet(G[g]) PROVE c \in Shard!Samples /\ meta[c].bin = b
    <3>1. PICK i \in 1 .. m : s[i] = c
      BY <1>2, <1>5 DEF CutUp
    <3>2. i \in DOMAIN s
      BY <1>1
    <3>3. c \in Sampled(b)
      BY <1>1, <3>1, <3>2 DEF ToSet
    <3> QED
      BY <3>3 DEF Sampled
  <2> QED
    BY <2>1, <2>2, <2>3 DEF GoodTask
<1>11. ASSUME NEW g \in 1 .. Len(G), NEW h \in 1 .. Len(G), g # h PROVE Apart(ts[g], ts[h])
  <2>1. ToSet(G[g]) \cap ToSet(G[h]) = {}
    BY <1>2, <1>5, <1>11 DEF CutUp
  <2>2. ~ (ts[g].part = ts[h].part /\ ts[g].tar = ts[h].tar)
    <3> SUFFICES ASSUME ts[g].part = ts[h].part /\ ts[g].tar = ts[h].tar PROVE FALSE
      OBVIOUS
    <3>1. g - 1 \in Nat /\ h - 1 \in Nat
      BY <1>5
    <3>2. (g - 1) \div MaxTars = (h - 1) \div MaxTars /\ (g - 1) % MaxTars = (h - 1) % MaxTars
      BY <1>8
    <3>3. g - 1 = h - 1
      BY <3>1, <3>2, ShardConstants, PlacesDiffer
    <3> QED
      BY <1>11, <3>3
  <2> QED
    BY <1>8, <2>1, <2>2 DEF Apart
<1>12. /\ \A g \in DOMAIN ts : \A c \in ToSet(ts[g].clips) : \E i \in 1 .. m : s[i] = c
       /\ \A i \in 1 .. m : \E g \in DOMAIN ts : s[i] \in ToSet(ts[g].clips)
  <2>1. \A g \in DOMAIN G : \A c \in ToSet(G[g]) : \E i \in 1 .. m : s[i] = c
    BY <1>2 DEF CutUp
  <2>2. \A i \in 1 .. m : \E g \in DOMAIN G : s[i] \in ToSet(G[g])
    BY <1>2 DEF CutUp
  <2>3. DOMAIN ts = DOMAIN G /\ \A g \in DOMAIN G : ts[g].clips = G[g]
    BY <1>5, <1>7, <1>8
  <2> QED
    BY <2>1, <2>2, <2>3
<1> QED
  BY <1>2, <1>7, <1>8, <1>9, <1>10, <1>11, <1>12 DEF ts, s

LEMMA BinsAre ==
  ASSUME ShardInput
  PROVE  /\ Shard!BinsInOrder \in Seq(Bins) /\ IsInjective(Shard!BinsInOrder)
         /\ \A b \in Bins : b \in ToSet(Shard!BinsInOrder) <=> Sampled(b) # {}
<1> DEFINE S == {meta[c].bin : c \in Shard!Samples} \ {NoBin}
           First(b) == Head(Shard!Binned(b))
           R == {p \in S \X S : First(p[1]) < First(p[2])}
           B == Shard!BinsInOrder
<1>1. Shard!Samples \in SUBSET ShardClips
  BY ShardConstants DEF Shard!Samples
<1>2. S \in SUBSET Bins /\ IsFiniteSet(S)
  <2>1. \A c \in Shard!Samples : meta[c].bin \in Bins \cup {NoBin}
    BY <1>1, ShardConstants DEF ShardInput
  <2>2. IsFiniteSet(Shard!Samples)
    BY <1>1, ShardConstants, FS_Subset
  <2> DEFINE I == {meta[c].bin : c \in Shard!Samples}
             f == [c \in Shard!Samples |-> meta[c].bin]
  <2>3. f \in Surjection(Shard!Samples, I)
    <3>1. f \in [Shard!Samples -> I] /\ \A x \in I : \E c \in Shard!Samples : f[c] = x
      OBVIOUS
    <3> HIDE DEF f, I
    <3> QED
      BY <3>1 DEF Surjection
  <2>4. IsFiniteSet(I)
    <3> HIDE DEF f, I
    <3> QED
      BY <2>2, <2>3, FS_Surjection
  <2>5. S \in SUBSET I
    OBVIOUS
  <2>6. S \in SUBSET Bins
    BY <2>1
  <2> HIDE DEF I, S
  <2> QED
    BY <2>4, <2>5, <2>6, FS_Subset
<1>3. \A b \in S : Sampled(b) # {}
  BY DEF Sampled
<1>4. \A b \in Bins : Sampled(b) # {} => b \in S
  BY ShardConstants DEF Sampled
<1>5. ASSUME NEW b \in S PROVE First(b) \in Sampled(b) /\ First(b) \in Nat
  <2> DEFINE q == Shard!Binned(b)
  <2>1. q \in Seq(ShardClips) /\ ToSet(q) = Sampled(b)
    BY BinnedIs
  <2>2. q # <<>>
    BY <1>3, <2>1 DEF ToSet
  <2>3. First(b) = Head(q)
    OBVIOUS
  <2> HIDE DEF q, First
  <2>4. Head(q) = q[1] /\ 1 \in DOMAIN q /\ q[1] \in ShardClips
    BY <2>1, <2>2
  <2> QED
    BY <2>1, <2>3, <2>4, ShardConstants DEF ToSet
<1>6. \A b, c \in S : First(b) = First(c) => b = c
  BY <1>5 DEF Sampled
<1>7. \A b, c \in S : <<b, c>> \in R <=> First(b) < First(c)
  OBVIOUS
<1> HIDE DEF S, First, R
<1>8. PICK p \in SetToSeqs(S) : \A i, k \in DOMAIN p : i < k => <<p[i], p[k]>> \in R
  <2>1. \A x \in S : <<x, x>> \notin R
    BY <1>5, <1>7
  <2>2. \A x, y, z \in S : <<x, y>> \in R /\ <<y, z>> \in R => <<x, z>> \in R
    BY <1>5, <1>7
  <2>3. \A x, y \in S : x # y => <<x, y>> \in R \/ <<y, x>> \in R
    BY <1>5, <1>6, <1>7
  <2>4. IsFiniteSet(S)
    BY <1>2
  <2> QED
    BY ONLY <2>1, <2>2, <2>3, <2>4, SortedOnce
<1>9. p \in Seq(S) /\ ToSet(p) = S
  BY <1>2, <1>8, ArrangedOnce
<1>10. p \in Shard!SetToSeqs(S) /\ \A i, k \in DOMAIN p : i < k => First(p[i]) < First(p[k])
  <2>1. \A i \in DOMAIN p : p[i] \in S
    BY <1>9 DEF ToSet
  <2>2. p \in Shard!SetToSeqs(S)
    BY <1>8, ShardLibrary
  <2> QED
    BY <1>7, <1>8, <2>1, <2>2
<1>11. B \in Shard!SetToSeqs(S)
  BY <1>10, Zenon DEF Shard!BinsInOrder, S, First
<1>12. B \in Seq(S) /\ IsInjective(B) /\ ToSet(B) = S
  BY <1>2, <1>11, ShardLibrary, ArrangedOnce
<1> HIDE DEF B
<1>13. B \in Seq(Bins)
  BY <1>2, <1>12
<1> QED
  BY <1>3, <1>4, <1>12, <1>13 DEF B

\* The clips that are in tasks.
Covered(ts) == {c \in ShardClips : \E i \in DOMAIN ts : c \in ToSet(ts[i].clips)}

TasksGood(ts) ==
  /\ ts \in Seq(ShardTask)
  /\ \A i \in DOMAIN ts : GoodTask(ts[i])
  /\ \A i, k \in DOMAIN ts : i # k => Apart(ts[i], ts[k])

LEMMA GroupedIs ==
  ASSUME ShardInput, tars = {}
  PROVE  /\ TasksGood(Shard!Grouped)
         /\ \A b \in Bins : AllThere(b, Covered(Shard!Grouped))
         /\ \A i \in DOMAIN Shard!Grouped : Shard!Grouped[i].bin \in ToSet(Shard!BinsInOrder)
<1> DEFINE B  == Shard!BinsInOrder
           ss == [i \in 1 .. Len(B) |-> Shard!TasksOf(B[i])]
           G  == Shard!Grouped
<1>1. /\ B \in Seq(Bins) /\ IsInjective(B) /\ DOMAIN B = 1 .. Len(B)
      /\ \A b \in Bins : b \in ToSet(B) <=> Sampled(b) # {}
  BY BinsAre
<1>2. G = FlattenSeq(ss)
  <2>1. G = Shard!FlattenSeq(ss)
    BY DEF Shard!Grouped
  <2> QED
    BY <2>1, ShardLibrary
<1> HIDE DEF B
<1>3. ASSUME NEW i \in 1 .. Len(B)
      PROVE  /\ B[i] \in Bins /\ ss[i] = Shard!TasksOf(B[i]) /\ ss[i] \in Seq(ShardTask)
             /\ \A g \in DOMAIN ss[i] : GoodTask(ss[i][g]) /\ ss[i][g].bin = B[i]
             /\ \A g, h \in DOMAIN ss[i] : g # h => Apart(ss[i][g], ss[i][h])
  <2>1. B[i] \in Bins /\ ss[i] = Shard!TasksOf(B[i])
    BY <1>1
  <2> HIDE DEF ss
  <2> QED
    BY <2>1, TasksOfBin
<1>4. DOMAIN ss = 1 .. Len(B) /\ ss \in Seq(Seq(ShardTask))
  <2>1. ss \in [1 .. Len(B) -> Seq(ShardTask)]
    BY <1>3
  <2>2. \E n \in Nat : ss \in [1 .. n -> Seq(ShardTask)]
    <3>1. Len(B) \in Nat
      BY <1>1
    <3> HIDE DEF ss
    <3> QED
      BY <2>1, <3>1
  <2> HIDE DEF ss
  <2> QED
    BY <2>1, <2>2, SeqDef
<1> HIDE DEF ss, G
<1>5. ASSUME NEW i \in DOMAIN ss PROVE IsInjective(ss[i])
  <2> SUFFICES ASSUME NEW g \in DOMAIN ss[i], NEW h \in DOMAIN ss[i], g # h, ss[i][g] = ss[i][h] PROVE FALSE
    BY DEF IsInjective
  <2> QED
    BY <1>3, <1>4 DEF Apart
<1>6. ASSUME NEW i \in DOMAIN ss, NEW k \in DOMAIN ss, i # k
      PROVE  /\ ToSet(ss[i]) \cap ToSet(ss[k]) = {}
             /\ \A t \in ToSet(ss[i]), u \in ToSet(ss[k]) : Apart(t, u)
  <2>1. B[i] # B[k]
    BY <1>1, <1>4, <1>6 DEF IsInjective
  <2>2. ASSUME NEW t \in ToSet(ss[i]), NEW u \in ToSet(ss[k])
        PROVE  GoodTask(t) /\ GoodTask(u) /\ t.bin = B[i] /\ u.bin = B[k]
    BY <1>3, <1>4 DEF ToSet
  <2>3. ASSUME NEW t \in ToSet(ss[i]), NEW u \in ToSet(ss[k]) PROVE Apart(t, u) /\ t # u
    <3>1. ToSet(t.clips) \cap ToSet(u.clips) = {}
      BY <2>1, <2>2 DEF GoodTask
    <3> QED
      BY <2>1, <2>2, <3>1 DEF Apart
  <2> QED
    BY <2>3
<1>7. G \in Seq(ShardTask) /\ ToSet(G) = UNION {ToSet(ss[i]) : i \in DOMAIN ss}
  BY <1>2, <1>4, Flattened
<1>8. IsInjective(G)
  BY <1>2, <1>4, <1>5, <1>6, FlattenOnce
<1>9. ASSUME NEW t \in ToSet(G) PROVE \E i \in DOMAIN ss : t \in ToSet(ss[i]) /\ GoodTask(t) /\ t.bin = B[i]
  <2>1. PICK i \in DOMAIN ss : t \in ToSet(ss[i])
    BY <1>7
  <2>2. GoodTask(t) /\ t.bin = B[i]
    BY <1>3, <1>4, <2>1 DEF ToSet
  <2> QED
    BY <2>1, <2>2
<1>10. \A i \in DOMAIN G : G[i] \in ToSet(G)
  BY DEF ToSet
<1>11. ASSUME NEW i \in DOMAIN G, NEW k \in DOMAIN G, i # k PROVE Apart(G[i], G[k])
  <2>1. G[i] # G[k] /\ G[i] \in ToSet(G) /\ G[k] \in ToSet(G)
    BY <1>8, <1>10, <1>11 DEF IsInjective
  <2>2. PICK p \in DOMAIN ss : G[i] \in ToSet(ss[p])
    BY <1>9, <2>1
  <2>3. PICK q \in DOMAIN ss : G[k] \in ToSet(ss[q])
    BY <1>9, <2>1
  <2>4. CASE p = q
    <3>1. PICK g \in DOMAIN ss[p] : G[i] = ss[p][g]
      BY <2>2 DEF ToSet
    <3>2. PICK h \in DOMAIN ss[p] : G[k] = ss[p][h]
      BY <2>3, <2>4 DEF ToSet
    <3>3. g # h
      BY <2>1, <3>1, <3>2
    <3> QED
      BY <1>3, <1>4, <3>1, <3>2, <3>3
  <2>5. CASE p # q
    BY <1>6, <2>2, <2>3, <2>5
  <2> QED
    BY <2>4, <2>5
<1>12. TasksGood(G)
  BY <1>7, <1>9, <1>10, <1>11 DEF TasksGood
<1>13. \A i \in DOMAIN G : G[i].bin \in ToSet(B)
  <2> SUFFICES ASSUME NEW i \in DOMAIN G PROVE G[i].bin \in ToSet(B)
    OBVIOUS
  <2>1. PICK p \in DOMAIN ss : G[i].bin = B[p]
    BY <1>9, <1>10
  <2> QED
    BY <1>1, <1>4, <2>1 DEF ToSet
<1>14. ASSUME NEW c \in ShardClips PROVE c \in Covered(G) <=> \E t \in ToSet(G) : c \in ToSet(t.clips)
  BY DEF Covered, ToSet
<1>15. ASSUME NEW b \in Bins PROVE AllThere(b, Covered(G))
  <2>1. CASE Sampled(b) = {}
    <3>1. {c \in Shard!Wanted : meta[c].bin = b /\ c \notin Covered(G)} = {}
      BY <2>1, WantedIs
    <3>2. \A d \in Shard!Wanted : meta[d].bin # b
      BY <2>1, WantedIs
    <3> QED
      BY <3>1, <3>2 DEF AllThere
  <2>2. CASE Sampled(b) # {}
    <3>1. PICK i \in 1 .. Len(B) : B[i] = b
      BY <1>1, <2>2 DEF ToSet
    <3> DEFINE s  == Shard!Binned(b)
               ts == Shard!TasksOf(b)
    <3>2. PICK m \in 0 .. Len(s) :
            /\ \A g \in DOMAIN ts : \A c \in ToSet(ts[g].clips) : \E j \in 1 .. m : s[j] = c
            /\ \A j \in 1 .. m : \E g \in DOMAIN ts : s[j] \in ToSet(ts[g].clips)
            /\ m = Len(s) \/ (drop /\ Len(s) - m < MinClips)
      BY TasksOfBin
    <3>3. s \in Seq(ShardClips) /\ IsInjective(s) /\ ToSet(s) = Sampled(b)
      BY BinnedIs
    <3>4. ss[i] = ts
      BY <1>3, <3>1
    <3>5. Len(s) \in Int /\ m \in Int /\ m <= Len(s) /\ \A j \in 1 .. Len(s) : s[j] \in ShardClips
      BY <3>3
    <3> HIDE DEF s, ts
    <3>6. ASSUME NEW j \in 1 .. m PROVE s[j] \in Covered(G)
      <4>1. PICK g \in DOMAIN ts : s[j] \in ToSet(ts[g].clips)
        BY <3>2
      <4>2. ts[g] \in ToSet(ss[i]) /\ i \in DOMAIN ss
        BY <1>4, <3>4 DEF ToSet
      <4>3. ts[g] \in ToSet(G)
        BY <1>7, <4>2
      <4>4. s[j] \in ShardClips
        BY <3>5
      <4> QED
        BY <1>14, <4>1, <4>3, <4>4
    <3>7. ASSUME NEW j \in m + 1 .. Len(s), s[j] \in Covered(G) PROVE FALSE
      <4>1. s[j] \in ShardClips /\ j \in 1 .. Len(s)
        BY <3>2, <3>5
      <4>2. PICK t \in ToSet(G) : s[j] \in ToSet(t.clips)
        BY <1>14, <3>7, <4>1
      <4>3. PICK p \in DOMAIN ss : t \in ToSet(ss[p]) /\ GoodTask(t) /\ t.bin = B[p]
        BY <1>9
      <4>4. s[j] \in Sampled(b)
        BY <3>3, <4>1 DEF ToSet
      <4>5. B[p] = b
        BY <4>2, <4>3, <4>4 DEF GoodTask, Sampled
      <4>6. p = i
        BY <1>1, <1>4, <3>1, <4>5 DEF IsInjective
      <4>7. PICK g \in DOMAIN ts : t = ts[g]
        BY <3>4, <4>3, <4>6 DEF ToSet
      <4>8. PICK k \in 1 .. m : s[k] = s[j]
        BY <3>2, <4>2, <4>7
      <4>9. k \in DOMAIN s /\ j \in DOMAIN s /\ k # j
        BY <3>3, <3>5, <4>1
      <4> QED
        BY <3>3, <4>8, <4>9 DEF IsInjective
    <3>8. drop \in BOOLEAN
      BY DEF ShardInput
    <3> QED
      BY <3>2, <3>6, <3>7, <3>8, BinIsThere DEF s
  <2> QED
    BY <2>1, <2>2
<1> QED
  BY <1>12, <1>13, <1>15 DEF G, B

\* The keys of a bin are counted by task: so many clips as its tasks have.
LEMMA KeysAre ==
  ASSUME TasksGood(tasks), NEW b
  PROVE  Shard!Keys(b)
           = Cardinality({c \in ShardClips : \E i \in DOMAIN tasks : tasks[i].bin = b /\ c \in ToSet(tasks[i].clips)})
<1> DEFINE n == Len(tasks)
           Adds(i) == IF tasks[i].bin = b THEN Len(tasks[i].clips) ELSE 0
           Is(f) == f = [i \in 0 .. n |-> IF i = 0 THEN 0 ELSE f[i - 1] + Adds(i)]
           h == CHOOSE f : Is(f)
           Till(k) == {c \in ShardClips : \E i \in 1 .. k : tasks[i].bin = b /\ c \in ToSet(tasks[i].clips)}
<1>1. Shard!Keys(b) = h[n]
  BY DEF Shard!Keys
<1>2. n \in Nat /\ DOMAIN tasks = 1 .. n
  BY DEF TasksGood
<1>3. ASSUME NEW i \in 1 .. n
      PROVE  /\ tasks[i].clips \in Seq(ShardClips) /\ IsInjective(tasks[i].clips)
             /\ Len(tasks[i].clips) \in Nat
  <2>1. GoodTask(tasks[i])
    BY <1>2 DEF TasksGood
  <2>2. tasks[i].clips \in Seq(ShardClips) /\ IsInjective(tasks[i].clips)
    BY <2>1 DEF GoodTask, ShardTask
  <2> QED
    BY <2>2
<1>4. ASSUME NEW i \in 1 .. n PROVE Adds(i) \in Nat
  BY <1>3
<1>5. ASSUME NEW i \in 1 .. n, NEW k \in 1 .. n, i # k PROVE ToSet(tasks[i].clips) \cap ToSet(tasks[k].clips) = {}
  BY <1>2, <1>5 DEF TasksGood, Apart
<1> HIDE DEF n
<1>6. \E f : Is(f)
  <2> DEFINE F == [i \in 1 .. n |-> [x \in Nat |-> x + Adds(i)]]
  <2>1. \A i \in 1 .. n : \A x \in Nat : x + Adds(i) \in Nat
    BY <1>4
  <2>2. F \in [1 .. n -> [Nat -> Nat]] /\ \A i \in 1 .. n : \A x \in Nat : F[i][x] = x + Adds(i)
    <3> HIDE DEF Adds
    <3> QED
      BY <2>1
  <2> HIDE DEF F
  <2>3. PICK f : StepsFrom(f, 0, F, n, Nat)
    BY <1>2, <2>2, StepByStep
  <2>4. f \in [0 .. n -> Nat] /\ f[0] = 0 /\ \A i \in 1 .. n : f[i] = F[i][f[i - 1]]
    BY <2>3 DEF StepsFrom
  <2> HIDE DEF Adds
  <2>5. ASSUME NEW i \in 0 .. n PROVE f[i] = IF i = 0 THEN 0 ELSE f[i - 1] + Adds(i)
    <3>1. CASE i = 0
      BY <2>4, <3>1
    <3>2. CASE i # 0
      <4>1. i \in 1 .. n /\ i - 1 \in 0 .. n
        BY <1>2, <3>2
      <4>2. f[i] = F[i][f[i - 1]] /\ f[i - 1] \in Nat
        BY <2>4, <4>1
      <4> QED
        BY <2>2, <3>2, <4>1, <4>2
    <3> QED
      BY <3>1, <3>2
  <2>6. f = [i \in 0 .. n |-> f[i]]
    BY <2>4
  <2>7. Is(f)
    BY <2>5, <2>6
  <2> QED
    BY <2>7
<1>7. Is(h)
  <2> HIDE DEF Is
  <2> QED
    BY <1>6
<1> HIDE DEF h, Adds
<1>8. h[0] = 0 /\ \A i \in 1 .. n : h[i] = h[i - 1] + Adds(i)
  <2>1. \A i \in 0 .. n : h[i] = IF i = 0 THEN 0 ELSE h[i - 1] + Adds(i)
    BY <1>7, Zenon
  <2> QED
    BY <1>2, <2>1
<1> HIDE DEF Is
<1> DEFINE S == {k \in Nat : k <= n => h[k] = Cardinality(Till(k))}
<1>9. 0 \in S
  <2>1. Till(0) = {}
    OBVIOUS
  <2> HIDE DEF Till
  <2> QED
    BY <1>8, <2>1, FS_EmptySet
<1>10. ASSUME NEW k \in Nat, k \in S PROVE k + 1 \in S
  <2> DEFINE m == k + 1
             C == IF tasks[m].bin = b THEN ToSet(tasks[m].clips) ELSE {}
  <2> SUFFICES ASSUME m <= n PROVE h[m] = Cardinality(Till(m))
    OBVIOUS
  <2>1. m \in 1 .. n /\ m - 1 = k /\ k <= n
    BY <1>2
  <2>2. h[k] = Cardinality(Till(k))
    BY <1>10, <2>1
  <2>3. h[m] = h[k] + Adds(m)
    <3> HIDE DEF m
    <3> QED
      BY <1>8, <2>1
  <2>4. tasks[m].clips \in Seq(ShardClips) /\ IsInjective(tasks[m].clips)
    <3> HIDE DEF m
    <3> QED
      BY <1>3, <2>1
  <2>5. IsFiniteSet(C) /\ Cardinality(C) = Adds(m) /\ C \subseteq ShardClips
    <3> HIDE DEF m
    <3>1. ToSet(tasks[m].clips) \subseteq ShardClips
      BY <2>4, ElementsOf
    <3> QED
      BY <2>4, <3>1, LengthOnce, FS_EmptySet DEF Adds
  <2>6. Till(m) = Till(k) \cup C
    <3>1. \A i \in 1 .. m : i \in 1 .. k \/ i = m
      OBVIOUS
    <3>2. \A i \in 1 .. k : i \in 1 .. m
      OBVIOUS
    <3>3. m \in 1 .. m
      OBVIOUS
    <3> HIDE DEF m
    <3>4. ASSUME NEW c \in ShardClips
          PROVE  (\E i \in 1 .. m : tasks[i].bin = b /\ c \in ToSet(tasks[i].clips))
                 <=> (\E i \in 1 .. k : tasks[i].bin = b /\ c \in ToSet(tasks[i].clips))
                     \/ (tasks[m].bin = b /\ c \in ToSet(tasks[m].clips))
      BY <3>1, <3>2, <3>3
    <3> QED
      BY <2>5, <3>4
  <2>7. Till(k) \cap C = {}
    <3> SUFFICES ASSUME NEW c \in Till(k), c \in C PROVE FALSE
      OBVIOUS
    <3>1. PICK i \in 1 .. k : c \in ToSet(tasks[i].clips)
      OBVIOUS
    <3>2. i \in 1 .. n /\ i # m /\ c \in ToSet(tasks[m].clips)
      BY <1>2, <2>1
    <3> HIDE DEF m
    <3> QED
      BY <1>5, <2>1, <3>1, <3>2
  <2>8. IsFiniteSet(Till(k)) /\ Cardinality(Till(k)) \in Nat
    <3>1. Till(k) \in SUBSET ShardClips
      OBVIOUS
    <3> HIDE DEF Till
    <3> QED
      BY <3>1, ShardConstants, FS_Subset, FS_CardinalityType
  <2>9. Adds(m) \in Nat
    <3> HIDE DEF m
    <3> QED
      BY <1>4, <2>1 DEF Adds
  <2> HIDE DEF m, C, Till
  <2>10. Cardinality(Till(m)) = Cardinality(Till(k)) + Cardinality(C)
    <3>1. Cardinality(Till(k) \cup C) = Cardinality(Till(k)) + Cardinality(C) - Cardinality(Till(k) \cap C)
      BY <2>5, <2>8, FS_Union
    <3>2. Cardinality(Till(k) \cap C) = 0
      BY <2>7, FS_EmptySet
    <3> QED
      BY <2>5, <2>6, <2>8, <2>9, <3>1, <3>2
  <2> QED
    BY <2>2, <2>3, <2>5, <2>10
<1> HIDE DEF S
<1>11. n \in S
  BY <1>2, <1>9, <1>10, Induction
<1>12. Till(n) = {c \in ShardClips : \E i \in DOMAIN tasks : tasks[i].bin = b /\ c \in ToSet(tasks[i].clips)}
  BY <1>2
<1> HIDE DEF Till
<1>13. h[n] = Cardinality(Till(n))
  BY <1>2, <1>11 DEF S
<1> QED
  BY <1>1, <1>12, <1>13

-----------------------------------------------------------------------------
(* The invariant.                                                             *)

\* t is the k-th archive of a task.
ArchiveOf(t, u, k) ==
  t.kind = Shard!Kinds[k] /\ t.bin = u.bin /\ t.part = u.part /\ t.tar = u.tar /\ t.clips = u.clips

Planned == ShardInput /\ TasksGood(tasks)

\* While a run packs or ends, and after its list, its tasks have all clips that are wanted.
NoneLost == listed \/ progress \in {"run", "summary"} => \A b \in Bins : AllThere(b, Covered(tasks))

\* On the store is what the tasks have packed so far, and nothing else.
Stored ==
  /\ stage \in [DOMAIN tasks -> 0 .. 4]
  /\ \A t \in tars : \E i \in DOMAIN tasks, k \in 1 .. 3 : k < stage[i] /\ ArchiveOf(t, tasks[i], k)
  /\ \A i \in DOMAIN tasks, k \in 1 .. 3 : k < stage[i] => \E t \in tars : ArchiveOf(t, tasks[i], k)
  /\ \A t, u \in tars : Shard!SameName(t, u) => t = u

Archives(b) == {<<t.part, t.tar>> : t \in {u \in tars : u.bin = b /\ u.kind = "video"}}

\* A wdinfo.json is written of bins with tasks, once all tasks are packed; the other bins are left.
Told ==
  /\ progress = "summary" \/ listed \/ infos # {} => \A i \in DOMAIN tasks : stage[i] = 4
  /\ bins \in Seq(Bins)
  /\ \A i \in DOMAIN tasks : tasks[i].bin \in ToSet(bins) \/ \E info \in infos : info.bin = tasks[i].bin
  /\ listed => bins = <<>>
  /\ \A info \in infos :
       Shard!InTasks(info.bin) /\ info.keys = Shard!Keys(info.bin) /\ info.list = Archives(info.bin)

\* Embeddings have the number of their window.
InPlace ==
  /\ \A c \in ShardClips : \A n \in 1 .. Len(embedded[c]) : embedded[c][n] = n
  /\ Shard!EmbeddingsAligned

ShardInv == Planned /\ NoneLost /\ Stored /\ Told /\ InPlace

LEMMA TasksStayGood ==
  ASSUME NEW ts, TasksGood(ts), tasks' = ts, UNCHANGED <<meta, excluded>>
  PROVE  TasksGood(tasks)'
<1>1. Shard!Samples' = Shard!Samples
  BY DEF Shard!Samples, Shard!Clips
<1>2. tasks' \in Seq(ShardTask)'
  BY DEF TasksGood, ShardTask, ShardClips
<1>3. ASSUME NEW i \in DOMAIN tasks' PROVE GoodTask(tasks[i])'
  <2> DEFINE t == ts[i]
  <2>1. GoodTask(t) /\ tasks'[i] = t
    BY DEF TasksGood
  <2> HIDE DEF t
  <2>2. /\ t \in ShardTask /\ t.clips # <<>> /\ IsInjective(t.clips)
        /\ \A c \in ToSet(t.clips) : c \in Shard!Samples' /\ meta'[c].bin = t.bin
    BY <1>1, <2>1 DEF GoodTask
  <2> QED
    BY <2>1, <2>2 DEF GoodTask, ShardTask, ShardClips
<1>4. ASSUME NEW i \in DOMAIN tasks', NEW k \in DOMAIN tasks', i # k PROVE Apart(tasks[i], tasks[k])'
  BY <1>4 DEF TasksGood, Apart
<1> QED
  BY <1>2, <1>3, <1>4 DEF TasksGood

LEMMA PlannedStays ==
  ASSUME Planned, UNCHANGED <<meta, excluded, drop, tasks>>
  PROVE  Planned'
<1>1. ShardInput'
  BY DEF Planned, ShardInput, ShardClips
<1>2. TasksGood(tasks)'
  BY TasksStayGood DEF Planned
<1> QED
  BY <1>1, <1>2 DEF Planned

LEMMA NoneLostStays ==
  ASSUME NoneLost, UNCHANGED <<meta, excluded, drop, tasks>>,
         listed' \/ progress' \in {"run", "summary"} => listed \/ progress \in {"run", "summary"}
  PROVE  NoneLost'
<1>1. Shard!Samples' = Shard!Samples
  BY DEF Shard!Samples, Shard!Clips
<1>2. Shard!Wanted' = Shard!Wanted
  BY <1>1 DEF Shard!Wanted
<1>3. \A b \in Bins : AllThere(b, Covered(tasks))' <=> AllThere(b, Covered(tasks))
  BY <1>2 DEF AllThere, Covered, ShardClips
<1> QED
  BY <1>3 DEF NoneLost

LEMMA StoredStays ==
  ASSUME Stored, UNCHANGED <<tasks, stage, tars>>
  PROVE  Stored'
BY DEF Stored, ArchiveOf, Shard!Kinds, Shard!SameName

LEMMA KeysStay ==
  ASSUME UNCHANGED tasks
  PROVE  \A b : Shard!Keys(b)' = Shard!Keys(b) /\ (Shard!InTasks(b)' <=> Shard!InTasks(b))
BY DEF Shard!Keys, Shard!InTasks

LEMMA ArchivesStay ==
  ASSUME UNCHANGED tars
  PROVE  \A b : Archives(b)' = Archives(b)
BY DEF Archives

LEMMA ToldStays ==
  ASSUME Told, UNCHANGED <<tasks, bins, infos, listed, stage, tars>>,
         progress' = "summary" => progress = "summary"
  PROVE  Told'
BY KeysStay, ArchivesStay DEF Told

LEMMA InPlaceStays ==
  ASSUME InPlace, UNCHANGED <<embedded, tars>>
  PROVE  InPlace'
BY DEF InPlace, Shard!EmbeddingsAligned, ShardClips

LEMMA ShardInit == Shard!Init => ShardInv
<1> SUFFICES ASSUME Shard!Init PROVE ShardInv
  OBVIOUS
<1>1. /\ tasks = <<>> /\ stage = <<>> /\ tars = {} /\ infos = {} /\ listed = FALSE /\ progress = "off" /\ bins = <<>>
      /\ ShardInput
  BY ShardConstants DEF Shard!Init, ShardInput
<1>2. TasksGood(tasks)
  BY <1>1 DEF TasksGood
<1>3. Stored
  BY <1>1 DEF Stored
<1>4. Told
  BY <1>1 DEF Told
<1>5. InPlace
  <2>1. embedded = [c \in ShardClips |-> <<>>]
    BY ShardConstants DEF Shard!Init
  <2> QED
    BY <1>1, <2>1 DEF InPlace, Shard!EmbeddingsAligned
<1> QED
  BY <1>1, <1>2, <1>3, <1>4, <1>5 DEF ShardInv, Planned, NoneLost

LEMMA ShardStart == ShardInv /\ Shard!Start => ShardInv'
<1> SUFFICES ASSUME ShardInv, Shard!Start PROVE ShardInv'
  OBVIOUS
<1>1. UNCHANGED <<meta, excluded, drop, tars, infos, listed>> /\ progress = "off"
  BY DEF Shard!Start, Shard!input, Shard!output
<1>2. CASE tars # {} \/ infos # {} \/ listed
  <2>1. progress' = "refused" /\ UNCHANGED <<tasks, bins, stage, embedded>>
    BY <1>2 DEF Shard!Start, Shard!work
  <2> QED
    BY <1>1, <2>1, PlannedStays, NoneLostStays, StoredStays, ToldStays, InPlaceStays DEF ShardInv
<1>3. CASE ~ (tars # {} \/ infos # {} \/ listed)
  <2>1. /\ tasks' = Shard!Grouped /\ bins' = Shard!BinsInOrder
        /\ stage' = [i \in 1 .. Len(Shard!Grouped) |-> 0]
        /\ embedded' = [c \in ShardClips |-> <<>>]
        /\ progress' \in {"off", "run"}
    BY <1>3, ShardConstants DEF Shard!Start
  <2>2. tars = {} /\ infos = {} /\ ~ listed
    BY <1>3
  <2>3. /\ TasksGood(Shard!Grouped)
        /\ \A b \in Bins : AllThere(b, Covered(Shard!Grouped))
        /\ \A i \in DOMAIN Shard!Grouped : Shard!Grouped[i].bin \in ToSet(Shard!BinsInOrder)
        /\ Shard!BinsInOrder \in Seq(Bins)
    BY <2>2, GroupedIs, BinsAre DEF ShardInv, Planned
  <2> DEFINE G == Shard!Grouped
             B == Shard!BinsInOrder
  <2> HIDE DEF G, B
  <2>4. tasks' = G /\ bins' = B /\ stage' = [i \in 1 .. Len(G) |-> 0]
    BY <2>1 DEF G, B
  <2>5. TasksGood(G) /\ (\A b \in Bins : AllThere(b, Covered(G))) /\ B \in Seq(Bins)
        /\ \A i \in DOMAIN G : G[i].bin \in ToSet(B)
    BY <2>3 DEF G, B
  <2>6. Shard!Samples' = Shard!Samples /\ Shard!Wanted' = Shard!Wanted
    <3>1. Shard!Samples' = Shard!Samples
      BY <1>1 DEF Shard!Samples, Shard!Clips
    <3> QED
      BY <1>1, <3>1 DEF Shard!Wanted
  <2>7. Planned'
    <3>1. ShardInput'
      BY <1>1 DEF ShardInv, Planned, ShardInput, ShardClips
    <3>2. TasksGood(tasks)'
      BY <1>1, <2>4, <2>5, TasksStayGood
    <3> QED
      BY <3>1, <3>2 DEF Planned
  <2>8. NoneLost'
    <3>1. \A b \in Bins : AllThere(b, Covered(tasks))' <=> AllThere(b, Covered(G))
      BY <1>1, <2>4, <2>6 DEF AllThere, Covered, ShardClips
    <3> QED
      BY <2>5, <3>1 DEF NoneLost
  <2>9. Stored'
    <3>1. DOMAIN G = 1 .. Len(G)
      BY <2>5 DEF TasksGood
    <3> QED
      BY <1>1, <2>2, <2>4, <3>1 DEF Stored
  <2>10. Told'
    BY <1>1, <2>1, <2>2, <2>4, <2>5 DEF Told
  <2>11. InPlace'
    BY <1>1, <2>1, <2>2 DEF InPlace, Shard!EmbeddingsAligned, ShardClips
  <2> QED
    BY <2>7, <2>8, <2>9, <2>10, <2>11 DEF ShardInv
<1> QED
  BY <1>2, <1>3

LEMMA ShardEncode ==
  ASSUME ShardInv, NEW i \in 1 .. Len(tasks), Shard!Encode(i)
  PROVE  ShardInv'
<1>1. /\ progress = "run" /\ stage[i] = 0 /\ Shard!Asserted(i)
      /\ embedded' = [c \in ShardClips |-> IF Shard!Contains(tasks[i].clips, c) THEN Shard!Captioned(c) ELSE embedded[c]]
      /\ stage' = [stage EXCEPT ![i] = 1]
      /\ UNCHANGED <<meta, excluded, drop, progress, tasks, bins, tars, infos, listed>>
  BY ShardConstants DEF Shard!Encode, Shard!input, Shard!output
<1>2. DOMAIN tasks = 1 .. Len(tasks) /\ stage \in [DOMAIN tasks -> 0 .. 4]
  BY DEF ShardInv, Planned, TasksGood, Stored
<1>3. Stored'
  <2>1. stage' \in [DOMAIN tasks -> 0 .. 4] /\ \A j \in DOMAIN tasks, k \in 1 .. 3 : k < stage'[j] <=> k < stage[j]
    BY <1>1, <1>2
  <2> QED
    BY <1>1, <2>1 DEF ShardInv, Stored, ArchiveOf, Shard!Kinds, Shard!SameName
<1>4. Told'
  <2>1. ~ (progress' = "summary" \/ listed' \/ infos' # {})
    BY <1>1, <1>2 DEF ShardInv, Told
  <2> QED
    BY <1>1, <2>1, KeysStay, ArchivesStay DEF ShardInv, Told
<1>5. InPlace'
  <2>1. ASSUME NEW c \in ShardClips, NEW n \in 1 .. Len(embedded'[c]) PROVE embedded'[c][n] = n
    <3>1. CASE c \in ToSet(tasks[i].clips)
      <4>1. embedded'[c] = Shard!Captioned(c)
        BY <1>1, <3>1, ShardLibrary
      <4>2. \A d \in ToSet(tasks[i].clips) : \A k \in 1 .. Len(Shard!Captioned(d)) : Shard!Captioned(d)[k] = k
        BY <1>1, ShardLibrary DEF Shard!Asserted
      <4> QED
        BY <2>1, <3>1, <4>1, <4>2
    <3>2. CASE c \notin ToSet(tasks[i].clips)
      <4>1. embedded'[c] = embedded[c]
        BY <1>1, <3>2, ShardLibrary
      <4> QED
        BY <2>1, <4>1 DEF ShardInv, InPlace
    <3> QED
      BY <3>1, <3>2
  <2> QED
    BY <1>1, <2>1 DEF ShardInv, InPlace, Shard!EmbeddingsAligned, ShardClips
<1> QED
  BY <1>1, <1>3, <1>4, <1>5, PlannedStays, NoneLostStays DEF ShardInv

LEMMA ShardWriteTar ==
  ASSUME ShardInv, NEW i \in 1 .. Len(tasks), Shard!WriteTar(i)
  PROVE  ShardInv'
<1> DEFINE u == tasks[i]
           t == [kind |-> Shard!Kinds[stage[i]], bin |-> u.bin, part |-> u.part, tar |-> u.tar, clips |-> u.clips,
                 windows |-> [n \in 1 .. Len(u.clips) |-> embedded[u.clips[n]]],
                 marked |-> marked \cap Shard!ToSet(u.clips)]
<1>1. /\ progress = "run" /\ stage[i] \in 1 .. 3
      /\ tars' = IF \E v \in tars : Shard!SameName(t, v) THEN tars ELSE tars \cup {t}
      /\ stage' = [stage EXCEPT ![i] = @ + 1]
      /\ UNCHANGED <<meta, excluded, drop, progress, tasks, bins, embedded, infos, listed>>
  BY DEF Shard!WriteTar, Shard!input
<1>2. DOMAIN tasks = 1 .. Len(tasks) /\ stage \in [DOMAIN tasks -> 0 .. 4] /\ i \in DOMAIN tasks
  BY DEF ShardInv, Planned, TasksGood, Stored
<1>3. /\ t.kind = Shard!Kinds[stage[i]] /\ t.bin = u.bin /\ t.part = u.part /\ t.tar = u.tar /\ t.clips = u.clips
      /\ t.windows = [n \in 1 .. Len(u.clips) |-> embedded[u.clips[n]]]
  OBVIOUS
<1>4. u \in ShardTask /\ u.clips \in Seq(ShardClips)
  BY <1>2 DEF ShardInv, Planned, TasksGood, GoodTask, ShardTask
<1> HIDE DEF t
<1>5. ArchiveOf(t, u, stage[i])
  BY <1>3 DEF ArchiveOf
<1>6. \A m, n \in 1 .. 3 : Shard!Kinds[m] = Shard!Kinds[n] => m = n
  BY DEF Shard!Kinds
<1>7. ASSUME NEW v \in tars PROVE ~ Shard!SameName(t, v) /\ ~ Shard!SameName(v, t)
  <2>1. PICK j \in DOMAIN tasks, k \in 1 .. 3 : k < stage[j] /\ ArchiveOf(v, tasks[j], k)
    BY DEF ShardInv, Stored
  <2> SUFFICES ASSUME t.kind = v.kind, t.bin = v.bin, t.part = v.part, t.tar = v.tar PROVE FALSE
    BY DEF Shard!SameName
  <2>2. k = stage[i]
    BY <1>1, <1>3, <1>6, <2>1 DEF ArchiveOf
  <2>3. u.bin = tasks[j].bin /\ u.part = tasks[j].part /\ u.tar = tasks[j].tar
    BY <1>3, <2>1 DEF ArchiveOf
  <2>4. i = j
    BY <1>2, <2>3 DEF ShardInv, Planned, TasksGood, Apart
  <2> QED
    BY <1>1, <2>1, <2>2, <2>4
<1>8. tars' = tars \cup {t}
  BY <1>1, <1>7
<1>9. /\ stage' \in [DOMAIN tasks -> 0 .. 4] /\ stage'[i] = stage[i] + 1
      /\ \A j \in DOMAIN tasks : j # i => stage'[j] = stage[j]
  BY <1>1, <1>2
<1> HIDE DEF u
<1>10. Stored'
  <2>1. ASSUME NEW v \in tars'
        PROVE  \E j \in DOMAIN tasks, k \in 1 .. 3 : k < stage'[j] /\ ArchiveOf(v, tasks[j], k)
    <3>1. CASE v \in tars
      <4>1. PICK j \in DOMAIN tasks, k \in 1 .. 3 : k < stage[j] /\ ArchiveOf(v, tasks[j], k)
        BY <3>1 DEF ShardInv, Stored
      <4>2. k < stage'[j]
        BY <1>1, <1>2, <1>9, <4>1
      <4> QED
        BY <4>1, <4>2
    <3>2. CASE v = t
      <4>1. stage[i] < stage'[i] /\ ArchiveOf(v, tasks[i], stage[i])
        BY <1>1, <1>5, <1>9, <3>2 DEF u
      <4> QED
        BY <1>1, <1>2, <4>1
    <3> QED
      BY <1>8, <3>1, <3>2
  <2>2. ASSUME NEW j \in DOMAIN tasks, NEW k \in 1 .. 3, k < stage'[j]
        PROVE  \E v \in tars' : ArchiveOf(v, tasks[j], k)
    <3>1. CASE k < stage[j]
      BY <1>8, <3>1 DEF ShardInv, Stored
    <3>2. CASE ~ (k < stage[j])
      <4>1. j = i /\ k = stage[i]
        BY <1>1, <1>2, <1>9, <2>2, <3>2
      <4> QED
        BY <1>5, <1>8, <4>1 DEF u
    <3> QED
      BY <3>1, <3>2
  <2>3. ASSUME NEW v \in tars', NEW w \in tars', Shard!SameName(v, w) PROVE v = w
    <3>1. CASE v \in tars /\ w \in tars
      BY <2>3, <3>1 DEF ShardInv, Stored
    <3>2. CASE v = t \/ w = t
      BY <1>7, <1>8, <2>3, <3>2
    <3> QED
      BY <1>8, <3>1, <3>2
  <2>4. (\A v \in tars : \E j \in DOMAIN tasks, k \in 1 .. 3 : k < stage[j] /\ ArchiveOf(v, tasks[j], k))'
    BY <1>1, <2>1 DEF ArchiveOf, Shard!Kinds
  <2>5. (\A j \in DOMAIN tasks, k \in 1 .. 3 : k < stage[j] => \E v \in tars : ArchiveOf(v, tasks[j], k))'
    BY <1>1, <2>2 DEF ArchiveOf, Shard!Kinds
  <2>6. (\A v, w \in tars : Shard!SameName(v, w) => v = w)'
    BY <2>3 DEF Shard!SameName
  <2>7. (stage \in [DOMAIN tasks -> 0 .. 4])'
    BY <1>1, <1>9
  <2> QED
    BY <2>4, <2>5, <2>6, <2>7 DEF Stored
<1>11. Told'
  <2>1. ~ (progress' = "summary" \/ listed' \/ infos' # {})
    BY <1>1, <1>2 DEF ShardInv, Told
  <2> QED
    BY <1>1, <2>1, KeysStay DEF ShardInv, Told
<1>12. InPlace'
  <2>1. ASSUME NEW c \in 1 .. Len(t.clips), NEW n \in 1 .. Len(t.windows[c]) PROVE t.windows[c][n] = n
    <3>1. u.clips[c] \in ShardClips /\ t.windows[c] = embedded[u.clips[c]]
      BY <1>3, <1>4
    <3> QED
      BY <3>1 DEF ShardInv, InPlace
  <2>2. \A v \in tars' : v.kind = "t5_xxl" =>
          \A c \in 1 .. Len(v.clips) : \A n \in 1 .. Len(v.windows[c]) : v.windows[c][n] = n
    BY <1>8, <2>1 DEF ShardInv, InPlace, Shard!EmbeddingsAligned
  <2> QED
    BY <1>1, <2>2 DEF ShardInv, InPlace, Shard!EmbeddingsAligned, ShardClips
<1> QED
  BY <1>1, <1>10, <1>11, <1>12, PlannedStays, NoneLostStays DEF ShardInv

LEMMA ShardWriteInfo == ShardInv /\ Shard!WriteInfo => ShardInv'
<1> SUFFICES ASSUME ShardInv, Shard!WriteInfo PROVE ShardInv'
  OBVIOUS
<1> DEFINE b == Head(bins)
           info == [bin |-> b, keys |-> Shard!Keys(b), list |-> Archives(b)]
<1>1. /\ progress = "summary" /\ bins # <<>> /\ Shard!InTasks(b)
      /\ infos' = infos \cup {info}
      /\ bins' = Tail(bins)
      /\ UNCHANGED <<meta, excluded, drop, progress, tasks, stage, embedded, tars, listed>>
  BY DEF Shard!WriteInfo, Shard!input, Archives
<1>2. info.bin = b /\ info.keys = Shard!Keys(b) /\ info.list = Archives(b)
  OBVIOUS
<1>3. bins \in Seq(Bins) /\ Tail(bins) \in Seq(Bins) /\ \A c \in ToSet(bins) : c = b \/ c \in ToSet(Tail(bins))
  <2>1. bins \in Seq(Bins)
    BY DEF ShardInv, Told
  <2>2. /\ Tail(bins) \in Seq(Bins) /\ Len(Tail(bins)) = Len(bins) - 1 /\ b = bins[1]
        /\ \A i \in 1 .. Len(Tail(bins)) : Tail(bins)[i] = bins[i + 1]
    BY <1>1, <2>1, HeadTailProperties
  <2>3. ASSUME NEW c \in ToSet(bins), c # b PROVE c \in ToSet(Tail(bins))
    <3>1. PICK i \in 1 .. Len(bins) : bins[i] = c
      BY <2>1 DEF ToSet
    <3> DEFINE k == i - 1
               q == Tail(bins)
    <3>2. Len(bins) \in Nat /\ i # 1 /\ k \in 1 .. Len(q) /\ k + 1 = i
      BY <2>1, <2>2, <2>3, <3>1
    <3>3. q \in Seq(Bins) /\ DOMAIN q = 1 .. Len(q) /\ q[k] = bins[k + 1]
      BY <2>2, <3>2
    <3> HIDE DEF q, k
    <3> QED
      BY <3>1, <3>2, <3>3 DEF ToSet, q
  <2> QED
    BY <2>1, <2>2, <2>3
<1> HIDE DEF b, info
<1>4. Told'
  <2>1. ASSUME NEW i \in DOMAIN tasks
        PROVE  tasks[i].bin \in ToSet(bins') \/ \E e \in infos' : e.bin = tasks[i].bin
    <3>1. tasks[i].bin \in ToSet(bins) \/ \E e \in infos : e.bin = tasks[i].bin
      BY DEF ShardInv, Told
    <3> QED
      BY <1>1, <1>2, <1>3, <3>1
  <2>2. ASSUME NEW e \in infos'
        PROVE  Shard!InTasks(e.bin) /\ e.keys = Shard!Keys(e.bin) /\ e.list = Archives(e.bin)
    BY <1>1, <1>2, <2>2 DEF ShardInv, Told
  <2>3. ~ listed'
    BY <1>1 DEF ShardInv, Told
  <2>4. \A i \in DOMAIN tasks : stage[i] = 4
    BY <1>1 DEF ShardInv, Told
  <2> QED
    BY <1>1, <1>3, <2>1, <2>2, <2>3, <2>4, KeysStay, ArchivesStay DEF Told
<1> QED
  BY <1>1, <1>4, PlannedStays, NoneLostStays, StoredStays, InPlaceStays DEF ShardInv

LEMMA ShardOthers ==
  ASSUME ShardInv,
         \/ \E i \in 1 .. Len(tasks) : Shard!EncodeFails(i)
         \/ Shard!Packed \/ Shard!NoSuchBin \/ Shard!WriteList \/ Shard!Dies \/ UNCHANGED shardVars
  PROVE  ShardInv'
<1>1. /\ UNCHANGED <<meta, excluded, drop, tasks, bins, stage, embedded, tars, infos>>
      /\ \/ listed' = listed /\ (progress' = progress \/ progress' = "off")
         \/ listed' = listed /\ progress = "run" /\ progress' = "summary" /\ \A i \in 1 .. Len(tasks) : stage[i] = 4
         \/ listed' = TRUE /\ bins = <<>> /\ progress = "summary" /\ progress' = "off"
  BY DEF Shard!EncodeFails, Shard!Packed, Shard!NoSuchBin, Shard!WriteList, Shard!Dies, shardVars,
         Shard!input, Shard!work, Shard!output
<1>2. listed' \/ progress' \in {"run", "summary"} => listed \/ progress \in {"run", "summary"}
  BY <1>1
<1>3. DOMAIN tasks = 1 .. Len(tasks)
  BY DEF ShardInv, Planned, TasksGood
<1>4. /\ progress' = "summary" \/ listed' \/ infos # {} => \A i \in DOMAIN tasks : stage[i] = 4
      /\ listed' => bins = <<>>
  BY <1>1, <1>3 DEF ShardInv, Told
<1>5. Told'
  BY <1>1, <1>4, KeysStay, ArchivesStay DEF ShardInv, Told
<1> QED
  BY <1>1, <1>2, <1>5, PlannedStays, NoneLostStays, StoredStays, InPlaceStays DEF ShardInv

LEMMA ShardStep == ShardInv /\ [Shard!Next]_shardVars => ShardInv'
<1> SUFFICES ASSUME ShardInv, [Shard!Next]_shardVars PROVE ShardInv'
  OBVIOUS
<1>1. CASE Shard!Start
  BY <1>1, ShardStart
<1>2. CASE \E i \in 1 .. Len(tasks) : Shard!Encode(i)
  BY <1>2, ShardEncode
<1>3. CASE \E i \in 1 .. Len(tasks) : Shard!WriteTar(i)
  BY <1>3, ShardWriteTar
<1>4. CASE Shard!WriteInfo
  BY <1>4, ShardWriteInfo
<1>5. CASE \/ \E i \in 1 .. Len(tasks) : Shard!EncodeFails(i)
           \/ Shard!Packed \/ Shard!NoSuchBin \/ Shard!WriteList \/ Shard!Dies \/ UNCHANGED shardVars
  BY <1>5, ShardOthers
<1> QED
  BY <1>1, <1>2, <1>3, <1>4, <1>5 DEF Shard!Next

LEMMA ShardInvImplies == ShardInv => ShardsSound
<1> SUFFICES ASSUME ShardInv PROVE Shard!ShardsComplete
  BY DEF ShardInv, InPlace, ShardsSound, Shard!ShardsSound
<1> SUFFICES ASSUME listed PROVE Shard!ShardsComplete
  BY DEF Shard!ShardsComplete
<1>1. /\ \A i \in DOMAIN tasks : stage[i] = 4 /\ GoodTask(tasks[i])
      /\ \A i \in DOMAIN tasks : \E info \in infos : info.bin = tasks[i].bin
  <2>1. bins = <<>> /\ ToSet(<<>>) = {}
    BY DEF ShardInv, Told, ToSet
  <2> QED
    BY <2>1 DEF ShardInv, Told, Planned, TasksGood
<1>2. /\ Shard!Kinds[1] = "video" /\ Shard!Kinds[2] = "t5_xxl" /\ Shard!Kinds[3] = "metas"
      /\ \A k \in Shard!ToSet(Shard!Kinds) : \E n \in 1 .. 3 : k = Shard!Kinds[n]
      /\ \A m, n \in 1 .. 3 : Shard!Kinds[m] = Shard!Kinds[n] => m = n
  BY DEF Shard!Kinds, Shard!ToSet
<1>3. ASSUME NEW t \in tars
      PROVE  \E i \in DOMAIN tasks, k \in 1 .. 3 : ArchiveOf(t, tasks[i], k)
  BY DEF ShardInv, Stored
<1>4. ASSUME NEW i \in DOMAIN tasks, NEW k \in 1 .. 3 PROVE \E t \in tars : ArchiveOf(t, tasks[i], k)
  BY <1>1 DEF ShardInv, Stored
<1>5. ASSUME NEW k, NEW c PROVE Shard!In(k, c) = {t \in tars : t.kind = k /\ c \in ToSet(t.clips)}
  BY ShardLibrary DEF Shard!In
<1>6. ASSUME NEW i \in DOMAIN tasks, NEW j \in DOMAIN tasks, NEW c, c \in ToSet(tasks[i].clips), c \in ToSet(tasks[j].clips)
      PROVE  i = j
  BY <1>6 DEF ShardInv, Planned, TasksGood, Apart
<1>7. ASSUME NEW i \in DOMAIN tasks
      PROVE  /\ tasks[i].bin \in Bins /\ tasks[i].clips \in Seq(ShardClips)
             /\ ToSet(tasks[i].clips) \subseteq Shard!Wanted \cap ShardClips
  <2>1. tasks[i].bin \in Bins /\ tasks[i].clips \in Seq(ShardClips)
    BY <1>1 DEF GoodTask, ShardTask
  <2>2. ToSet(tasks[i].clips) \subseteq ShardClips
    BY <2>1, ElementsOf
  <2>3. ToSet(tasks[i].clips) \subseteq Shard!Wanted
    BY <1>1, <2>1, ShardConstants DEF GoodTask, Shard!Wanted
  <2> QED
    BY <2>1, <2>2, <2>3
<1>8. ASSUME NEW c \in ShardClips
      PROVE  c \in Covered(tasks) <=> Shard!In("video", c) # {}
  <2>1. ASSUME NEW i \in DOMAIN tasks, c \in ToSet(tasks[i].clips) PROVE Shard!In("video", c) # {}
    <3>1. PICK t \in tars : ArchiveOf(t, tasks[i], 1)
      BY <1>4
    <3>2. t \in Shard!In("video", c)
      BY <1>2, <1>5, <2>1, <3>1 DEF ArchiveOf
    <3> QED
      BY <3>2
  <2>2. ASSUME NEW t \in Shard!In("video", c) PROVE \E i \in DOMAIN tasks : c \in ToSet(tasks[i].clips)
    BY <1>3, <1>5 DEF ArchiveOf
  <2> QED
    BY <2>1, <2>2 DEF Covered
<1>9. ASSUME NEW k \in Shard!ToSet(Shard!Kinds), NEW c \in ShardClips
      PROVE  Shard!Cardinality(Shard!In(k, c)) <= IF c \in Shard!Wanted THEN 1 ELSE 0
  <2>1. CASE c \in Shard!Wanted
    <3>1. ASSUME NEW t \in Shard!In(k, c), NEW u \in Shard!In(k, c) PROVE t = u
      <4>0. t \in tars /\ u \in tars /\ t.kind = k /\ u.kind = k /\ c \in ToSet(t.clips) /\ c \in ToSet(u.clips)
        BY <1>5
      <4>1. PICK i \in DOMAIN tasks, m \in 1 .. 3 : ArchiveOf(t, tasks[i], m)
        BY <1>3, <4>0
      <4>2. PICK j \in DOMAIN tasks, n \in 1 .. 3 : ArchiveOf(u, tasks[j], n)
        BY <1>3, <4>0
      <4>3. i = j
        BY <1>6, <4>0, <4>1, <4>2 DEF ArchiveOf
      <4>4. Shard!SameName(t, u)
        BY <4>0, <4>1, <4>2, <4>3 DEF ArchiveOf, Shard!SameName
      <4> QED
        BY <4>0, <4>4 DEF ShardInv, Stored
    <3>2. Cardinality(Shard!In(k, c)) <= 1
      BY <3>1, OneAtMost
    <3> QED
      BY <2>1, <3>2, ShardLibrary
  <2>2. CASE c \notin Shard!Wanted
    <3>1. Shard!In(k, c) = {}
      <4> SUFFICES ASSUME NEW t \in Shard!In(k, c) PROVE FALSE
        OBVIOUS
      <4>1. t \in tars /\ c \in ToSet(t.clips)
        BY <1>5
      <4>2. PICK i \in DOMAIN tasks, m \in 1 .. 3 : ArchiveOf(t, tasks[i], m)
        BY <1>3, <4>1
      <4> QED
        BY <1>7, <2>2, <4>1, <4>2 DEF ArchiveOf
    <3>2. Cardinality(Shard!In(k, c)) = 0
      BY <3>1, FS_EmptySet
    <3> QED
      BY <2>2, <3>2, ShardLibrary
  <2> QED
    BY <2>1, <2>2
<1>10. ASSUME NEW k \in Shard!ToSet(Shard!Kinds), NEW v \in tars, v.kind = "video"
       PROVE  \E t \in tars : t.kind = k /\ t.bin = v.bin /\ t.part = v.part /\ t.tar = v.tar /\ t.clips = v.clips
  <2>1. PICK i \in DOMAIN tasks, m \in 1 .. 3 : ArchiveOf(v, tasks[i], m)
    BY <1>3
  <2>2. PICK n \in 1 .. 3 : k = Shard!Kinds[n]
    BY <1>2
  <2>3. PICK t \in tars : ArchiveOf(t, tasks[i], n)
    BY <1>4
  <2> QED
    BY <2>1, <2>2, <2>3 DEF ArchiveOf
<1>11. ASSUME NEW b \in Bins
       PROVE  LET missing == {c \in Shard!Wanted : meta[c].bin = b /\ Shard!In("video", c) = {}}
              IN  /\ missing # {} => drop /\ Shard!Cardinality(missing) < MinClips
                  /\ \A c \in missing, d \in Shard!Wanted \ missing : meta[d].bin = b => d < c
  <2> DEFINE missing == {c \in Shard!Wanted : meta[c].bin = b /\ Shard!In("video", c) = {}}
             lost == {c \in Shard!Wanted : meta[c].bin = b /\ c \notin Covered(tasks)}
  <2>1. Shard!Wanted \subseteq ShardClips
    BY ShardConstants DEF Shard!Wanted, Shard!Samples
  <2>2. missing = lost
    BY <1>8, <2>1
  <2>3. AllThere(b, Covered(tasks))
    BY DEF ShardInv, NoneLost
  <2>4. /\ lost # {} => drop /\ Cardinality(lost) < MinClips
        /\ \A c \in lost, d \in Shard!Wanted \ lost : meta[d].bin = b => d < c
    BY <2>3 DEF AllThere
  <2> HIDE DEF lost, missing
  <2>5. /\ missing # {} => drop /\ Shard!Cardinality(missing) < MinClips
        /\ \A c \in missing, d \in Shard!Wanted \ missing : meta[d].bin = b => d < c
    BY <2>2, <2>4, ShardLibrary
  <2> QED
    BY <2>5 DEF missing
<1>12. ASSUME NEW b \in Bins, NEW info \in infos, info.bin = b
       PROVE  /\ info.keys = Shard!Cardinality({c \in Shard!Clips : \E t \in Shard!In("video", c) : t.bin = b})
              /\ info.list = {<<t.part, t.tar>> : t \in {u \in tars : u.bin = b /\ u.kind = "video"}}
  <2> DEFINE K == {c \in Shard!Clips : \E t \in Shard!In("video", c) : t.bin = b}
             L == {c \in ShardClips : \E i \in DOMAIN tasks : tasks[i].bin = b /\ c \in ToSet(tasks[i].clips)}
  <2>1. info.keys = Shard!Keys(b) /\ info.list = Archives(b)
    BY <1>12 DEF ShardInv, Told
  <2>2. Shard!Keys(b) = Cardinality(L)
    BY KeysAre DEF ShardInv, Planned
  <2>3. ASSUME NEW c \in ShardClips
        PROVE  (\E t \in Shard!In("video", c) : t.bin = b)
               <=> \E i \in DOMAIN tasks : tasks[i].bin = b /\ c \in ToSet(tasks[i].clips)
    <3>1. ASSUME NEW t \in Shard!In("video", c), t.bin = b
          PROVE  \E i \in DOMAIN tasks : tasks[i].bin = b /\ c \in ToSet(tasks[i].clips)
      <4>1. t \in tars /\ c \in ToSet(t.clips)
        BY <1>5
      <4>2. PICK i \in DOMAIN tasks, m \in 1 .. 3 : ArchiveOf(t, tasks[i], m)
        BY <1>3, <4>1
      <4> QED
        BY <3>1, <4>1, <4>2 DEF ArchiveOf
    <3>2. ASSUME NEW i \in DOMAIN tasks, tasks[i].bin = b, c \in ToSet(tasks[i].clips)
          PROVE  \E t \in Shard!In("video", c) : t.bin = b
      <4>1. PICK t \in tars : ArchiveOf(t, tasks[i], 1)
        BY <1>4
      <4>2. t \in Shard!In("video", c) /\ t.bin = b
        BY <1>2, <1>5, <3>2, <4>1 DEF ArchiveOf
      <4> QED
        BY <4>2
    <3> QED
      BY <3>1, <3>2
  <2>4. K = L
    BY <2>3, ShardConstants
  <2> HIDE DEF K, L
  <2>5. info.keys = Shard!Cardinality(K)
    BY <2>1, <2>2, <2>4, ShardLibrary
  <2> QED
    BY <2>1, <2>5 DEF K, Archives
<1>13. {info.bin : info \in infos} = {t.bin : t \in tars}
  <2>1. ASSUME NEW info \in infos PROVE \E t \in tars : t.bin = info.bin
    <3>1. PICK i \in 1 .. Len(tasks) : tasks[i].bin = info.bin
      BY DEF ShardInv, Told, Shard!InTasks
    <3>2. i \in DOMAIN tasks
      BY DEF ShardInv, Planned, TasksGood
    <3>3. PICK t \in tars : ArchiveOf(t, tasks[i], 1)
      BY <1>4, <3>2
    <3> QED
      BY <3>1, <3>3 DEF ArchiveOf
  <2>2. ASSUME NEW t \in tars PROVE \E info \in infos : info.bin = t.bin
    BY <1>1, <1>3 DEF ArchiveOf
  <2> QED
    BY <2>1, <2>2
<1> QED
  BY <1>9, <1>10, <1>11, <1>12, <1>13, ShardConstants DEF Shard!ShardsComplete

\* Whatever the metadata, the sizes and the options, and wherever a run dies: once the list of the
\* dataset exists, each wanted clip is in one archive of each kind, but for a small last group that
\* is dropped, wdinfo.json says what is there, and embeddings have the number of their window.
THEOREM ShardsAreSound == Shard!Spec => []ShardsSound
<1>1. Shard!Spec => Shard!Init /\ [][Shard!Next]_shardVars
  BY DEF Shard!Spec, Shard!vars, shardVars, Shard!input, Shard!work, Shard!output
<1>2. ShardInv /\ [Shard!Next]_shardVars => ShardInv'
  BY ShardStep
<1> QED
  BY <1>1, <1>2, ShardInit, ShardInvImplies, PTL
=============================================================================
