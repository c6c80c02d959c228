-------------------------- MODULE NvcfService_proofs --------------------------
(* What is proved of NvcfService for every set of workers and requests.     *)
EXTENDS NvcfService, TLAPS

\* The labels, so that no other step has to open their sets.
LEMMA Labels ==
  /\ "boot1" \in WorkerPC /\ "boot2" \in WorkerPC /\ "boot3" \in WorkerPC
  /\ "entered" \in WorkerPC /\ "opened" \in WorkerPC /\ "prepare" \in WorkerPC
  /\ "running" \in WorkerPC /\ "except" \in WorkerPC /\ "finally" \in WorkerPC
  /\ "cleanup1" \in WorkerPC /\ "cleanup2" \in WorkerPC /\ "cleanup3" \in WorkerPC
  /\ "release" \in WorkerPC /\ "t_list" \in WorkerPC /\ "t_stop" \in WorkerPC
  /\ "idle" \in WorkerPC /\ "checked" \in WorkerPC /\ "locked" \in WorkerPC
  /\ "down" \in WorkerPC
  /\ "none" \in ThreadPC /\ "loop" \in ThreadPC /\ "collect" \in ThreadPC
  /\ "flush" \in ThreadPC /\ "writing" \in ThreadPC /\ "drain" \in ThreadPC
  /\ "record" \in ThreadPC /\ "recording" \in ThreadPC /\ "exited" \in ThreadPC
  /\ "dead" \in ThreadPC
  /\ "none" \in Holds /\ "current" \in Holds /\ "orphan" \in Holds
BY DEF WorkerPC, StartingPC, HandlerPC, CleanupPC, TerminatePC, ThreadPC, Holds

\* Unlinking a lock file leaves holds.
LEMMA OrphanType ==
  ASSUME NEW D, NEW holds \in [D -> Holds]
  PROVE  OrphanAll(holds) \in [D -> Holds]
BY DEF OrphanAll, Orphaned, Holds

\* The variables of a NvcfService state always have their types.
THEOREM Typing == Spec => []TypeOK
<1> USE ConstantsAssumption, Labels DEF TypeOK, WorkerTypes, FileTypes, ThreadTypes
<1>1. Init => TypeOK
  <2> SUFFICES ASSUME Init
               PROVE  TypeOK
    OBVIOUS
  <2>1. WorkerTypes
    BY DEF Init
  <2>2. FileTypes
    BY DEF Init
  <2>3. ThreadTypes
    BY DEF Init
  <2>4. QED
    BY <2>1, <2>2, <2>3 DEF Init
<1>2. TypeOK /\ [Next]_vars => TypeOK'
  <2> SUFFICES ASSUME TypeOK, [Next]_vars
               PROVE  TypeOK'
    OBVIOUS
  <2> USE DEF workerVars, lockVars, recordVars, threadVars, Goto
  <2>1. ASSUME NEW w \in Workers, Admit(w)
        PROVE  TypeOK'
    <3>1. CASE \E r \in Requests : CheckBusy(w, r)
      BY <3>1 DEF CheckBusy
    <3>2. CASE AcquireLock(w)
      BY <3>2 DEF AcquireLock
    <3>3. CASE LockTimeout(w)
      BY <3>3 DEF LockTimeout
    <3>4. CASE WriteStatusFile(w)
      BY <3>4 DEF WriteStatusFile
    <3>5. QED
      BY <2>1, <3>1, <3>2, <3>3, <3>4 DEF Admit
  <2>2. ASSUME NEW w \in Workers, Handle(w)
        PROVE  TypeOK'
    <3>1. CASE OpenProgressFile(w)
      BY <3>1 DEF OpenProgressFile
    <3>2. CASE StartProgressThread(w)
      BY <3>2 DEF StartProgressThread
    <3>3. CASE PrepareFails(w)
      BY <3>3 DEF PrepareFails
    <3>4. CASE AcceptUnsupported(w)
      BY <3>4 DEF AcceptUnsupported
    <3>5. CASE LaunchJob(w)
      BY <3>5 DEF LaunchJob
    <3>6. CASE ProcessSucceeds(w)
      BY <3>6 DEF ProcessSucceeds
    <3>7. CASE ProcessFails(w)
      BY <3>7 DEF ProcessFails
    <3>8. CASE SignalStop(w)
      BY <3>8 DEF SignalStop
    <3>9. CASE AnswerError(w)
      BY <3>9 DEF AnswerError
    <3>10. CASE LeaveHandler(w)
      BY <3>10 DEF LeaveHandler
    <3>11. QED
      BY <2>2, <3>1, <3>2, <3>3, <3>4, <3>5, <3>6, <3>7, <3>8, <3>9, <3>10 DEF Handle
  <2>3. ASSUME NEW w \in Workers, CleanUp(w)
        PROVE  TypeOK'
    <3>1. CASE UnlinkStatusFile(w)
      BY <3>1 DEF UnlinkStatusFile
    <3>2. CASE UnlinkPipelineLock(w)
      BY <3>2, OrphanType DEF UnlinkPipelineLock
    <3>3. CASE UnlinkLogLock(w)
      BY <3>3, OrphanType DEF UnlinkLogLock
    <3>4. CASE ReleaseLock(w)
      BY <3>4 DEF ReleaseLock
    <3>5. QED
      BY <2>3, <3>1, <3>2, <3>3, <3>4 DEF CleanUp
  <2>4. ASSUME NEW w \in Workers, Terminate(w)
        PROVE  TypeOK'
    <3>1. ASSUME NEW r \in Requests \cup {ForceId}, CheckTermination(w, r)
          PROVE  TypeOK'
      <4>1. /\ req' \in [Workers -> Requests \cup {ForceId, None}]
            /\ pc' \in [Workers -> WorkerPC]
        BY <3>1 DEF CheckTermination
      <4>2. QED
        BY <3>1, <4>1 DEF CheckTermination
    <3>2. CASE ListJobs(w)
      BY <3>2 DEF ListJobs
    <3>3. CASE \E r \in Requests : StopJob(w, r)
      BY <3>3 DEF StopJob
    <3>4. CASE \E r \in Requests : StopJobFails(w, r)
      BY <3>4 DEF StopJobFails
    <3>5. CASE RecordTermination(w)
      BY <3>5 DEF RecordTermination
    <3> HIDE DEF TypeOK, WorkerTypes, FileTypes, ThreadTypes
    <3>6. CASE \E r \in Requests : StopJob(w, r) \/ StopJobFails(w, r)
      BY <3>3, <3>4, <3>6
    <3>7. QED
      BY <2>4, <3>1, <3>2, <3>5, <3>6 DEF Terminate
  <2>5. ASSUME NEW w \in Workers, EmitLine(w)
        PROVE  TypeOK'
    <3>1. CASE req[w] \in Requests
      BY <2>5, <3>1 DEF EmitLine
    <3>2. CASE req[w] \notin Requests
      BY <2>5, <3>2 DEF EmitLine
    <3>3. QED
      BY <3>1, <3>2
  <2>6. ASSUME NEW w \in Workers, Crash(w)
        PROVE  TypeOK'
    BY <2>6 DEF Crash
  <2>7. ASSUME NEW w \in Workers, Restart(w)
        PROVE  TypeOK'
    BY <2>7 DEF Restart
  <2>8. ASSUME NEW r \in Requests, ProgressThread(r)
        PROVE  TypeOK'
    <3> USE DEF StepThread
    <3>1. CASE PollStatus(r)
      BY <3>1 DEF PollStatus
    <3>2. CASE CollectLines(r)
      BY <3>2 DEF CollectLines
    <3>3. CASE SkipFlush(r)
      BY <3>3 DEF SkipFlush
    <3>4. CASE TruncateProgress(r)
      BY <3>4 DEF TruncateProgress
    <3>5. CASE WriteProgress(r)
      BY <3>5 DEF WriteProgress
    <3>6. CASE WriteProgressFails(r)
      BY <3>6 DEF WriteProgressFails
    <3>7. CASE ExitLoop(r)
      BY <3>7 DEF ExitLoop
    <3>8. CASE DrainQueue(r)
      BY <3>8 DEF DrainQueue
    <3>9. CASE LookForFailed(r)
      BY <3>9 DEF LookForFailed
    <3>10. CASE RecordOutcome(r)
      BY <3>10 DEF RecordOutcome
    <3>11. QED
      BY <2>8, <3>1, <3>2, <3>3, <3>4, <3>5, <3>6, <3>7, <3>8, <3>9, <3>10 DEF ProgressThread
  <2>9. ASSUME NEW r \in Requests, JobEnds(r)
        PROVE  TypeOK'
    BY <2>9 DEF JobEnds
  <2>10. CASE UNCHANGED vars
    BY <2>10 DEF vars
  <2>11. QED
    BY <2>1, <2>2, <2>3, <2>4, <2>5, <2>6, <2>7, <2>8, <2>9, <2>10 DEF Next
<1>3. QED
  BY <1>1, <1>2, PTL DEF Spec

-----------------------------------------------------------------------------
(* Mutual exclusion.  It holds as long as no worker starts or dies: the run *)
(* nvcf_late_worker shows what a start does to it.                          *)

NoRestart == Late = {} /\ MaxRestarts = 0

\* A worker is in the section exactly while it holds the lock file at the
\* path, and one worker does.  pc says so without InSection's quantifier.
SectionInv ==
  /\ \A w \in Workers : pc[w] \notin StartingPC \cup {"down"}
  /\ \A w \in Workers : InSection(w) <=> lock[w] = "current"
  /\ \A v, w \in Workers : lock[v] = "current" /\ lock[w] = "current" => v = w

LEMMA SectionInit == NoRestart /\ Init => SectionInv
BY DEF NoRestart, Init, SectionInv, InSection, HandlerPC, StartingPC

LEMMA SectionStep ==
  ASSUME NoRestart, TypeOK, SectionInv, [Next]_vars
  PROVE  SectionInv'
<1> USE DEF SectionInv, InSection, HandlerPC, StartingPC, Goto, TypeOK, WorkerTypes,
        FileTypes, workerVars, lockVars
<1>1. ASSUME NEW w \in Workers, Admit(w)
      PROVE  SectionInv'
  <2>1. CASE \E r \in Requests : CheckBusy(w, r)
    BY <2>1 DEF CheckBusy
  <2>2. CASE AcquireLock(w)
    BY <2>2 DEF AcquireLock
  <2>3. CASE LockTimeout(w)
    BY <2>3 DEF LockTimeout
  <2>4. CASE WriteStatusFile(w)
    BY <2>4 DEF WriteStatusFile
  <2>5. QED
    BY <1>1, <2>1, <2>2, <2>3, <2>4 DEF Admit
<1>2. ASSUME NEW w \in Workers, Handle(w)
      PROVE  SectionInv'
  <2>1. CASE OpenProgressFile(w)
    BY <2>1 DEF OpenProgressFile
  <2>2. CASE StartProgressThread(w)
    BY <2>2 DEF StartProgressThread
  <2>3. CASE PrepareFails(w)
    BY <2>3 DEF PrepareFails
  <2>4. CASE AcceptUnsupported(w)
    BY <2>4 DEF AcceptUnsupported
  <2>5. CASE LaunchJob(w)
    BY <2>5 DEF LaunchJob
  <2>6. CASE ProcessSucceeds(w)
    BY <2>6 DEF ProcessSucceeds
  <2>7. CASE ProcessFails(w)
    BY <2>7 DEF ProcessFails
  <2>8. CASE SignalStop(w)
    BY <2>8 DEF SignalStop
  <2>9. CASE AnswerError(w)
    BY <2>9 DEF AnswerError
  <2>10. CASE LeaveHandler(w)
    BY <2>10 DEF LeaveHandler
  <2>11. QED
    BY <1>2, <2>1, <2>2, <2>3, <2>4, <2>5, <2>6, <2>7, <2>8, <2>9, <2>10 DEF Handle
<1>3. ASSUME NEW w \in Workers, CleanUp(w)
      PROVE  SectionInv'
  <2>1. CASE UnlinkStatusFile(w)
    BY <2>1 DEF UnlinkStatusFile
  <2>2. CASE UnlinkPipelineLock(w)
    BY <2>2 DEF UnlinkPipelineLock, OrphanAll, Orphaned
  <2>3. CASE UnlinkLogLock(w)
    BY <2>3 DEF UnlinkLogLock
  <2>4. CASE ReleaseLock(w)
    BY <2>4 DEF ReleaseLock
  <2>5. QED
    BY <1>3, <2>1, <2>2, <2>3, <2>4 DEF CleanUp
<1>4. ASSUME NEW w \in Workers, Terminate(w)
      PROVE  SectionInv'
  <2>1. ASSUME NEW r \in Requests \cup {ForceId}, CheckTermination(w, r)
        PROVE  SectionInv'
    BY <2>1 DEF CheckTermination
  <2>2. CASE ListJobs(w)
    BY <2>2 DEF ListJobs
  <2>3. CASE \E r \in Requests : StopJob(w, r)
    BY <2>3 DEF StopJob
  <2>4. CASE \E r \in Requests : StopJobFails(w, r)
    BY <2>4 DEF StopJobFails
  <2>5. CASE RecordTermination(w)
    BY <2>5 DEF RecordTermination
  <2>6. QED
    BY <1>4, <2>1, <2>2, <2>3, <2>4, <2>5 DEF Terminate
<1>5. ASSUME NEW w \in Workers, EmitLine(w)
      PROVE  SectionInv'
  BY <1>5 DEF EmitLine
<1>6. ASSUME NEW w \in Workers, Crash(w)
      PROVE  SectionInv'
  BY <1>6 DEF Crash, NoRestart
<1>7. ASSUME NEW w \in Workers, Restart(w)
      PROVE  SectionInv'
  BY <1>7 DEF Restart
<1>8. ASSUME NEW r \in Requests, ProgressThread(r)
      PROVE  SectionInv'
  <2> USE DEF StepThread
  <2>1. CASE PollStatus(r)
    BY <2>1 DEF PollStatus
  <2>2. CASE CollectLines(r)
    BY <2>2 DEF CollectLines
  <2>3. CASE SkipFlush(r)
    BY <2>3 DEF SkipFlush
  <2>4. CASE TruncateProgress(r)
    BY <2>4 DEF TruncateProgress
  <2>5. CASE WriteProgress(r)
    BY <2>5 DEF WriteProgress
  <2>6. CASE WriteProgressFails(r)
    BY <2>6 DEF WriteProgressFails
  <2>7. CASE ExitLoop(r)
    BY <2>7 DEF ExitLoop
  <2>8. CASE DrainQueue(r)
    BY <2>8 DEF DrainQueue
  <2>9. CASE LookForFailed(r)
    BY <2>9 DEF LookForFailed
  <2>10. CASE RecordOutcome(r)
    BY <2>10 DEF RecordOutcome
  <2>11. QED
    BY <1>8, <2>1, <2>2, <2>3, <2>4, <2>5, <2>6, <2>7, <2>8, <2>9, <2>10 DEF ProgressThread
<1>9. ASSUME NEW r \in Requests, JobEnds(r)
      PROVE  SectionInv'
  BY <1>9 DEF JobEnds
<1>10. CASE UNCHANGED vars
  BY <1>10 DEF vars
<1>11. QED
  BY <1>1, <1>2, <1>3, <1>4, <1>5, <1>6, <1>7, <1>8, <1>9, <1>10 DEF Next

\* At most one request is past admission, for every number of workers,
\* requests and terminations, while no worker starts or dies.
THEOREM MutualExclusion ==
  ASSUME NoRestart
  PROVE  Spec => []OneActivePipeline
<1>1. TypeOK /\ SectionInv /\ [Next]_vars => SectionInv'
  BY SectionStep
<1>2. SectionInv => OneActivePipeline
  BY DEF SectionInv, OneActivePipeline
<1>3. QED
  BY <1>1, <1>2, SectionInit, Typing, PTL DEF Spec

-----------------------------------------------------------------------------
(* LogComplete.  It holds with crashes and late workers too: the invariant  *)
(* is about the one worker that owns a request and its progress thread.     *)

\* Worker w is running request r, from the busy check to the release.
Owner(w, r) ==
  /\ req[w] = r
  /\ pc[w] \in ServingPC

\* No line is lost or duplicated on its way from the pipe to the log.
LinesConserved ==
  \A r \in Requests : emitted[r] = logFile[r] + buffer[r] + queue[r]

\* A request that may still be admitted, or is not set up yet, is untouched.
Fresh(r) == thread[r] = "none" /\ ~stop[r] /\ queue[r] = 0 /\ buffer[r] = 0

OneOwner ==
  \A v, w \in Workers, r \in Requests : Owner(v, r) /\ Owner(w, r) => v = w

OwnerPending ==
  \A w \in Workers, r \in Requests : Owner(w, r) => answer[r] \in {"none", "busy"}

FreshUntilSetUp ==
  \A w \in Workers, r \in Requests :
    Owner(w, r) /\ pc[w] \in {"checked", "locked", "entered", "opened"} => Fresh(r)

FreshUntilOwned ==
  \A r \in Requests :
    answer[r] \in {"none", "busy"} /\ (\A w \in Workers : ~Owner(w, r)) => Fresh(r)

Ownership == OneOwner /\ OwnerPending /\ FreshUntilSetUp /\ FreshUntilOwned

\* The progress file outlives the thread's start; only the thread's last
\* step records done; past the loop the thread was told to stop.
ThreadPhase ==
  \A r \in Requests :
    /\ thread[r] # "none" => progressFile[r] # "absent"
    /\ \A w \in Workers : Owner(w, r) /\ pc[w] = "opened" => progressFile[r] # "absent"
    /\ r \in done => thread[r] = "exited"
    /\ thread[r] \in {"drain", "record", "recording", "exited"} => stop[r]

\* stop_event is set by the end of the process or by a failed file, so a
\* thread that drains the queue has all of it.
Drained ==
  \A r \in Requests :
    /\ stop[r] /\ r \notin failed =>
         \A w \in Workers : Owner(w, r) => pc[w] \notin {"prepare", "running"}
    /\ thread[r] \in {"record", "recording", "exited"} => buffer[r] = 0
    /\ thread[r] \in {"record", "recording", "exited"} /\ r \notin failed => queue[r] = 0

\* The answer is decided when the handler is left.
Decided ==
  \A w \in Workers : pc[w] \in {"finally"} \cup CleanupPC => reply[w] # "none"

LogInv == LinesConserved /\ Decided /\ Ownership /\ ThreadPhase /\ Drained

LEMMA LogInit == Init => LogInv
BY ConstantsAssumption DEF Init, LogInv, LinesConserved, Decided, Ownership, OneOwner, OwnerPending,
   FreshUntilSetUp, FreshUntilOwned, Owner, Fresh,
   ThreadPhase, Drained, HandlerPC, CleanupPC, ServingPC

\* A step that leaves the records, the answers and the serving workers alone
\* keeps the invariant.
LEMMA QuietStep ==
  ASSUME LogInv, UNCHANGED <<reply, recordVars, threadVars, answer>>,
         \A v \in Workers : pc[v] \in ServingPC \/ pc'[v] \in ServingPC =>
                              pc'[v] = pc[v] /\ req'[v] = req[v]
  PROVE  LogInv'
<1> USE DEF LogInv, recordVars, threadVars
<1>1. \A v \in Workers, r \in Requests : Owner(v, r)' <=> Owner(v, r)
  BY DEF Owner
<1>2. LinesConserved'
  BY DEF LinesConserved
<1>3. Decided'
  BY DEF Decided, ServingPC, HandlerPC
<1>4. OneOwner' /\ OwnerPending'
  BY <1>1 DEF Ownership, OneOwner, OwnerPending
<1>5. FreshUntilSetUp' /\ FreshUntilOwned'
  <2>1. \A r \in Requests : Fresh(r)' <=> Fresh(r)
    BY DEF Fresh
  <2>2. FreshUntilSetUp'
    BY <1>1, <2>1 DEF Ownership, FreshUntilSetUp, Owner
  <2>3. FreshUntilOwned'
    BY <1>1, <2>1 DEF Ownership, FreshUntilOwned
  <2>4. QED
    BY <2>2, <2>3
<1>6. ThreadPhase'
  BY <1>1 DEF ThreadPhase, Owner
<1>7. Drained'
  BY <1>1 DEF Drained, Owner
<1>8. QED
  BY <1>2, <1>3, <1>4, <1>5, <1>6, <1>7 DEF Ownership

\* The steps of a termination up to its record are such steps.
LEMMA TerminationQuiet ==
  ASSUME TypeOK, LogInv, NEW w \in Workers, NEW r \in Requests \cup {ForceId},
         CheckTermination(w, r) \/ ListJobs(w) \/ StopJob(w, r) \/ StopJobFails(w, r)
  PROVE  LogInv'
<1>1. pc \in [Workers -> WorkerPC] /\ req \in [Workers -> Requests \cup {ForceId, None}]
  BY DEF TypeOK, WorkerTypes
<1>2. pc[w] \notin ServingPC /\ pc'[w] \notin ServingPC
  BY <1>1 DEF CheckTermination, ListJobs, StopJob, StopJobFails, Goto, ServingPC,
              HandlerPC, CleanupPC
<1>3. \A v \in Workers \ {w} : pc'[v] = pc[v] /\ req'[v] = req[v]
  BY <1>1 DEF CheckTermination, ListJobs, StopJob, StopJobFails, Goto
<1>4. UNCHANGED <<reply, recordVars, threadVars, answer>>
  BY DEF CheckTermination, ListJobs, StopJob, StopJobFails
<1>5. QED
  BY <1>2, <1>3, <1>4, QuietStep

LEMMA LogStep ==
  ASSUME TypeOK, LogInv, [Next]_vars
  PROVE  LogInv'
<1> USE ConstantsAssumption
    DEF LogInv, LinesConserved, Decided, Ownership, OneOwner, OwnerPending,
   FreshUntilSetUp, FreshUntilOwned, Owner, Fresh, ThreadPhase, Drained,
        HandlerPC, CleanupPC, ServingPC, TypeOK, WorkerTypes, FileTypes, ThreadTypes, Goto,
        workerVars, lockVars, recordVars, threadVars
<1>1. ASSUME NEW w \in Workers, Admit(w)
      PROVE  LogInv'
  <2>1. CASE \E r \in Requests : CheckBusy(w, r)
    <3>1. LinesConserved'
      BY <2>1 DEF CheckBusy
    <3>2. Decided'
      BY <2>1 DEF CheckBusy
    <3>3. OneOwner'
      BY <2>1 DEF CheckBusy
    <3>4. OwnerPending'
      BY <2>1 DEF CheckBusy
    <3>5. FreshUntilSetUp'
      BY <2>1 DEF CheckBusy
    <3>6. FreshUntilOwned'
      <4>1. PICK r \in Requests : CheckBusy(w, r)
        BY <2>1
      <4>2. CASE statusFile
        BY <4>1, <4>2 DEF CheckBusy
      <4>3. CASE ~statusFile
        <5>1. Owner(w, r)'
          BY <4>1, <4>3 DEF CheckBusy
        <5>2. \A v \in Workers, q \in Requests : Owner(v, q) => v # w
          BY <4>1 DEF CheckBusy
        <5>3. \A v \in Workers, q \in Requests : v # w => (Owner(v, q)' <=> Owner(v, q))
          BY <4>1, <4>3 DEF CheckBusy
        <5>4. ASSUME NEW q \in Requests, answer'[q] \in {"none", "busy"},
                     \A v \in Workers : ~Owner(v, q)'
              PROVE  Fresh(q)'
          <6>1. \A v \in Workers : ~Owner(v, q)
            BY <5>2, <5>3, <5>4
          <6>2. Fresh(q)
            BY <4>1, <4>3, <5>4, <6>1 DEF CheckBusy
          <6>3. QED
            BY <4>1, <6>2 DEF CheckBusy
        <5>5. QED
          BY <5>4
      <4>4. QED
        BY <4>2, <4>3
    <3>7. ThreadPhase'
      BY <2>1 DEF CheckBusy
    <3>8. Drained'
      BY <2>1 DEF CheckBusy
    <3>9. QED
      BY <3>1, <3>2, <3>3, <3>4, <3>5, <3>6, <3>7, <3>8
  <2>2. CASE AcquireLock(w)
    BY <2>2 DEF AcquireLock
  <2>3. CASE LockTimeout(w)
    BY <2>3 DEF LockTimeout
  <2>4. CASE WriteStatusFile(w)
    BY <2>4 DEF WriteStatusFile
  <2>5. QED
    BY <1>1, <2>1, <2>2, <2>3, <2>4 DEF Admit
<1>2. ASSUME NEW w \in Workers, Handle(w)
      PROVE  LogInv'
  <2>1. CASE OpenProgressFile(w)
    BY <2>1 DEF OpenProgressFile
  <2>2. CASE StartProgressThread(w)
    BY <2>2 DEF StartProgressThread
  <2>3. CASE PrepareFails(w)
    BY <2>3 DEF PrepareFails
  <2>4. CASE AcceptUnsupported(w)
    BY <2>4 DEF AcceptUnsupported
  <2>5. CASE LaunchJob(w)
    BY <2>5 DEF LaunchJob
  <2>6. CASE ProcessSucceeds(w)
    BY <2>6 DEF ProcessSucceeds
  <2>7. CASE ProcessFails(w)
    BY <2>7 DEF ProcessFails
  <2>8. CASE SignalStop(w)
    BY <2>8 DEF SignalStop
  <2>9. CASE AnswerError(w)
    BY <2>9 DEF AnswerError
  <2>10. CASE LeaveHandler(w)
    BY <2>10 DEF LeaveHandler
  <2>11. QED
    BY <1>2, <2>1, <2>2, <2>3, <2>4, <2>5, <2>6, <2>7, <2>8, <2>9, <2>10 DEF Handle
<1>3. ASSUME NEW w \in Workers, CleanUp(w)
      PROVE  LogInv'
  <2>1. CASE UnlinkStatusFile(w)
    <3>1. LinesConserved'
      BY <2>1 DEF UnlinkStatusFile
    <3>2. Decided'
      BY <2>1 DEF UnlinkStatusFile
    <3>3. OneOwner'
      BY <2>1 DEF UnlinkStatusFile
    <3>4. OwnerPending'
      BY <2>1 DEF UnlinkStatusFile
    <3>5. FreshUntilSetUp'
      BY <2>1 DEF UnlinkStatusFile
    <3>6. FreshUntilOwned'
      BY <2>1 DEF UnlinkStatusFile
    <3>7. ThreadPhase'
      BY <2>1 DEF UnlinkStatusFile
    <3>8. Drained'
      BY <2>1 DEF UnlinkStatusFile
    <3>9. QED
      BY <3>1, <3>2, <3>3, <3>4, <3>5, <3>6, <3>7, <3>8
  <2>2. CASE UnlinkPipelineLock(w)
    <3>1. LinesConserved'
      BY <2>2 DEF UnlinkPipelineLock
    <3>2. Decided'
      BY <2>2 DEF UnlinkPipelineLock
    <3>3. OneOwner'
      BY <2>2 DEF UnlinkPipelineLock
    <3>4. OwnerPending'
      BY <2>2 DEF UnlinkPipelineLock
    <3>5. FreshUntilSetUp'
      BY <2>2 DEF UnlinkPipelineLock
    <3>6. FreshUntilOwned'
      BY <2>2 DEF UnlinkPipelineLock
    <3>7. ThreadPhase'
      BY <2>2 DEF UnlinkPipelineLock
    <3>8. Drained'
      BY <2>2 DEF UnlinkPipelineLock
    <3>9. QED
      BY <3>1, <3>2, <3>3, <3>4, <3>5, <3>6, <3>7, <3>8
  <2>3. CASE UnlinkLogLock(w)
    <3>1. LinesConserved'
      BY <2>3 DEF UnlinkLogLock
    <3>2. Decided'
      BY <2>3 DEF UnlinkLogLock
    <3>3. OneOwner'
      BY <2>3 DEF UnlinkLogLock
    <3>4. OwnerPending'
      BY <2>3 DEF UnlinkLogLock
    <3>5. FreshUntilSetUp'
      BY <2>3 DEF UnlinkLogLock
    <3>6. FreshUntilOwned'
      BY <2>3 DEF UnlinkLogLock
    <3>7. ThreadPhase'
      BY <2>3 DEF UnlinkLogLock
    <3>8. Drained'
      BY <2>3 DEF UnlinkLogLock
    <3>9. QED
      BY <3>1, <3>2, <3>3, <3>4, <3>5, <3>6, <3>7, <3>8
  <2>4. CASE ReleaseLock(w)
    <3>1. LinesConserved'
      BY <2>4 DEF ReleaseLock
    <3>2. Decided'
      BY <2>4 DEF ReleaseLock
    <3>3. OneOwner'
      BY <2>4 DEF ReleaseLock
    <3>4. OwnerPending'
      BY <2>4 DEF ReleaseLock
    <3>5. FreshUntilSetUp'
      BY <2>4 DEF ReleaseLock
    <3>6. FreshUntilOwned'
      <4>1. ASSUME NEW r \in Requests, r = req[w]
            PROVE  answer'[r] \in {"ok", "error"}
        BY <2>4, <4>1 DEF ReleaseLock
      <4>2. ASSUME NEW r \in Requests, r # req[w]
            PROVE  /\ answer'[r] = answer[r]
                   /\ \A v \in Workers : Owner(v, r)' <=> Owner(v, r)
        BY <2>4, <4>2 DEF ReleaseLock
      <4>3. \A r \in Requests : Fresh(r)' <=> Fresh(r)
        BY <2>4 DEF ReleaseLock
      <4>4. FreshUntilOwned
        OBVIOUS
      <4>5. QED
        BY ONLY <4>1, <4>2, <4>3, <4>4 DEF FreshUntilOwned
    <3>7. ThreadPhase'
      BY <2>4 DEF ReleaseLock
    <3>8. Drained'
      BY <2>4 DEF ReleaseLock
    <3>9. QED
      BY <3>1, <3>2, <3>3, <3>4, <3>5, <3>6, <3>7, <3>8
  <2>5. QED
    BY <1>3, <2>1, <2>2, <2>3, <2>4 DEF CleanUp
<1>4. ASSUME NEW w \in Workers, Terminate(w)
      PROVE  LogInv'
  <2>1. ASSUME NEW r \in Requests \cup {ForceId},
               CheckTermination(w, r) \/ ListJobs(w) \/ StopJob(w, r) \/ StopJobFails(w, r)
        PROVE  LogInv'
    BY ONLY TypeOK, LogInv, <2>1, TerminationQuiet
  <2>5. CASE RecordTermination(w)
    <3>1. LinesConserved'
      BY <2>5 DEF RecordTermination
    <3>2. Decided'
      BY <2>5 DEF RecordTermination
    <3>3. OneOwner'
      BY <2>5 DEF RecordTermination
    <3>4. OwnerPending'
      BY <2>5 DEF RecordTermination
    <3>5. FreshUntilSetUp'
      BY <2>5 DEF RecordTermination
    <3>6. FreshUntilOwned'
      BY <2>5 DEF RecordTermination
    <3>7. ThreadPhase'
      BY <2>5 DEF RecordTermination
    <3>8. Drained'
      BY <2>5 DEF RecordTermination
    <3>9. QED
      BY <3>1, <3>2, <3>3, <3>4, <3>5, <3>6, <3>7, <3>8
  <2>6. QED
    BY ONLY <1>4, <2>1, <2>5 DEF Terminate
<1>5. ASSUME NEW w \in Workers, EmitLine(w)
      PROVE  LogInv'
  BY <1>5 DEF EmitLine
<1>6. ASSUME NEW w \in Workers, Crash(w)
      PROVE  LogInv'
  <2>1. LinesConserved'
    BY <1>6 DEF Crash
  <2>2. Decided'
    BY <1>6 DEF Crash
  <2>3. OneOwner'
    BY <1>6 DEF Crash
  <2>4. OwnerPending'
    BY <1>6 DEF Crash
  <2>5. FreshUntilSetUp'
    BY <1>6 DEF Crash
  <2>6. FreshUntilOwned'
    BY <1>6 DEF Crash
  <2>7. ThreadPhase'
    BY <1>6 DEF Crash
  <2>8. Drained'
    BY <1>6 DEF Crash
  <2>9. QED
    BY <2>1, <2>2, <2>3, <2>4, <2>5, <2>6, <2>7, <2>8
<1>7. ASSUME NEW w \in Workers, Restart(w)
      PROVE  LogInv'
  <2>1. LinesConserved'
    BY <1>7 DEF Restart
  <2>2. Decided'
    BY <1>7 DEF Restart
  <2>3. OneOwner'
    BY <1>7 DEF Restart
  <2>4. OwnerPending'
    BY <1>7 DEF Restart
  <2>5. FreshUntilSetUp'
    BY <1>7 DEF Restart
  <2>6. FreshUntilOwned'
    BY <1>7 DEF Restart
  <2>7. ThreadPhase'
    BY <1>7 DEF Restart
  <2>8. Drained'
    BY <1>7 DEF Restart
  <2>9. QED
    BY <2>1, <2>2, <2>3, <2>4, <2>5, <2>6, <2>7, <2>8
<1>8. ASSUME NEW r \in Requests, ProgressThread(r)
      PROVE  LogInv'
  <2> USE DEF StepThread
  <2>1. CASE PollStatus(r)
    BY <2>1 DEF PollStatus, RequestStatus
  <2>2. CASE CollectLines(r)
    BY <2>2 DEF CollectLines, RequestStatus
  <2>3. CASE SkipFlush(r)
    BY <2>3 DEF SkipFlush
  <2>4. CASE TruncateProgress(r)
    BY <2>4 DEF TruncateProgress
  <2>5. CASE WriteProgress(r)
    BY <2>5 DEF WriteProgress
  <2>6. CASE WriteProgressFails(r)
    BY <2>6 DEF WriteProgressFails
  <2>7. CASE ExitLoop(r)
    BY <2>7 DEF ExitLoop
  <2>8. CASE DrainQueue(r)
    BY <2>8 DEF DrainQueue
  <2>9. CASE LookForFailed(r)
    BY <2>9 DEF LookForFailed
  <2>10. CASE RecordOutcome(r)
    BY <2>10 DEF RecordOutcome
  <2>11. QED
    BY <1>8, <2>1, <2>2, <2>3, <2>4, <2>5, <2>6, <2>7, <2>8, <2>9, <2>10 DEF ProgressThread
<1>9. ASSUME NEW r \in Requests, JobEnds(r)
      PROVE  LogInv'
  BY <1>9 DEF JobEnds
<1>10. CASE UNCHANGED vars
  BY <1>10 DEF vars
<1>11. QED
  BY <1>1, <1>2, <1>3, <1>4, <1>5, <1>6, <1>7, <1>8, <1>9, <1>10 DEF Next

\* Unless it was marked failed, a request's log is complete when its outcome
\* is recorded: for every number of workers, requests, lines and crashes.
THEOREM LogsComplete == Spec => []LogComplete
<1>1. TypeOK /\ LogInv /\ [Next]_vars => LogInv'
  BY LogStep
<1>2. TypeOK /\ LogInv => LogComplete
  BY DEF TypeOK, FileTypes, ThreadTypes, LogInv, LinesConserved, Drained, LogComplete
<1>3. QED
  BY <1>1, <1>2, LogInit, Typing, PTL DEF Spec

-----------------------------------------------------------------------------
(* FailedSticks and the refinement.  Both need what a request's files say   *)
(* while its handler and its progress thread go on: RecordInv.  As mutual   *)
(* exclusion, they are about workers that neither start nor die.            *)

\* Whoever serves, serves a request.
Serves == \A w \in Workers : pc[w] \in ServingPC => req[w] \in Requests

\* A progress thread that is not over has its handler, which waits for it.
Attended ==
  \A r \in Requests :
    /\ thread[r] # "dead"
    /\ thread[r] \notin {"none", "exited"} =>
         \E w \in Workers : Owner(w, r) /\ pc[w] \in {"prepare", "running", "except", "finally"}

\* A handler is left when the outcome is on record.
Recorded ==
  /\ \A w \in Workers, r \in Requests : Owner(w, r) /\ pc[w] \in CleanupPC => thread[r] = "exited"
  /\ \A r \in Requests : thread[r] = "exited" => r \in done \cup failed
  /\ \A r \in Requests : sawFailed[r] => r \in failed

\* No record and no progress file before the handler opens one, and no
\* termination of such a request.
UnseenFiles == \A r \in Requests : progressFile[r] = "absent" => r \notin done \cup failed

UnseenAdmitted ==
  \A w \in Workers, r \in Requests :
    Owner(w, r) /\ pc[w] \in {"checked", "locked", "entered"} => progressFile[r] = "absent"

UnseenWaiting ==
  \A r \in Requests :
    answer[r] \in {"none", "busy"} /\ (\A w \in Workers : ~Owner(w, r)) => progressFile[r] = "absent"

SeenTerminated ==
  \A w \in Workers, r \in Requests :
    req[w] = r /\ pc[w] \in TerminatePC => progressFile[r] # "absent"

Unseen == UnseenFiles /\ UnseenAdmitted /\ UnseenWaiting /\ SeenTerminated

RecordInv == Serves /\ Attended /\ Recorded /\ Unseen

\* A job that runs has its handler in "running".
JobAttended ==
  \A r \in Requests : job[r] = "running" => \E w \in Workers : Owner(w, r) /\ pc[w] = "running"

\* Only a worker that stops jobs has jobs to stop or stopped ones.
Stopping == \A w \in Workers : pc[w] # "t_stop" => hit[w] = {} /\ victims[w] = {}

\* While a thread is between its look and its record, no failed file appears under its lock ...
LookHolds ==
  \A r \in Requests :
    thread[r] = "recording" =>
      /\ logLock[r] \in {"current", "orphan"}
      /\ logLock[r] = "current" /\ r \in failed => sawFailed[r]

\* ... nor after the lock was unlinked, if there are only two workers: the one that
\* unlinked it then finds no job to stop.
OrphanHolds ==
  \A r \in Requests :
    thread[r] = "recording" /\ logLock[r] = "orphan" =>
      IF r \in failed THEN sawFailed[r]
      ELSE \A w \in Workers : pc[w] = "t_stop" /\ req[w] = r => hit[w] = {} /\ victims[w] = {}

\* The service is started with two workers (scripts/onto_nvcf.py, nvcf_main.py).
TwoWorkers == \A u, v, w \in Workers : u = v \/ u = w \/ v = w

LEMMA RecordStep ==
  ASSUME NoRestart, TypeOK, SectionInv, LogInv, RecordInv, [Next]_vars
  PROVE  RecordInv'
<1> USE ConstantsAssumption
    DEF RecordInv, Serves, Attended, Recorded, Unseen, UnseenFiles, UnseenAdmitted, UnseenWaiting, SeenTerminated, Owner, Ownership, OneOwner, ThreadPhase, LogInv,
        HandlerPC, CleanupPC, ServingPC, TerminatePC, StartingPC, TypeOK, WorkerTypes, FileTypes, ThreadTypes, Goto,
        workerVars, lockVars, recordVars, threadVars
<1>1. ASSUME NEW w \in Workers, Admit(w)
      PROVE  RecordInv'
  <2>1. CASE \E r \in Requests : CheckBusy(w, r)
    <3>1. PICK r \in Requests : CheckBusy(w, r)
      BY <2>1
    <3>2. Serves'
      BY <3>1 DEF CheckBusy
    <3>3. Attended'
      BY <3>1 DEF CheckBusy
    <3>4. Recorded'
      BY <3>1 DEF CheckBusy
    <3>5. Unseen'
      <4>1. UnseenFiles'
        BY <3>1 DEF CheckBusy
      <4>2. UnseenAdmitted'
        BY <3>1 DEF CheckBusy
      <4>3. UnseenWaiting'
        <5>1. progressFile' = progressFile
          BY <3>1 DEF CheckBusy
        <5>2. CASE statusFile
          BY <3>1, <5>2 DEF CheckBusy
        <5>3. CASE ~statusFile
          <6>1. Owner(w, r)' /\ \A q \in Requests : ~Owner(w, q)
            BY <3>1, <5>3 DEF CheckBusy
          <6>2. \A v \in Workers, q \in Requests : v # w => (Owner(v, q)' <=> Owner(v, q))
            BY <3>1, <5>3 DEF CheckBusy
          <6>3. answer' = answer
            BY <3>1, <5>3 DEF CheckBusy
          <6>4. UnseenWaiting
            OBVIOUS
          <6>5. QED
            BY ONLY <5>1, <6>1, <6>2, <6>3, <6>4 DEF UnseenWaiting
        <5>4. QED
          BY <5>2, <5>3
      <4>4. SeenTerminated'
        BY <3>1 DEF CheckBusy
      <4>5. QED
        BY <4>1, <4>2, <4>3, <4>4
    <3>6. QED
      BY <3>2, <3>3, <3>4, <3>5
  <2>2. CASE AcquireLock(w)
    BY <2>2 DEF AcquireLock
  <2>3. CASE LockTimeout(w)
    BY <2>3 DEF LockTimeout
  <2>4. CASE WriteStatusFile(w)
    BY <2>4 DEF WriteStatusFile
  <2>5. QED
    BY <1>1, <2>1, <2>2, <2>3, <2>4 DEF Admit
<1>2. ASSUME NEW w \in Workers, Handle(w)
      PROVE  RecordInv'
  <2>1. CASE OpenProgressFile(w)
    BY <2>1 DEF OpenProgressFile
  <2>2. CASE StartProgressThread(w)
    BY <2>2 DEF StartProgressThread
  <2>3. CASE PrepareFails(w)
    BY <2>3 DEF PrepareFails
  <2>4. CASE AcceptUnsupported(w)
    BY <2>4 DEF AcceptUnsupported
  <2>5. CASE LaunchJob(w)
    BY <2>5 DEF LaunchJob
  <2>6. CASE ProcessSucceeds(w)
    BY <2>6 DEF ProcessSucceeds
  <2>7. CASE ProcessFails(w)
    BY <2>7 DEF ProcessFails
  <2>8. CASE SignalStop(w)
    BY <2>8 DEF SignalStop
  <2>9. CASE AnswerError(w)
    BY <2>9 DEF AnswerError
  <2>10. CASE LeaveHandler(w)
    BY <2>10 DEF LeaveHandler
  <2>11. QED
    BY <1>2, <2>1, <2>2, <2>3, <2>4, <2>5, <2>6, <2>7, <2>8, <2>9, <2>10 DEF Handle
<1>3. ASSUME NEW w \in Workers, CleanUp(w)
      PROVE  RecordInv'
  <2>1. CASE UnlinkStatusFile(w)
    <3>1. Serves'
      BY <2>1 DEF UnlinkStatusFile
    <3>2. Attended'
      BY <2>1 DEF UnlinkStatusFile
    <3>3. Recorded'
      BY <2>1 DEF UnlinkStatusFile
    <3>4. Unseen'
      <4>1. UnseenFiles'
        BY <2>1 DEF UnlinkStatusFile
      <4>2. UnseenAdmitted'
        BY <2>1 DEF UnlinkStatusFile
      <4>3. UnseenWaiting'
        BY <2>1 DEF UnlinkStatusFile
      <4>4. SeenTerminated'
        BY <2>1 DEF UnlinkStatusFile
      <4>5. QED
        BY <4>1, <4>2, <4>3, <4>4
    <3>5. QED
      BY <3>1, <3>2, <3>3, <3>4
  <2>2. CASE UnlinkPipelineLock(w)
    <3>1. Serves'
      BY <2>2 DEF UnlinkPipelineLock
    <3>2. Attended'
      BY <2>2 DEF UnlinkPipelineLock
    <3>3. Recorded'
      BY <2>2 DEF UnlinkPipelineLock
    <3>4. Unseen'
      <4>1. UnseenFiles'
        BY <2>2 DEF UnlinkPipelineLock
      <4>2. UnseenAdmitted'
        BY <2>2 DEF UnlinkPipelineLock
      <4>3. UnseenWaiting'
        BY <2>2 DEF UnlinkPipelineLock
      <4>4. SeenTerminated'
        BY <2>2 DEF UnlinkPipelineLock
      <4>5. QED
        BY <4>1, <4>2, <4>3, <4>4
    <3>5. QED
      BY <3>1, <3>2, <3>3, <3>4
  <2>3. CASE UnlinkLogLock(w)
    <3>1. Serves'
      BY <2>3 DEF UnlinkLogLock
    <3>2. Attended'
      BY <2>3 DEF UnlinkLogLock
    <3>3. Recorded'
      BY <2>3 DEF UnlinkLogLock
    <3>4. Unseen'
      <4>1. UnseenFiles'
        BY <2>3 DEF UnlinkLogLock
      <4>2. UnseenAdmitted'
        BY <2>3 DEF UnlinkLogLock
      <4>3. UnseenWaiting'
        BY <2>3 DEF UnlinkLogLock
      <4>4. SeenTerminated'
        BY <2>3 DEF UnlinkLogLock
      <4>5. QED
        BY <4>1, <4>2, <4>3, <4>4
    <3>5. QED
      BY <3>1, <3>2, <3>3, <3>4
  <2>4. CASE ReleaseLock(w)
    <3>1. Serves'
      BY <2>4 DEF ReleaseLock
    <3>2. Attended'
      BY <2>4 DEF ReleaseLock
    <3>3. Recorded'
      BY <2>4 DEF ReleaseLock
    <3>4. Unseen'
      <4>1. UnseenFiles'
        BY <2>4 DEF ReleaseLock
      <4>2. UnseenAdmitted'
        BY <2>4 DEF ReleaseLock
      <4>3. UnseenWaiting'
        <5>1. ASSUME NEW r \in Requests, r = req[w]
              PROVE  answer'[r] \in {"ok", "error"}
          BY <2>4, <5>1 DEF ReleaseLock, Decided
        <5>2. ASSUME NEW r \in Requests, r # req[w]
              PROVE  /\ answer'[r] = answer[r]
                     /\ \A v \in Workers : Owner(v, r)' <=> Owner(v, r)
          BY <2>4, <5>2 DEF ReleaseLock
        <5>3. progressFile' = progressFile
          BY <2>4 DEF ReleaseLock
        <5>4. UnseenWaiting
          OBVIOUS
        <5>5. QED
          BY ONLY <5>1, <5>2, <5>3, <5>4 DEF UnseenWaiting
      <4>4. SeenTerminated'
        BY <2>4 DEF ReleaseLock
      <4>5. QED
        BY <4>1, <4>2, <4>3, <4>4
    <3>5. QED
      BY <3>1, <3>2, <3>3, <3>4
  <2>5. QED
    BY <1>3, <2>1, <2>2, <2>3, <2>4 DEF CleanUp
<1>4. ASSUME NEW w \in Workers, Terminate(w)
      PROVE  RecordInv'
  <2>1. CASE \E r \in Requests \cup {ForceId} : CheckTermination(w, r)
    <3>1. PICK r \in Requests \cup {ForceId} : CheckTermination(w, r)
      BY <2>1
    <3>2. Serves'
      BY <3>1 DEF CheckTermination
    <3>3. Attended'
      BY <3>1 DEF CheckTermination
    <3>4. Recorded'
      BY <3>1 DEF CheckTermination
    <3>5. Unseen'
      <4>1. UnseenFiles'
        BY <3>1 DEF CheckTermination, RequestStatus
      <4>2. UnseenAdmitted'
        BY <3>1 DEF CheckTermination, RequestStatus
      <4>3. UnseenWaiting'
        BY <3>1 DEF CheckTermination, RequestStatus
      <4>4. SeenTerminated'
        BY <3>1 DEF CheckTermination, RequestStatus
      <4>5. QED
        BY <4>1, <4>2, <4>3, <4>4
    <3>6. QED
      BY <3>2, <3>3, <3>4, <3>5
  <2>2. CASE ListJobs(w)
    <3>1. Serves'
      BY <2>2 DEF ListJobs
    <3>2. Attended'
      <4>1. \A v \in Workers, q \in Requests :
              Owner(v, q) => v # w /\ Owner(v, q)' /\ pc'[v] = pc[v]
        BY <2>2 DEF ListJobs
      <4>2. thread' = thread
        BY <2>2 DEF ListJobs
      <4>3. Attended
        OBVIOUS
      <4>4. QED
        BY ONLY <4>1, <4>2, <4>3 DEF Attended
    <3>3. Recorded'
      BY <2>2 DEF ListJobs
    <3>4. Unseen'
      <4>1. UnseenFiles'
        BY <2>2 DEF ListJobs
      <4>2. UnseenAdmitted'
        BY <2>2 DEF ListJobs
      <4>3. UnseenWaiting'
        BY <2>2 DEF ListJobs
      <4>4. SeenTerminated'
        BY <2>2 DEF ListJobs
      <4>5. QED
        BY <4>1, <4>2, <4>3, <4>4
    <3>5. QED
      BY <3>1, <3>2, <3>3, <3>4
  <2>3. CASE \E r \in Requests : StopJob(w, r)
    BY <2>3 DEF StopJob
  <2>4. CASE \E r \in Requests : StopJobFails(w, r)
    BY <2>4 DEF StopJobFails
  <2>5. CASE RecordTermination(w)
    BY <2>5 DEF RecordTermination
  <2>6. QED
    BY <1>4, <2>1, <2>2, <2>3, <2>4, <2>5 DEF Terminate
<1>5. ASSUME NEW w \in Workers, EmitLine(w)
      PROVE  RecordInv'
  BY <1>5 DEF EmitLine
<1>6. ASSUME NEW w \in Workers, Crash(w)
      PROVE  RecordInv'
  BY <1>6 DEF Crash, NoRestart
<1>7. ASSUME NEW w \in Workers, Restart(w)
      PROVE  RecordInv'
  BY <1>7 DEF Restart
<1>8. ASSUME NEW r \in Requests, ProgressThread(r)
      PROVE  RecordInv'
  <2> USE DEF StepThread
  <2>1. CASE PollStatus(r)
    BY <2>1 DEF PollStatus
  <2>2. CASE CollectLines(r)
    BY <2>2 DEF CollectLines
  <2>3. CASE SkipFlush(r)
    BY <2>3 DEF SkipFlush
  <2>4. CASE TruncateProgress(r)
    BY <2>4 DEF TruncateProgress
  <2>5. CASE WriteProgress(r)
    BY <2>5 DEF WriteProgress
  <2>6. CASE WriteProgressFails(r)
    BY <2>6 DEF WriteProgressFails
  <2>7. CASE ExitLoop(r)
    BY <2>7 DEF ExitLoop
  <2>8. CASE DrainQueue(r)
    BY <2>8 DEF DrainQueue
  <2>9. CASE LookForFailed(r)
    BY <2>9 DEF LookForFailed
  <2>10. CASE RecordOutcome(r)
    BY <2>10 DEF RecordOutcome
  <2>11. QED
    BY <1>8, <2>1, <2>2, <2>3, <2>4, <2>5, <2>6, <2>7, <2>8, <2>9, <2>10 DEF ProgressThread
<1>9. ASSUME NEW r \in Requests, JobEnds(r)
      PROVE  RecordInv'
  BY <1>9 DEF JobEnds
<1>10. CASE UNCHANGED vars
  BY <1>10 DEF vars
<1>11. QED
  BY <1>1, <1>2, <1>3, <1>4, <1>5, <1>6, <1>7, <1>8, <1>9, <1>10 DEF Next

LookInv == JobAttended /\ Stopping /\ LookHolds
LEMMA LookStep ==
  ASSUME NoRestart, TypeOK, LogInv, LookInv, [Next]_vars
  PROVE  LookInv'
<1> USE ConstantsAssumption
    DEF LookInv, JobAttended, Stopping, LookHolds, Owner, Ownership, OneOwner, LogInv,
        HandlerPC, CleanupPC, ServingPC, TerminatePC, StartingPC, TypeOK, WorkerTypes, FileTypes, ThreadTypes, Goto,
        workerVars, lockVars, recordVars, threadVars
<1>1. ASSUME NEW w \in Workers, Admit(w)
      PROVE  LookInv'
  <2>1. CASE \E r \in Requests : CheckBusy(w, r)
    BY <2>1 DEF CheckBusy
  <2>2. CASE AcquireLock(w)
    BY <2>2 DEF AcquireLock
  <2>3. CASE LockTimeout(w)
    BY <2>3 DEF LockTimeout
  <2>4. CASE WriteStatusFile(w)
    BY <2>4 DEF WriteStatusFile
  <2>5. QED
    BY <1>1, <2>1, <2>2, <2>3, <2>4 DEF Admit
<1>2. ASSUME NEW w \in Workers, Handle(w)
      PROVE  LookInv'
  <2>1. CASE OpenProgressFile(w)
    BY <2>1 DEF OpenProgressFile
  <2>2. CASE StartProgressThread(w)
    BY <2>2 DEF StartProgressThread
  <2>3. CASE PrepareFails(w)
    BY <2>3 DEF PrepareFails
  <2>4. CASE AcceptUnsupported(w)
    BY <2>4 DEF AcceptUnsupported
  <2>5. CASE LaunchJob(w)
    BY <2>5 DEF LaunchJob
  <2>6. CASE ProcessSucceeds(w)
    BY <2>6 DEF ProcessSucceeds
  <2>7. CASE ProcessFails(w)
    BY <2>7 DEF ProcessFails
  <2>8. CASE SignalStop(w)
    BY <2>8 DEF SignalStop
  <2>9. CASE AnswerError(w)
    BY <2>9 DEF AnswerError
  <2>10. CASE LeaveHandler(w)
    BY <2>10 DEF LeaveHandler
  <2>11. QED
    BY <1>2, <2>1, <2>2, <2>3, <2>4, <2>5, <2>6, <2>7, <2>8, <2>9, <2>10 DEF Handle
<1>3. ASSUME NEW w \in Workers, CleanUp(w)
      PROVE  LookInv'
  <2>1. CASE UnlinkStatusFile(w)
    BY <2>1 DEF UnlinkStatusFile
  <2>2. CASE UnlinkPipelineLock(w)
    BY <2>2 DEF UnlinkPipelineLock
  <2>3. CASE UnlinkLogLock(w)
    BY <2>3 DEF UnlinkLogLock, OrphanAll, Orphaned
  <2>4. CASE ReleaseLock(w)
    BY <2>4 DEF ReleaseLock
  <2>5. QED
    BY <1>3, <2>1, <2>2, <2>3, <2>4 DEF CleanUp
<1>4. ASSUME NEW w \in Workers, Terminate(w)
      PROVE  LookInv'
  <2>1. CASE \E r \in Requests \cup {ForceId} : CheckTermination(w, r)
    BY <2>1 DEF CheckTermination
  <2>2. CASE ListJobs(w)
    BY <2>2 DEF ListJobs
  <2>3. CASE \E r \in Requests : StopJob(w, r)
    BY <2>3 DEF StopJob
  <2>4. CASE \E r \in Requests : StopJobFails(w, r)
    BY <2>4 DEF StopJobFails
  <2>5. CASE RecordTermination(w)
    BY <2>5 DEF RecordTermination, LogLockFree
  <2>6. QED
    BY <1>4, <2>1, <2>2, <2>3, <2>4, <2>5 DEF Terminate
<1>5. ASSUME NEW w \in Workers, EmitLine(w)
      PROVE  LookInv'
  BY <1>5 DEF EmitLine
<1>6. ASSUME NEW w \in Workers, Crash(w)
      PROVE  LookInv'
  BY <1>6 DEF Crash, NoRestart
<1>7. ASSUME NEW w \in Workers, Restart(w)
      PROVE  LookInv'
  BY <1>7 DEF Restart
<1>8. ASSUME NEW r \in Requests, ProgressThread(r)
      PROVE  LookInv'
  <2> USE DEF StepThread
  <2>1. CASE PollStatus(r)
    BY <2>1 DEF PollStatus
  <2>2. CASE CollectLines(r)
    BY <2>2 DEF CollectLines
  <2>3. CASE SkipFlush(r)
    BY <2>3 DEF SkipFlush
  <2>4. CASE TruncateProgress(r)
    BY <2>4 DEF TruncateProgress
  <2>5. CASE WriteProgress(r)
    BY <2>5 DEF WriteProgress
  <2>6. CASE WriteProgressFails(r)
    BY <2>6 DEF WriteProgressFails
  <2>7. CASE ExitLoop(r)
    BY <2>7 DEF ExitLoop
  <2>8. CASE DrainQueue(r)
    BY <2>8 DEF DrainQueue
  <2>9. CASE LookForFailed(r)
    <3>1. JobAttended'
      BY <2>9 DEF LookForFailed
    <3>2. Stopping'
      BY <2>9 DEF LookForFailed
    <3>3. LookHolds'
      <4>1. thread' = [thread EXCEPT ![r] = "recording"] /\ failed' = failed
            /\ logLock' = [logLock EXCEPT ![r] = "current"]
            /\ sawFailed' = [sawFailed EXCEPT ![r] = r \in failed]
        BY <2>9 DEF LookForFailed
      <4>2. \A q \in Requests : q # r => thread'[q] = thread[q] /\ logLock'[q] = logLock[q] /\ sawFailed'[q] = sawFailed[q]
        BY <4>1
      <4>3. sawFailed'[r] = (r \in failed)
        BY <4>1
      <4>4. logLock'[r] = "current"
        BY <4>1
      <4>5. LookHolds
        OBVIOUS
      <4>6. QED
        BY ONLY <4>1, <4>2, <4>3, <4>4, <4>5 DEF LookHolds
    <3>4. QED
      BY <3>1, <3>2, <3>3
  <2>10. CASE RecordOutcome(r)
    BY <2>10 DEF RecordOutcome
  <2>11. QED
    BY <1>8, <2>1, <2>2, <2>3, <2>4, <2>5, <2>6, <2>7, <2>8, <2>9, <2>10 DEF ProgressThread
<1>9. ASSUME NEW r \in Requests, JobEnds(r)
      PROVE  LookInv'
  BY <1>9 DEF JobEnds
<1>10. CASE UNCHANGED vars
  BY <1>10 DEF vars
<1>11. QED
  BY <1>1, <1>2, <1>3, <1>4, <1>5, <1>6, <1>7, <1>8, <1>9, <1>10 DEF Next

LEMMA OrphanStep ==
  ASSUME NoRestart, TwoWorkers, TypeOK, SectionInv, LogInv, RecordInv, LookInv, OrphanHolds, [Next]_vars
  PROVE  OrphanHolds'
<1> USE ConstantsAssumption
    DEF LookInv, OrphanHolds,   Stopping, LookHolds, Owner, Ownership, OneOwner, LogInv,
        HandlerPC, CleanupPC, ServingPC, TerminatePC, StartingPC, TypeOK, WorkerTypes, FileTypes, ThreadTypes, Goto,
        workerVars, lockVars, recordVars, threadVars
<1>1. ASSUME NEW w \in Workers, Admit(w)
      PROVE  OrphanHolds'
  <2>1. CASE \E r \in Requests : CheckBusy(w, r)
    BY <2>1 DEF CheckBusy
  <2>2. CASE AcquireLock(w)
    BY <2>2 DEF AcquireLock
  <2>3. CASE LockTimeout(w)
    BY <2>3 DEF LockTimeout
  <2>4. CASE WriteStatusFile(w)
    BY <2>4 DEF WriteStatusFile
  <2>5. QED
    BY <1>1, <2>1, <2>2, <2>3, <2>4 DEF Admit
<1>2. ASSUME NEW w \in Workers, Handle(w)
      PROVE  OrphanHolds'
  <2>1. CASE OpenProgressFile(w)
    BY <2>1 DEF OpenProgressFile
  <2>2. CASE StartProgressThread(w)
    BY <2>2 DEF StartProgressThread
  <2>3. CASE PrepareFails(w)
    BY <2>3 DEF PrepareFails
  <2>4. CASE AcceptUnsupported(w)
    BY <2>4 DEF AcceptUnsupported
  <2>5. CASE LaunchJob(w)
    BY <2>5 DEF LaunchJob
  <2>6. CASE ProcessSucceeds(w)
    BY <2>6 DEF ProcessSucceeds
  <2>7. CASE ProcessFails(w)
    BY <2>7 DEF ProcessFails
  <2>8. CASE SignalStop(w)
    BY <2>8 DEF SignalStop
  <2>9. CASE AnswerError(w)
    BY <2>9 DEF AnswerError
  <2>10. CASE LeaveHandler(w)
    BY <2>10 DEF LeaveHandler
  <2>11. QED
    BY <1>2, <2>1, <2>2, <2>3, <2>4, <2>5, <2>6, <2>7, <2>8, <2>9, <2>10 DEF Handle
<1>3. ASSUME NEW w \in Workers, CleanUp(w)
      PROVE  OrphanHolds'
  <2>1. CASE UnlinkStatusFile(w)
    BY <2>1 DEF UnlinkStatusFile
  <2>2. CASE UnlinkPipelineLock(w)
    BY <2>2 DEF UnlinkPipelineLock
  <2>3. CASE UnlinkLogLock(w)
    <3>1. pc[w] = "cleanup3" /\ pc' = [pc EXCEPT ![w] = "release"]
      BY <2>3 DEF UnlinkLogLock, SectionInv
    <3>2. UNCHANGED <<thread, failed, sawFailed, req, hit, victims>>
      BY <2>3 DEF UnlinkLogLock
    <3>3. ASSUME NEW r \in Requests, thread[r] = "recording", logLock'[r] = "orphan"
          PROVE  IF r \in failed THEN sawFailed[r]
                 ELSE \A v \in Workers : pc'[v] = "t_stop" /\ req[v] = r => hit[v] = {} /\ victims[v] = {}
      <4>1. CASE logLock[r] = "orphan"
        BY <3>1, <3>3, <4>1
      <4>2. CASE logLock[r] = "current"
        <5>1. r \in failed => sawFailed[r]
          BY <3>3, <4>2
        <5>2. PICK v \in Workers : pc[v] \in {"prepare", "running", "except", "finally"}
          BY <3>3 DEF RecordInv, Attended
        <5>3. \A u \in Workers : u = v \/ u = w
          BY <3>1, <5>2 DEF TwoWorkers
        <5>4. \A u \in Workers : pc'[u] # "t_stop"
          BY <3>1, <5>2, <5>3
        <5>5. QED
          BY <5>1, <5>4
      <4>3. QED
        BY <3>3, <4>1, <4>2
    <3>4. QED
      BY <3>2, <3>3
  <2>4. CASE ReleaseLock(w)
    BY <2>4 DEF ReleaseLock
  <2>5. QED
    BY <1>3, <2>1, <2>2, <2>3, <2>4 DEF CleanUp
<1>4. ASSUME NEW w \in Workers, Terminate(w)
      PROVE  OrphanHolds'
  <2>1. CASE \E r \in Requests \cup {ForceId} : CheckTermination(w, r)
    BY <2>1 DEF CheckTermination
  <2>2. CASE ListJobs(w)
    <3>1. UNCHANGED <<thread, logLock, failed, sawFailed, req, hit>>
      BY <2>2 DEF ListJobs
    <3>2. ASSUME NEW r \in Requests, thread[r] = "recording", r \notin failed
          PROVE  victims'[w] = {}
      <4>1. PICK v \in Workers : Owner(v, r) /\ pc[v] \in {"prepare", "running", "except", "finally"}
        BY <3>2 DEF RecordInv, Attended
      <4>2. pc[v] \notin {"prepare", "running"}
        BY <3>2, <4>1 DEF ThreadPhase, Drained
      <4>3. ASSUME NEW q \in Requests, job[q] = "running"
            PROVE  FALSE
        <5>1. PICK u \in Workers : Owner(u, q) /\ pc[u] = "running"
          BY <4>3 DEF JobAttended
        <5>2. u = v
          BY <4>1, <5>1 DEF SectionInv, InSection
        <5>3. QED
          BY <4>2, <5>1, <5>2
      <4>4. QED
        BY <2>2, <4>3 DEF ListJobs
    <3>3. hit[w] = {}
      BY <2>2 DEF ListJobs
    <3>4. \A v \in Workers : v # w => pc'[v] = pc[v] /\ victims'[v] = victims[v]
      BY <2>2 DEF ListJobs
    <3>5. QED
      BY <3>1, <3>2, <3>3, <3>4
  <2>3. CASE \E r \in Requests : StopJob(w, r)
    BY <2>3 DEF StopJob
  <2>4. CASE \E r \in Requests : StopJobFails(w, r)
    BY <2>4 DEF StopJobFails
  <2>5. CASE RecordTermination(w)
    BY <2>5 DEF RecordTermination, LogLockFree
  <2>6. QED
    BY <1>4, <2>1, <2>2, <2>3, <2>4, <2>5 DEF Terminate
<1>5. ASSUME NEW w \in Workers, EmitLine(w)
      PROVE  OrphanHolds'
  BY <1>5 DEF EmitLine
<1>6. ASSUME NEW w \in Workers, Crash(w)
      PROVE  OrphanHolds'
  BY <1>6 DEF Crash, NoRestart
<1>7. ASSUME NEW w \in Workers, Restart(w)
      PROVE  OrphanHolds'
  BY <1>7 DEF Restart
<1>8. ASSUME NEW r \in Requests, ProgressThread(r)
      PROVE  OrphanHolds'
  <2> USE DEF StepThread
  <2>1. CASE PollStatus(r)
    BY <2>1 DEF PollStatus
  <2>2. CASE CollectLines(r)
    BY <2>2 DEF CollectLines
  <2>3. CASE SkipFlush(r)
    BY <2>3 DEF SkipFlush
  <2>4. CASE TruncateProgress(r)
    BY <2>4 DEF TruncateProgress
  <2>5. CASE WriteProgress(r)
    BY <2>5 DEF WriteProgress
  <2>6. CASE WriteProgressFails(r)
    BY <2>6 DEF WriteProgressFails
  <2>7. CASE ExitLoop(r)
    BY <2>7 DEF ExitLoop
  <2>8. CASE DrainQueue(r)
    BY <2>8 DEF DrainQueue
  <2>9. CASE LookForFailed(r)
    BY <2>9 DEF LookForFailed
  <2>10. CASE RecordOutcome(r)
    BY <2>10 DEF RecordOutcome
  <2>11. QED
    BY <1>8, <2>1, <2>2, <2>3, <2>4, <2>5, <2>6, <2>7, <2>8, <2>9, <2>10 DEF ProgressThread
<1>9. ASSUME NEW r \in Requests, JobEnds(r)
      PROVE  OrphanHolds'
  BY <1>9 DEF JobEnds
<1>10. CASE UNCHANGED vars
  BY <1>10 DEF vars
<1>11. QED
  BY <1>1, <1>2, <1>3, <1>4, <1>5, <1>6, <1>7, <1>8, <1>9, <1>10 DEF Next

LEMMA RecordInit == Init => RecordInv
BY ConstantsAssumption
   DEF Init, RecordInv, Serves, Attended, Recorded, Unseen, UnseenFiles, UnseenAdmitted, UnseenWaiting,
       SeenTerminated, Owner, HandlerPC, CleanupPC, ServingPC, TerminatePC

LEMMA LookInit == Init => LookInv /\ OrphanHolds
BY DEF Init, LookInv, JobAttended, Stopping, LookHolds, OrphanHolds

\* The invariants of a service in which no worker starts or dies.
ServiceInv == TypeOK /\ SectionInv /\ LogInv /\ RecordInv /\ LookInv

LEMMA ServiceInvariant ==
  ASSUME NoRestart
  PROVE  Spec => []ServiceInv
<1>1. Init => SectionInv /\ LogInv /\ RecordInv /\ LookInv
  BY SectionInit, LogInit, RecordInit, LookInit
<1>2. TypeOK /\ (SectionInv /\ LogInv /\ RecordInv /\ LookInv) /\ [Next]_vars
        => (SectionInv /\ LogInv /\ RecordInv /\ LookInv)'
  BY SectionStep, LogStep, RecordStep, LookStep
<1>3. QED
  BY <1>1, <1>2, Typing, PTL DEF Spec, ServiceInv

\* done is touched by a thread that records, and by nobody else.
LEMMA OnlyThreadsRecordDone ==
  ASSUME [Next]_vars, NEW r \in Requests, r \notin done, r \in done'
  PROVE  thread[r] = "recording" /\ ~sawFailed[r]
<1> SUFFICES RecordOutcome(r)
  BY DEF RecordOutcome, StepThread
<1> USE DEF workerVars, lockVars, recordVars, threadVars
<1>1. ASSUME NEW w \in Workers, Admit(w)
      PROVE  FALSE
  BY <1>1 DEF Admit, CheckBusy, AcquireLock, LockTimeout, WriteStatusFile
<1>2. ASSUME NEW w \in Workers, Handle(w)
      PROVE  FALSE
  BY <1>2 DEF Handle, OpenProgressFile, StartProgressThread, PrepareFails, AcceptUnsupported, LaunchJob,
              ProcessSucceeds, ProcessFails, SignalStop, AnswerError, LeaveHandler
<1>3. ASSUME NEW w \in Workers, CleanUp(w)
      PROVE  FALSE
  BY <1>3 DEF CleanUp, UnlinkStatusFile, UnlinkPipelineLock, UnlinkLogLock, ReleaseLock
<1>4. ASSUME NEW w \in Workers, Terminate(w)
      PROVE  FALSE
  BY <1>4 DEF Terminate, CheckTermination, ListJobs, StopJob, StopJobFails, RecordTermination
<1>5. ASSUME NEW w \in Workers, EmitLine(w) \/ Crash(w) \/ Restart(w)
      PROVE  FALSE
  BY <1>5 DEF EmitLine, Crash, Restart
<1>6. ASSUME NEW q \in Requests, ProgressThread(q)
      PROVE  RecordOutcome(r)
  BY <1>6 DEF ProgressThread, PollStatus, CollectLines, SkipFlush, TruncateProgress, WriteProgress,
              WriteProgressFails, ExitLoop, DrainQueue, LookForFailed, RecordOutcome
<1>7. ASSUME NEW q \in Requests, JobEnds(q)
      PROVE  FALSE
  BY <1>7 DEF JobEnds
<1>8. CASE UNCHANGED vars
  BY <1>8 DEF vars
<1>9. QED
  BY <1>1, <1>2, <1>3, <1>4, <1>5, <1>6, <1>7, <1>8 DEF Next

\* With the two workers that the service is started with, a request whose failed file
\* appears first never gets a done file.
THEOREM TerminationSticks ==
  ASSUME NoRestart, TwoWorkers
  PROVE  Spec => FailedSticks
<1>1. Init => OrphanHolds
  BY LookInit
<1>2. ServiceInv /\ OrphanHolds /\ [Next]_vars => OrphanHolds'
  BY OrphanStep DEF ServiceInv
<1>3. ServiceInv /\ OrphanHolds /\ [Next]_vars =>
        [\A r \in Requests : r \in failed /\ r \notin done => r \notin done']_vars
  BY OnlyThreadsRecordDone DEF ServiceInv, LookInv, LookHolds, OrphanHolds
<1>4. QED
  BY <1>1, <1>2, <1>3, ServiceInvariant, PTL DEF Spec, FailedSticks

\* With any number of workers it may, but only when the log lock was unlinked between the
\* thread's look for the failed file and its record.
SticksUnderLock ==
  [][\A r \in Requests :
       r \in failed /\ r \notin done /\ r \in done' => logLock[r] = "orphan"]_vars

THEOREM TerminationSticksUnderLock ==
  ASSUME NoRestart
  PROVE  Spec => SticksUnderLock
<1>1. ServiceInv /\ [Next]_vars =>
        [\A r \in Requests :
           r \in failed /\ r \notin done /\ r \in done' => logLock[r] = "orphan"]_vars
  BY OnlyThreadsRecordDone DEF ServiceInv, LookInv, LookHolds
<1>2. QED
  BY <1>1, ServiceInvariant, PTL DEF Spec, SticksUnderLock

-----------------------------------------------------------------------------
(* The refinement of PipelineSlot.                                          *)

LEMMA HolderIs ==
  ASSUME OneActivePipeline, NEW w \in Workers, InSection(w)
  PROVE  SlotHolder = req[w]
<1>1. InSection(CHOOSE v \in Workers : InSection(v)) /\ (CHOOSE v \in Workers : InSection(v)) \in Workers
  OBVIOUS
<1>2. w = CHOOSE v \in Workers : InSection(v)
  BY <1>1 DEF OneActivePipeline
<1>3. QED
  BY <1>2 DEF SlotHolder

LEMMA HolderWillBe ==
  ASSUME OneActivePipeline', NEW w \in Workers, InSection(w)'
  PROVE  SlotHolder' = req'[w]
<1> DEFINE holder == CHOOSE v \in Workers : InSection(v)
<1>1. holder' \in Workers /\ (\A v \in Workers : v = holder' => InSection(v)')
  OBVIOUS
<1>2. w = holder'
  BY <1>1 DEF OneActivePipeline
<1>3. QED
  BY <1>2 DEF SlotHolder

\* The section, the records and whether there is a progress file stay as they are.
SectionStays ==
  \A w \in Workers : (InSection(w)' <=> InSection(w)) /\ (InSection(w) => req'[w] = req[w])

StatusStays == \A r \in Requests : RequestStatus(r)' = RequestStatus(r)

LEMMA FilesStay ==
  ASSUME UNCHANGED <<done, failed>>,
         \A r \in Requests : progressFile'[r] = "absent" <=> progressFile[r] = "absent"
  PROVE  StatusStays
BY DEF StatusStays, RequestStatus

LEMMA HolderStays ==
  ASSUME OneActivePipeline, OneActivePipeline', SectionStays
  PROVE  SlotHolder' = SlotHolder
<1>1. CASE \E w \in Workers : InSection(w)
  BY <1>1, HolderIs, HolderWillBe DEF SectionStays
<1>2. CASE \A w \in Workers : ~InSection(w)
  BY <1>2 DEF SlotHolder, SectionStays
<1>3. QED
  BY <1>1, <1>2

LEMMA Stutters ==
  ASSUME OneActivePipeline, OneActivePipeline', SectionStays, StatusStays
  PROVE  UNCHANGED Slot!vars
BY HolderStays DEF Slot!vars, StatusStays

\* All but five actions leave the section and the records alone.
LEMMA QuietActions ==
  ASSUME NoRestart, TypeOK, SectionInv, LogInv, RecordInv, [Next]_vars
  PROVE  \/ SectionStays /\ StatusStays
         \/ \E w \in Workers : AcquireLock(w) \/ OpenProgressFile(w) \/ UnlinkPipelineLock(w) \/ RecordTermination(w)
         \/ \E r \in Requests : RecordOutcome(r)
<1> DEFINE Quiet == SectionStays /\ UNCHANGED <<done, failed>>
                      /\ \A r \in Requests : progressFile'[r] = "absent" <=> progressFile[r] = "absent"
           Other == \/ \E w \in Workers : AcquireLock(w) \/ OpenProgressFile(w) \/ UnlinkPipelineLock(w) \/ RecordTermination(w)
                    \/ \E r \in Requests : RecordOutcome(r)
<1> SUFFICES Quiet \/ Other
  BY FilesStay
<1> USE DEF SectionStays, InSection, HandlerPC, SectionInv, StartingPC, TypeOK, WorkerTypes, FileTypes, Goto, workerVars, lockVars, recordVars, threadVars
<1>1. ASSUME NEW w \in Workers, Admit(w)
      PROVE  Quiet \/ Other
  <2>1. CASE \E r \in Requests : CheckBusy(w, r)
    BY <2>1 DEF CheckBusy
  <2>2. CASE LockTimeout(w)
    BY <2>2 DEF LockTimeout
  <2>3. CASE WriteStatusFile(w)
    BY <2>3 DEF WriteStatusFile
  <2>4. QED
    BY <1>1, <2>1, <2>2, <2>3 DEF Admit
<1>2. ASSUME NEW w \in Workers, Handle(w)
      PROVE  Quiet \/ Other
  <2>1. CASE StartProgressThread(w)
    BY <2>1 DEF StartProgressThread, LogInv, ThreadPhase, Owner, ServingPC, RecordInv, Serves
  <2>2. CASE PrepareFails(w)
    BY <2>2 DEF PrepareFails
  <2>3. CASE AcceptUnsupported(w)
    BY <2>3 DEF AcceptUnsupported
  <2>4. CASE LaunchJob(w)
    BY <2>4 DEF LaunchJob
  <2>5. CASE ProcessSucceeds(w)
    BY <2>5 DEF ProcessSucceeds
  <2>6. CASE ProcessFails(w)
    BY <2>6 DEF ProcessFails
  <2>7. CASE SignalStop(w)
    BY <2>7 DEF SignalStop
  <2>8. CASE AnswerError(w)
    BY <2>8 DEF AnswerError
  <2>9. CASE LeaveHandler(w)
    BY <2>9 DEF LeaveHandler
  <2>10. QED
    BY <1>2, <2>1, <2>2, <2>3, <2>4, <2>5, <2>6, <2>7, <2>8, <2>9 DEF Handle
<1>3. ASSUME NEW w \in Workers, CleanUp(w)
      PROVE  Quiet \/ Other
  <2>1. CASE UnlinkStatusFile(w)
    BY <2>1 DEF UnlinkStatusFile
  <2>2. CASE UnlinkLogLock(w)
    BY <2>2 DEF UnlinkLogLock
  <2>3. CASE ReleaseLock(w)
    BY <2>3 DEF ReleaseLock
  <2>4. QED
    BY <1>3, <2>1, <2>2, <2>3 DEF CleanUp
<1>4. ASSUME NEW w \in Workers, Terminate(w)
      PROVE  Quiet \/ Other
  <2>1. CASE \E r \in Requests \cup {ForceId} : CheckTermination(w, r)
    BY <2>1 DEF CheckTermination
  <2>2. CASE ListJobs(w)
    BY <2>2 DEF ListJobs
  <2>3. CASE \E r \in Requests : StopJob(w, r)
    BY <2>3 DEF StopJob
  <2>4. CASE \E r \in Requests : StopJobFails(w, r)
    BY <2>4 DEF StopJobFails
  <2>5. QED
    BY <1>4, <2>1, <2>2, <2>3, <2>4 DEF Terminate
<1>5. ASSUME NEW w \in Workers, EmitLine(w)
      PROVE  Quiet \/ Other
  BY <1>5 DEF EmitLine
<1>6. ASSUME NEW w \in Workers, Crash(w)
      PROVE  Quiet \/ Other
  BY <1>6 DEF Crash, NoRestart
<1>7. ASSUME NEW w \in Workers, Restart(w)
      PROVE  Quiet \/ Other
  BY <1>7 DEF Restart
<1>8. ASSUME NEW r \in Requests, ProgressThread(r)
      PROVE  Quiet \/ Other
  <2> USE DEF StepThread
  <2>1. CASE PollStatus(r)
    BY <2>1 DEF PollStatus
  <2>2. CASE CollectLines(r)
    BY <2>2 DEF CollectLines
  <2>3. CASE SkipFlush(r)
    BY <2>3 DEF SkipFlush
  <2>4. CASE TruncateProgress(r)
    BY <2>4 DEF TruncateProgress, LogInv, ThreadPhase
  <2>5. CASE WriteProgress(r)
    BY <2>5 DEF WriteProgress, LogInv, ThreadPhase
  <2>6. CASE WriteProgressFails(r)
    BY <2>6 DEF WriteProgressFails
  <2>7. CASE ExitLoop(r)
    BY <2>7 DEF ExitLoop
  <2>8. CASE DrainQueue(r)
    BY <2>8 DEF DrainQueue
  <2>9. CASE LookForFailed(r)
    BY <2>9 DEF LookForFailed
  <2>10. QED
    BY <1>8, <2>1, <2>2, <2>3, <2>4, <2>5, <2>6, <2>7, <2>8, <2>9 DEF ProgressThread
<1>9. ASSUME NEW r \in Requests, JobEnds(r)
      PROVE  Quiet \/ Other
  BY <1>9 DEF JobEnds
<1>10. CASE UNCHANGED vars
  BY <1>10 DEF vars
<1>11. QED
  BY <1>1, <1>2, <1>3, <1>4, <1>5, <1>6, <1>7, <1>8, <1>9, <1>10 DEF Next

\* A request whose outcome is on record, and one that has none.
LEMMA Status ==
  ASSUME NEW r \in Requests
  PROVE  /\ RequestStatus(r) = "failed" <=> r \in failed
         /\ r \notin failed /\ r \in done => RequestStatus(r) = "done"
         /\ r \notin failed /\ r \notin done /\ progressFile[r] # "absent" => RequestStatus(r) = "running"
         /\ r \notin failed /\ r \notin done /\ progressFile[r] = "absent" => RequestStatus(r) = "not-found"
BY DEF RequestStatus

LEMMA StatusNext ==
  ASSUME NEW r \in Requests
  PROVE  /\ r \in failed' => RequestStatus(r)' = "failed"
         /\ r \notin failed' /\ r \in done' => RequestStatus(r)' = "done"
         /\ r \notin failed' /\ r \notin done' /\ progressFile'[r] # "absent" => RequestStatus(r)' = "running"
BY DEF RequestStatus

\* One record changes: how each step of PipelineSlot that writes a record looks here.
LEMMA SlotBegins ==
  ASSUME NEW r \in Requests, SlotHolder = r, SlotHolder' = r,
         RequestStatus(r) = "not-found", RequestStatus(r)' = "running",
         \A q \in Requests : q # r => RequestStatus(q)' = RequestStatus(q)
  PROVE  Slot!Begin(r)
BY DEF Slot!Begin

LEMMA SlotCondemns ==
  ASSUME NEW r \in Requests, SlotHolder' = SlotHolder,
         RequestStatus(r) \in {"running", "done"}, RequestStatus(r)' = "failed",
         \A q \in Requests : q # r => RequestStatus(q)' = RequestStatus(q)
  PROVE  Slot!Condemn(r)
BY DEF Slot!Condemn

LEMMA SlotConcludes ==
  ASSUME NEW r \in Requests, SlotHolder = r, SlotHolder' = r,
         RequestStatus(r) = "running", RequestStatus(r)' \in {"done", "failed"},
         \A q \in Requests : q # r => RequestStatus(q)' = RequestStatus(q)
  PROVE  Slot!Conclude(r)
BY DEF Slot!Conclude

LEMMA SlotStep ==
  ASSUME NoRestart, TypeOK, SectionInv, LogInv, RecordInv, [Next]_vars
  PROVE  [Slot!Next]_(Slot!vars)
<1>1. SectionInv' /\ OneActivePipeline /\ OneActivePipeline'
  BY SectionStep DEF SectionInv, OneActivePipeline
<1>2. CASE SectionStays /\ StatusStays
  BY <1>1, <1>2, Stutters
<1> USE DEF InSection, HandlerPC, SectionInv, StartingPC, TypeOK, WorkerTypes, FileTypes, Goto, workerVars, lockVars,
        recordVars, threadVars
<1>3. ASSUME NEW w \in Workers, AcquireLock(w)
      PROVE  [Slot!Next]_(Slot!vars)
  <2>1. req[w] \in Requests /\ req' = req
    BY <1>3 DEF AcquireLock, RecordInv, Serves, ServingPC
  <2>2. SlotHolder = None
    BY <1>3 DEF AcquireLock, SlotHolder
  <2>3. SlotHolder' = req[w]
    <3>1. InSection(w)'
      BY <1>3 DEF AcquireLock
    <3>2. QED
      BY <1>1, <2>1, <3>1, HolderWillBe
  <2>4. StatusStays
    BY <1>3, FilesStay DEF AcquireLock
  <2>5. Slot!Admit(req[w])
    BY <2>2, <2>3, <2>4 DEF Slot!Admit, StatusStays
  <2>6. QED
    BY <2>1, <2>5 DEF Slot!Next
<1>4. ASSUME NEW w \in Workers, OpenProgressFile(w)
      PROVE  [Slot!Next]_(Slot!vars)
  <2>1. PICK r \in Requests : r = req[w]
    BY <1>4 DEF OpenProgressFile, RecordInv, Serves, ServingPC
  <2>2. SectionStays
    BY <1>4 DEF OpenProgressFile, SectionStays
  <2>3. SlotHolder = r /\ SlotHolder' = r
    <3>1. InSection(w)
      BY <1>4 DEF OpenProgressFile
    <3>2. QED
      BY <1>1, <2>1, <2>2, <3>1, HolderIs, HolderStays
  <2>4. progressFile[r] = "absent" /\ r \notin done /\ r \notin failed
    BY <1>4, <2>1 DEF OpenProgressFile, RecordInv, Unseen, UnseenAdmitted, UnseenFiles, Owner, ServingPC
  <2>5. RequestStatus(r) = "not-found"
    BY <2>4, Status
  <2>6. progressFile'[r] # "absent" /\ r \notin done' /\ r \notin failed'
    BY <1>4, <2>1, <2>4 DEF OpenProgressFile
  <2>7. RequestStatus(r)' = "running"
    BY <2>6, StatusNext
  <2>8. \A q \in Requests : q # r => RequestStatus(q)' = RequestStatus(q)
    BY <1>4, <2>1 DEF OpenProgressFile, RequestStatus
  <2>9. Slot!Begin(r)
    BY ONLY <2>3, <2>5, <2>7, <2>8, SlotBegins
  <2>10. QED
    BY <2>9 DEF Slot!Next
<1>5. ASSUME NEW w \in Workers, UnlinkPipelineLock(w)
      PROVE  [Slot!Next]_(Slot!vars)
  <2>1. pc[w] = "cleanup2" /\ pc' = [pc EXCEPT ![w] = "cleanup3"]
    BY <1>5 DEF UnlinkPipelineLock
  <2>2. req[w] \in Requests
    BY <2>1 DEF RecordInv, Serves, ServingPC, CleanupPC
  <2>3. SlotHolder = req[w]
    BY <1>1, <2>1, HolderIs
  <2>4. SlotHolder' = None
    BY <2>1 DEF SlotHolder
  <2>5. StatusStays
    BY <1>5, FilesStay DEF UnlinkPipelineLock
  <2>6. RequestStatus(req[w]) \in {"done", "failed"}
    <3>1. req[w] \in done \cup failed
      BY <2>1, <2>2 DEF RecordInv, Recorded, Owner, ServingPC, CleanupPC
    <3>2. QED
      BY <2>2, <3>1, Status
  <2>7. Slot!Leave(req[w])
    BY <2>2, <2>3, <2>4, <2>5, <2>6 DEF Slot!Leave, StatusStays
  <2>8. QED
    BY <2>2, <2>7 DEF Slot!Next
<1>6. ASSUME NEW w \in Workers, RecordTermination(w)
      PROVE  [Slot!Next]_(Slot!vars)
  <2>1. SectionStays
    BY <1>6 DEF RecordTermination, SectionStays
  <2>2. SlotHolder' = SlotHolder
    BY <1>1, <2>1, HolderStays
  <2>3. CASE failed' = failed \/ req[w] \notin Requests \/ req[w] \in failed
    <3>1. StatusStays
      BY <1>6, <2>3 DEF RecordTermination, StatusStays, RequestStatus
    <3>2. QED
      BY <1>1, <2>1, <3>1, Stutters
  <2>4. CASE failed' # failed /\ req[w] \in Requests /\ req[w] \notin failed
    <3>1. PICK r \in Requests : r = req[w]
      BY <2>4
    <3>2. r \in failed' /\ done' = done /\ progressFile' = progressFile
            /\ \A q \in Requests : q # r => (q \in failed' <=> q \in failed)
      BY <1>6, <2>4, <3>1 DEF RecordTermination
    <3>3. progressFile[r] # "absent" /\ r \notin failed
      BY <1>6, <2>4, <3>1 DEF RecordTermination, RecordInv, Unseen, SeenTerminated, TerminatePC
    <3>4. RequestStatus(r) \in {"running", "done"}
      BY <3>3, Status
    <3>5. RequestStatus(r)' = "failed"
      BY <3>2, StatusNext
    <3>6. \A q \in Requests : q # r => RequestStatus(q)' = RequestStatus(q)
      BY <3>2 DEF RequestStatus
    <3>7. Slot!Condemn(r)
      BY ONLY <2>2, <3>4, <3>5, <3>6, SlotCondemns
    <3>8. QED
      BY <3>7 DEF Slot!Next
  <2>5. QED
    BY <2>3, <2>4
<1>7. ASSUME NEW r \in Requests, RecordOutcome(r)
      PROVE  [Slot!Next]_(Slot!vars)
  <2>1. /\ thread[r] = "recording" /\ UNCHANGED <<pc, req, progressFile>>
        /\ done' = IF ~sawFailed[r] /\ ipc[r] THEN done \cup {r} ELSE done
        /\ failed' = IF ~sawFailed[r] /\ ~ipc[r] THEN failed \cup {r} ELSE failed
    BY <1>7 DEF RecordOutcome, StepThread
  <2>2. SectionStays
    BY <2>1 DEF SectionStays
  <2>3. SlotHolder' = SlotHolder
    BY <1>1, <2>2, HolderStays
  <2>4. CASE r \in failed
    <3>1. StatusStays
      BY <2>1, <2>4 DEF StatusStays, RequestStatus
    <3>2. QED
      BY <1>1, <2>2, <3>1, Stutters
  <2>5. CASE r \notin failed
    <3>1. SlotHolder = r
      <4>1. PICK w \in Workers : Owner(w, r) /\ pc[w] \in {"prepare", "running", "except", "finally"}
        BY <2>1 DEF RecordInv, Attended
      <4>2. QED
        BY <1>1, <4>1, HolderIs DEF Owner
    <3>2. r \notin done /\ progressFile[r] # "absent" /\ ~sawFailed[r]
      BY <2>1, <2>5 DEF LogInv, ThreadPhase, RecordInv, Recorded
    <3>3. RequestStatus(r) = "running"
      BY <2>5, <3>2, Status
    <3>4. (r \in done' /\ r \notin failed') \/ r \in failed'
      BY <2>1, <2>5, <3>2
    <3>5. RequestStatus(r)' \in {"done", "failed"}
      BY <3>4, StatusNext
    <3>6. \A q \in Requests : q # r => RequestStatus(q)' = RequestStatus(q)
      BY <2>1 DEF RequestStatus
    <3>7. Slot!Conclude(r)
      BY ONLY <2>3, <3>1, <3>3, <3>5, <3>6, SlotConcludes
    <3>8. QED
      BY <3>7 DEF Slot!Next
  <2>6. QED
    BY <2>4, <2>5
<1>8. QED
  BY <1>2, <1>3, <1>4, <1>5, <1>6, <1>7, QuietActions

\* While no worker starts or dies the service implements PipelineSlot.
THEOREM ServiceImplementsSlot ==
  ASSUME NoRestart
  PROVE  Spec => ImplementsSlot
<1>1. Init => Slot!Init
  BY DEF Init, Slot!Init, SlotHolder, InSection, HandlerPC, RequestStatus, NoRestart
<1>2. ServiceInv /\ [Next]_vars => [Slot!Next]_(Slot!vars)
  BY SlotStep DEF ServiceInv
<1>3. QED
  BY <1>1, <1>2, ServiceInvariant, PTL DEF Spec, ImplementsSlot, Slot!Spec
=============================================================================
