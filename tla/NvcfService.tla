----------------------------- MODULE NvcfService -----------------------------
(***************************************************************************)
(* The NVCF front end, cosmos_curator/core/cf/nvcf_main.py: several        *)
(* uvicorn worker processes that share the files of one temp directory,    *)
(* admit one pipeline at a time, run it as a Ray job, and record how it    *)
(* ended.  Each admitted request has a progress thread of its own.         *)
(*                                                                         *)
(* A lock file that is unlinked while it is held leaves its holder with an *)
(* "orphan" lock: flock is per inode, so whoever opens the path next locks *)
(* another file.                                                           *)
(***************************************************************************)
EXTENDS Naturals, FiniteSets

CONSTANTS Workers,     \* uvicorn worker processes
          Requests,    \* ids of the pipeline requests, each run at most once
          ForceId,     \* _FORCE_TERMINATE_REQUEST_ID
          None,        \* no request
          Late,        \* workers still starting when the first request arrives
          MaxRestarts, \* bound on worker crashes
          MaxLines     \* bound on the output lines of one pipeline

ASSUME ConstantsAssumption ==
  /\ ForceId \notin Requests
  /\ None \notin Requests \cup {ForceId}
  /\ Late \subseteq Workers
  /\ MaxRestarts \in Nat
  /\ MaxLines \in Nat

VARIABLES
  pc,           \* what each worker is doing
  req,          \* the request it runs, or the one it was asked to terminate
  reply,        \* the answer it will send once the lock files are gone
  victims,      \* jobs a termination still has to stop
  hit,          \* jobs a termination stopped and deleted
  answer,       \* the answer each request got
  statusFile,   \* does pipeline_status exist?
  lock,         \* each worker's hold on pipeline.lock
  logLock,      \* each progress thread's hold on pipeline_status.lock
  progressFile, \* progress_<id>.json: absent, torn (truncated) or ok
  logFile,      \* lines in logs_<id>.txt
  done,         \* ids with a done_<id>.txt
  failed,       \* ids with a failed_<id>.txt
  ipc,          \* ipc_status: "assume success at start"
  stop,         \* stop_event
  thread,       \* progress thread of each request
  sawFailed,    \* what the thread found when it looked for failed_<id>.txt
  queue,        \* lines in log_queue
  buffer,       \* lines the thread took and has not written
  emitted,      \* lines the pipeline printed while the worker listened
  job,          \* Ray's state of the request's job
  restarts      \* crashes so far

workerVars == <<pc, req, reply, victims, hit>>
lockVars   == <<statusFile, lock, logLock>>
recordVars == <<progressFile, logFile, done, failed>>
threadVars == <<ipc, stop, thread, sawFailed, queue, buffer, emitted>>
vars == <<workerVars, lockVars, recordVars, threadVars, answer, job, restarts>>

\* A file lock is free, held on the file at the path, or held on a file
\* that was unlinked since.
Holds == {"none", "current", "orphan"}
Orphaned(hold) == IF hold = "current" THEN "orphan" ELSE hold
OrphanAll(holds) == [x \in DOMAIN holds |-> Orphaned(holds[x])]

LogLockFree == \A r \in Requests : logLock[r] # "current"

\* _get_request_status, in its order of precedence
RequestStatus(r) ==
  CASE r \in failed -> "failed"
    [] r \in done /\ r \notin failed -> "done"
    [] r \notin done \cup failed /\ progressFile[r] # "absent" -> "running"
    [] OTHER -> "not-found"

StartingPC == {"boot1", "boot2", "boot3"}
HandlerPC  == {"entered", "opened", "prepare", "running", "except", "finally"}
CleanupPC  == {"cleanup1", "cleanup2", "cleanup3", "release"}
ServingPC  == {"checked", "locked"} \cup HandlerPC \cup CleanupPC
TerminatePC == {"t_list", "t_stop"}
WorkerPC == StartingPC \cup HandlerPC \cup CleanupPC \cup TerminatePC
              \cup {"idle", "checked", "locked", "down"}
ThreadPC == {"none", "loop", "collect", "flush", "writing", "drain",
             "record", "recording", "exited", "dead"}

Init ==
  /\ pc = [w \in Workers |-> IF w \in Late THEN "boot1" ELSE "idle"]
  /\ req = [w \in Workers |-> None]
  /\ reply = [w \in Workers |-> "none"]
  /\ victims = [w \in Workers |-> {}]
  /\ hit = [w \in Workers |-> {}]
  /\ answer = [r \in Requests |-> "none"]
  /\ statusFile = FALSE
  /\ lock = [w \in Workers |-> "none"]
  /\ logLock = [r \in Requests |-> "none"]
  /\ progressFile = [r \in Requests |-> "absent"]
  /\ logFile = [r \in Requests |-> 0]
  /\ done = {}
  /\ failed = {}
  /\ ipc = [r \in Requests |-> FALSE]
  /\ stop = [r \in Requests |-> FALSE]
  /\ thread = [r \in Requests |-> "none"]
  /\ sawFailed = [r \in Requests |-> FALSE]
  /\ queue = [r \in Requests |-> 0]
  /\ buffer = [r \in Requests |-> 0]
  /\ emitted = [r \in Requests |-> 0]
  /\ job = [r \in Requests |-> "none"]
  /\ restarts = 0

Goto(w, label) == pc' = [pc EXCEPT ![w] = label]

-----------------------------------------------------------------------------
(* PipelineLockMiddleware.dispatch: admission.                             *)

\* A request that found no status file, now about to try the lock.
CheckBusy(w, r) ==
  /\ pc[w] = "idle"
  /\ answer[r] \in {"none", "busy"}
  /\ \A v \in Workers : req[v] # r
  /\ IF statusFile
     THEN /\ answer' = [answer EXCEPT ![r] = "busy"]
          /\ UNCHANGED <<pc, req>>
     ELSE /\ req' = [req EXCEPT ![w] = r]
          /\ Goto(w, "checked")
          /\ UNCHANGED answer
  /\ UNCHANGED <<reply, victims, hit, lockVars, recordVars, threadVars, job, restarts>>

\* Mutant: the lock is not looked at.
AcquireLockUnchecked(w) ==
  /\ pc[w] = "checked"
  /\ lock' = [lock EXCEPT ![w] = "current"]
  /\ Goto(w, "locked")
  /\ UNCHANGED <<req, reply, victims, hit, statusFile, logLock, recordVars,
                 threadVars, answer, job, restarts>>

AcquireLock(w) ==
  /\ pc[w] = "checked"
  /\ \A v \in Workers : lock[v] # "current"
  /\ lock' = [lock EXCEPT ![w] = "current"]
  /\ Goto(w, "locked")
  /\ UNCHANGED <<req, reply, victims, hit, statusFile, logLock, recordVars,
                 threadVars, answer, job, restarts>>

\* filelock.Timeout after one second
LockTimeout(w) ==
  /\ pc[w] = "checked"
  /\ \E v \in Workers : lock[v] = "current"
  /\ answer' = [answer EXCEPT ![req[w]] = "busy"]
  /\ req' = [req EXCEPT ![w] = None]
  /\ Goto(w, "idle")
  /\ UNCHANGED <<reply, victims, hit, lockVars, recordVars, threadVars, job, restarts>>

WriteStatusFile(w) ==
  /\ pc[w] = "locked"
  /\ statusFile' = TRUE
  /\ Goto(w, "entered")
  /\ UNCHANGED <<req, reply, victims, hit, lock, logLock, recordVars,
                 threadVars, answer, job, restarts>>

-----------------------------------------------------------------------------
(* curate_video: the handler behind the lock.                              *)

\* _setup_request opens the progress file without taking the log lock.
OpenProgressFile(w) ==
  /\ pc[w] = "entered"
  /\ ipc' = [ipc EXCEPT ![req[w]] = TRUE]
  /\ progressFile' = [progressFile EXCEPT ![req[w]] = "torn"]
  /\ Goto(w, "opened")
  /\ UNCHANGED <<req, reply, victims, hit, lockVars, logFile, done, failed, stop,
                 thread, sawFailed, queue, buffer, emitted, answer, job, restarts>>

StartProgressThread(w) ==
  /\ pc[w] = "opened"
  /\ progressFile' = [progressFile EXCEPT ![req[w]] = "ok"]
  /\ thread' = [thread EXCEPT ![req[w]] = "loop"]
  /\ Goto(w, "prepare")
  /\ UNCHANGED <<req, reply, victims, hit, lockVars, logFile, done, failed, ipc,
                 stop, sawFailed, queue, buffer, emitted, answer, job, restarts>>

\* A bad body, bad arguments, an unknown type, a failed download.
PrepareFails(w) ==
  /\ pc[w] = "prepare"
  /\ Goto(w, "except")
  /\ UNCHANGED <<req, reply, victims, hit, lockVars, recordVars, threadVars,
                 answer, job, restarts>>

\* image-caption, image-embed, av-split: accepted and not run
AcceptUnsupported(w) ==
  /\ pc[w] = "prepare"
  /\ reply' = [reply EXCEPT ![w] = "ok"]
  /\ Goto(w, "finally")
  /\ UNCHANGED <<req, victims, hit, lockVars, recordVars, threadVars,
                 answer, job, restarts>>

\* execute_pipeline: `ray job submit` creates the job
LaunchJob(w) ==
  /\ pc[w] = "prepare"
  /\ job' = [job EXCEPT ![req[w]] = "running"]
  /\ Goto(w, "running")
  /\ UNCHANGED <<req, reply, victims, hit, lockVars, recordVars, threadVars,
                 answer, restarts>>

\* _do_run_process puts a line of the job's output on the queue.
EmitLine(w) ==
  /\ pc[w] = "running"
  /\ job[req[w]] = "running"
  /\ emitted[req[w]] < MaxLines
  /\ emitted' = [emitted EXCEPT ![req[w]] = @ + 1]
  /\ queue' = [queue EXCEPT ![req[w]] = @ + 1]
  /\ UNCHANGED <<workerVars, lockVars, recordVars, ipc, stop, thread, sawFailed,
                 buffer, answer, job, restarts>>

\* The submit client ended with 0.  It does so for a stopped job too.
ProcessSucceeds(w) ==
  /\ pc[w] = "running"
  /\ job[req[w]] \in {"succeeded", "stopped"}
  /\ stop' = [stop EXCEPT ![req[w]] = TRUE]
  /\ reply' = [reply EXCEPT ![w] = "ok"]
  /\ Goto(w, "finally")
  /\ UNCHANGED <<req, victims, hit, lockVars, recordVars, ipc, thread, sawFailed,
                 queue, buffer, emitted, answer, job, restarts>>

\* The submit client ended with another code: ipc_status is cleared in the
\* child before execute_pipeline's finally sets stop_event.
ProcessFails(w) ==
  /\ pc[w] = "running"
  /\ job[req[w]] \in {"failed", "stopped"}
  /\ ipc' = [ipc EXCEPT ![req[w]] = FALSE]
  /\ stop' = [stop EXCEPT ![req[w]] = TRUE]
  /\ Goto(w, "except")
  /\ UNCHANGED <<req, reply, victims, hit, lockVars, recordVars, thread, sawFailed,
                 queue, buffer, emitted, answer, job, restarts>>

\* Mutant: only the except clause sets the event.
SignalStopOnError(w) ==
  /\ pc[w] = "except"
  /\ ~stop[req[w]]
  /\ stop' = [stop EXCEPT ![req[w]] = TRUE]
  /\ UNCHANGED <<workerVars, lockVars, recordVars, ipc, thread, sawFailed, queue,
                 buffer, emitted, answer, job, restarts>>

\* stop_event.set() of the except and the finally clause, before the join
SignalStop(w) ==
  /\ pc[w] \in {"except", "finally"}
  /\ ~stop[req[w]]
  /\ stop' = [stop EXCEPT ![req[w]] = TRUE]
  /\ UNCHANGED <<workerVars, lockVars, recordVars, ipc, thread, sawFailed, queue,
                 buffer, emitted, answer, job, restarts>>

\* The except clause joined the thread and read the log: 500.
AnswerError(w) ==
  /\ pc[w] = "except"
  /\ thread[req[w]] = "exited"
  /\ LogLockFree
  /\ reply' = [reply EXCEPT ![w] = "error"]
  /\ Goto(w, "finally")
  /\ UNCHANGED <<req, victims, hit, lockVars, recordVars, threadVars, answer,
                 job, restarts>>

\* Mutant: the finally clause does not join.
LeaveHandlerEarly(w) ==
  /\ pc[w] = "finally"
  /\ Goto(w, "cleanup1")
  /\ UNCHANGED <<req, reply, victims, hit, lockVars, recordVars, threadVars,
                 answer, job, restarts>>

\* The finally clause joined the thread; call_next returns.
LeaveHandler(w) ==
  /\ pc[w] = "finally"
  /\ thread[req[w]] = "exited"
  /\ Goto(w, "cleanup1")
  /\ UNCHANGED <<req, reply, victims, hit, lockVars, recordVars, threadVars,
                 answer, job, restarts>>

-----------------------------------------------------------------------------
(* _cleanup_pipeline_lock_files: in dispatch's finally, with the lock held, *)
(* and at the start of every worker.                                        *)

UnlinkStatusFile(w) ==
  /\ pc[w] \in {"cleanup1", "boot1"}
  /\ statusFile' = FALSE
  /\ Goto(w, IF pc[w] = "boot1" THEN "boot2" ELSE "cleanup2")
  /\ UNCHANGED <<req, reply, victims, hit, lock, logLock, recordVars, threadVars,
                 answer, job, restarts>>

UnlinkPipelineLock(w) ==
  /\ pc[w] \in {"cleanup2", "boot2"}
  /\ lock' = OrphanAll(lock)
  /\ Goto(w, IF pc[w] = "boot2" THEN "boot3" ELSE "cleanup3")
  /\ UNCHANGED <<req, reply, victims, hit, statusFile, logLock, recordVars,
                 threadVars, answer, job, restarts>>

UnlinkLogLock(w) ==
  /\ pc[w] \in {"cleanup3", "boot3"}
  /\ logLock' = OrphanAll(logLock)
  /\ Goto(w, IF pc[w] = "boot3" THEN "idle" ELSE "release")
  /\ UNCHANGED <<req, reply, victims, hit, statusFile, lock, recordVars,
                 threadVars, answer, job, restarts>>

ReleaseLock(w) ==
  /\ pc[w] = "release"
  /\ lock' = [lock EXCEPT ![w] = "none"]
  /\ answer' = [answer EXCEPT ![req[w]] = reply[w]]
  /\ req' = [req EXCEPT ![w] = None]
  /\ reply' = [reply EXCEPT ![w] = "none"]
  /\ Goto(w, "idle")
  /\ UNCHANGED <<victims, hit, statusFile, logLock, recordVars, threadVars,
                 job, restarts>>

-----------------------------------------------------------------------------
(* _terminate_last_job, run by an idle worker for the id of a request.     *)

CheckTermination(w, r) ==
  /\ pc[w] = "idle"
  /\ r # ForceId => LogLockFree /\ RequestStatus(r) = "running"
  /\ req' = [req EXCEPT ![w] = r]
  /\ Goto(w, "t_list")
  /\ UNCHANGED <<reply, victims, hit, lockVars, recordVars, threadVars, answer,
                 job, restarts>>

\* _list_all_jobs: every job of the cluster, whichever request it is for
ListJobs(w) ==
  /\ pc[w] = "t_list"
  /\ victims' = [victims EXCEPT ![w] = {r \in Requests : job[r] = "running"}]
  /\ Goto(w, "t_stop")
  /\ UNCHANGED <<req, reply, hit, lockVars, recordVars, threadVars, answer, job,
                 restarts>>

\* _stop_ray_job, then the delete: a job that has ended by itself meanwhile
\* is not RUNNING either, and counts as stopped.
StopJob(w, r) ==
  /\ pc[w] = "t_stop"
  /\ r \in victims[w]
  /\ victims' = [victims EXCEPT ![w] = @ \ {r}]
  /\ hit' = [hit EXCEPT ![w] = @ \cup {r}]
  /\ job' = [job EXCEPT ![r] = IF @ = "running" THEN "stopped" ELSE @]
  /\ UNCHANGED <<pc, req, reply, lockVars, recordVars, threadVars, answer, restarts>>

\* The stop request was refused, or the job did not stop in five tries.
StopJobFails(w, r) ==
  /\ pc[w] = "t_stop"
  /\ r \in victims[w]
  /\ victims' = [victims EXCEPT ![w] = @ \ {r}]
  /\ UNCHANGED <<pc, req, reply, hit, lockVars, recordVars, threadVars, answer,
                 job, restarts>>

RecordTermination(w) ==
  /\ pc[w] = "t_stop"
  /\ victims[w] = {}
  /\ hit[w] # {} => LogLockFree
  /\ failed' = IF hit[w] # {} THEN failed \cup {req[w]} ELSE failed
  /\ hit' = [hit EXCEPT ![w] = {}]
  /\ req' = [req EXCEPT ![w] = None]
  /\ Goto(w, "idle")
  /\ UNCHANGED <<reply, victims, lockVars, progressFile, logFile, done, threadVars,
                 answer, job, restarts>>

-----------------------------------------------------------------------------
(* update_progress: the progress thread of request r.                      *)

StepThread(r, from, to) ==
  /\ thread[r] = from
  /\ thread' = [thread EXCEPT ![r] = to]

\* the while condition and the status check at the head of the loop
PollStatus(r) ==
  /\ ~stop[r]
  /\ LogLockFree
  /\ StepThread(r, "loop", "collect")
  /\ stop' = [stop EXCEPT ![r] = RequestStatus(r) # "running"]
  /\ UNCHANGED <<workerVars, lockVars, recordVars, ipc, sawFailed, queue, buffer,
                 emitted, answer, job, restarts>>

\* The inner loop takes lines until the queue is empty or the status changed.
CollectLines(r) ==
  /\ stop[r] \/ LogLockFree
  /\ StepThread(r, "collect", "flush")
  /\ LET stopped == stop[r] \/ RequestStatus(r) # "running"
     IN \E taken \in 0 .. queue[r] :
          /\ taken = queue[r] \/ stopped
          /\ stop[r] => taken = 0
          /\ stop' = [stop EXCEPT ![r] = stopped]
          /\ queue' = [queue EXCEPT ![r] = @ - taken]
          /\ buffer' = [buffer EXCEPT ![r] = @ + taken]
  /\ UNCHANGED <<workerVars, lockVars, recordVars, ipc, sawFailed, emitted, answer,
                 job, restarts>>

\* less than five seconds since the last update
SkipFlush(r) ==
  /\ ~stop[r]
  /\ StepThread(r, "flush", "loop")
  /\ UNCHANGED <<workerVars, lockVars, recordVars, ipc, stop, sawFailed, queue,
                 buffer, emitted, answer, job, restarts>>

\* _write_progress_and_log_files opens the progress file for writing ...
TruncateProgress(r) ==
  /\ LogLockFree
  /\ StepThread(r, "flush", "writing")
  /\ logLock' = [logLock EXCEPT ![r] = "current"]
  /\ progressFile' = [progressFile EXCEPT ![r] = "torn"]
  /\ UNCHANGED <<workerVars, statusFile, lock, logFile, done, failed, ipc, stop,
                 sawFailed, queue, buffer, emitted, answer, job, restarts>>

\* ... then asks the metrics port, and writes both files ...
WriteProgress(r) ==
  /\ StepThread(r, "writing", "loop")
  /\ logLock' = [logLock EXCEPT ![r] = "none"]
  /\ progressFile' = [progressFile EXCEPT ![r] = "ok"]
  /\ logFile' = [logFile EXCEPT ![r] = @ + buffer[r]]
  /\ buffer' = [buffer EXCEPT ![r] = 0]
  /\ UNCHANGED <<workerVars, statusFile, lock, done, failed, ipc, stop, sawFailed,
                 queue, emitted, answer, job, restarts>>

\* ... or the metrics port does not answer: nothing is written, the lines stay.
WriteProgressFails(r) ==
  /\ StepThread(r, "writing", "loop")
  /\ logLock' = [logLock EXCEPT ![r] = "none"]
  /\ UNCHANGED <<workerVars, statusFile, lock, recordVars, ipc, stop, sawFailed,
                 queue, buffer, emitted, answer, job, restarts>>

ExitLoop(r) ==
  /\ stop[r]
  /\ StepThread(r, "loop", "drain")
  /\ UNCHANGED <<workerVars, lockVars, recordVars, ipc, stop, sawFailed, queue,
                 buffer, emitted, answer, job, restarts>>

\* Mutant: only the buffer is written after the loop.
DrainBufferOnly(r) ==
  /\ LogLockFree
  /\ StepThread(r, "drain", "record")
  /\ logFile' = [logFile EXCEPT ![r] = @ + buffer[r]]
  /\ buffer' = [buffer EXCEPT ![r] = 0]
  /\ UNCHANGED <<workerVars, lockVars, progressFile, done, failed, ipc, stop,
                 sawFailed, queue, emitted, answer, job, restarts>>

\* What is left in the queue goes to the log with what is in the buffer.
DrainQueue(r) ==
  /\ buffer[r] + queue[r] > 0 => LogLockFree
  /\ StepThread(r, "drain", "record")
  /\ logFile' = [logFile EXCEPT ![r] = @ + buffer[r] + queue[r]]
  /\ queue' = [queue EXCEPT ![r] = 0]
  /\ buffer' = [buffer EXCEPT ![r] = 0]
  /\ UNCHANGED <<workerVars, lockVars, progressFile, done, failed, ipc, stop,
                 sawFailed, emitted, answer, job, restarts>>

\* Mutant: the look and the record are two critical sections.
LookForFailedUnlocked(r) ==
  /\ LogLockFree
  /\ StepThread(r, "record", "recording")
  /\ sawFailed' = [sawFailed EXCEPT ![r] = r \in failed]
  /\ UNCHANGED <<workerVars, lockVars, recordVars, ipc, stop, queue, buffer,
                 emitted, answer, job, restarts>>

\* Under the log lock: is there a failed file already?
LookForFailed(r) ==
  /\ LogLockFree
  /\ StepThread(r, "record", "recording")
  /\ logLock' = [logLock EXCEPT ![r] = "current"]
  /\ sawFailed' = [sawFailed EXCEPT ![r] = r \in failed]
  /\ UNCHANGED <<workerVars, statusFile, lock, recordVars, ipc, stop, queue, buffer,
                 emitted, answer, job, restarts>>

RecordOutcome(r) ==
  /\ StepThread(r, "recording", "exited")
  /\ logLock' = [logLock EXCEPT ![r] = "none"]
  /\ done' = IF ~sawFailed[r] /\ ipc[r] THEN done \cup {r} ELSE done
  /\ failed' = IF ~sawFailed[r] /\ ~ipc[r] THEN failed \cup {r} ELSE failed
  /\ UNCHANGED <<workerVars, statusFile, lock, progressFile, logFile, ipc, stop,
                 sawFailed, queue, buffer, emitted, answer, job, restarts>>

-----------------------------------------------------------------------------
(* Outside the service: Ray ends a job, a worker process dies.             *)

JobEnds(r) ==
  /\ job[r] = "running"
  /\ \E end \in {"succeeded", "failed"} : job' = [job EXCEPT ![r] = end]
  /\ UNCHANGED <<workerVars, lockVars, recordVars, threadVars, answer, restarts>>

\* The kernel drops the locks of the process; its files and its job stay.
Crash(w) ==
  /\ pc[w] # "down"
  /\ restarts < MaxRestarts
  /\ restarts' = restarts + 1
  /\ lock' = [lock EXCEPT ![w] = "none"]
  /\ LET r == req[w]
         mine == {r} \cap {q \in Requests : pc[w] \in HandlerPC \cup CleanupPC}
     IN /\ thread' = [q \in Requests |->
                        IF q \in mine /\ thread[q] \notin {"none", "exited"}
                        THEN "dead" ELSE thread[q]]
        /\ logLock' = [q \in Requests |-> IF q \in mine THEN "none" ELSE logLock[q]]
        /\ answer' = [q \in Requests |->
                        IF q = r /\ pc[w] \in ServingPC THEN "lost" ELSE answer[q]]
  /\ req' = [req EXCEPT ![w] = None]
  /\ reply' = [reply EXCEPT ![w] = "none"]
  /\ victims' = [victims EXCEPT ![w] = {}]
  /\ hit' = [hit EXCEPT ![w] = {}]
  /\ Goto(w, "down")
  /\ UNCHANGED <<statusFile, recordVars, ipc, stop, sawFailed, queue, buffer,
                 emitted, job>>

\* Mutant: a new worker trusts the files it finds.
RestartWithoutCleanup(w) ==
  /\ pc[w] = "down"
  /\ Goto(w, "idle")
  /\ UNCHANGED <<req, reply, victims, hit, lockVars, recordVars, threadVars, answer,
                 job, restarts>>

\* uvicorn replaces the process, which starts with setup_pipeline_middleware.
Restart(w) ==
  /\ pc[w] = "down"
  /\ Goto(w, "boot1")
  /\ UNCHANGED <<req, reply, victims, hit, lockVars, recordVars, threadVars, answer,
                 job, restarts>>

-----------------------------------------------------------------------------
Admit(w) ==
  \/ \E r \in Requests : CheckBusy(w, r)
  \/ AcquireLock(w) \/ LockTimeout(w) \/ WriteStatusFile(w)

Handle(w) ==
  \/ OpenProgressFile(w) \/ StartProgressThread(w)
  \/ PrepareFails(w) \/ AcceptUnsupported(w) \/ LaunchJob(w)
  \/ ProcessSucceeds(w) \/ ProcessFails(w)
  \/ SignalStop(w) \/ AnswerError(w) \/ LeaveHandler(w)

CleanUp(w) ==
  \/ UnlinkStatusFile(w) \/ UnlinkPipelineLock(w) \/ UnlinkLogLock(w)
  \/ ReleaseLock(w)

Terminate(w) ==
  \/ \E r \in Requests \cup {ForceId} : CheckTermination(w, r)
  \/ ListJobs(w)
  \/ \E r \in Requests : StopJob(w, r) \/ StopJobFails(w, r)
  \/ RecordTermination(w)

ProgressThread(r) ==
  \/ PollStatus(r) \/ CollectLines(r) \/ SkipFlush(r)
  \/ TruncateProgress(r) \/ WriteProgress(r) \/ WriteProgressFails(r)
  \/ ExitLoop(r) \/ DrainQueue(r) \/ LookForFailed(r) \/ RecordOutcome(r)

Next ==
  \/ \E w \in Workers : Admit(w) \/ Handle(w) \/ CleanUp(w) \/ Terminate(w)
                          \/ EmitLine(w) \/ Crash(w) \/ Restart(w)
  \/ \E r \in Requests : ProgressThread(r) \/ JobEnds(r)

Spec == Init /\ [][Next]_vars

\* A worker that is past admission goes on; a thread is scheduled; a Ray job
\* ends; uvicorn replaces a dead worker.  No request need ever arrive.
Fairness ==
  /\ \A w \in Workers :
       /\ WF_vars(AcquireLock(w) \/ LockTimeout(w) \/ WriteStatusFile(w))
       /\ WF_vars(Handle(w) \/ CleanUp(w) \/ Restart(w))
       /\ WF_vars(ListJobs(w) \/ RecordTermination(w)
                    \/ \E r \in Requests : StopJob(w, r) \/ StopJobFails(w, r))
  /\ \A r \in Requests : WF_vars(ProgressThread(r)) /\ WF_vars(JobEnds(r))

FairSpec == Spec /\ Fairness

-----------------------------------------------------------------------------
(* Properties.                                                             *)

WorkerTypes ==
  /\ pc \in [Workers -> WorkerPC]
  /\ req \in [Workers -> Requests \cup {ForceId, None}]
  /\ reply \in [Workers -> {"none", "ok", "error"}]
  /\ victims \in [Workers -> SUBSET Requests]
  /\ hit \in [Workers -> SUBSET Requests]

FileTypes ==
  /\ statusFile \in BOOLEAN
  /\ lock \in [Workers -> Holds]
  /\ logLock \in [Requests -> Holds]
  /\ progressFile \in [Requests -> {"absent", "torn", "ok"}]
  /\ logFile \in [Requests -> Nat]
  /\ done \subseteq Requests
  /\ failed \subseteq Requests \cup {ForceId, None}

ThreadTypes ==
  /\ ipc \in [Requests -> BOOLEAN]
  /\ stop \in [Requests -> BOOLEAN]
  /\ thread \in [Requests -> ThreadPC]
  /\ sawFailed \in [Requests -> BOOLEAN]
  /\ queue \in [Requests -> Nat]
  /\ buffer \in [Requests -> Nat]
  /\ emitted \in [Requests -> Nat]

TypeOK ==
  /\ WorkerTypes
  /\ FileTypes
  /\ ThreadTypes
  /\ answer \in [Requests -> {"none", "busy", "ok", "error", "lost"}]
  /\ job \in [Requests -> {"none", "running", "succeeded", "failed", "stopped"}]
  /\ restarts \in Nat

\* The worker is between taking the lock and unlinking its file.
InSection(w) == pc[w] \in {"locked", "cleanup1", "cleanup2"} \cup HandlerPC

\* At most one pipeline request is past admission: the purpose of
\* PipelineLockMiddleware, whose lock file is unlinked while it is held.
OneActivePipeline ==
  \A v, w \in Workers : InSection(v) /\ InSection(w) => v = w

\* The record of an ended request is complete: unless it was marked failed
\* (a termination makes the thread stop early), every line the pipeline
\* printed reached its log before the outcome was recorded.
LogComplete ==
  \A r \in Requests :
    thread[r] = "exited" /\ r \notin failed => logFile[r] = emitted[r]

\* A request whose failed file appears first never gets a done file: the
\* thread's look for the failed file and its own record are one critical
\* section of the log lock, which dispatch's cleanup also unlinks.  The unlinked
\* lock protects nothing; that a termination does not fall in between rests on the
\* service having two workers, of which one is busy with the request itself.
FailedSticks ==
  [][\A r \in Requests : r \in failed /\ r \notin done => r \notin done']_vars

\* The slot is given back after every admission, crashes included: the
\* status file of a dead worker blocks everybody until a worker starts.
SlotFreed == statusFile ~> ~statusFile

\* A request whose progress thread started gets a recorded outcome, unless
\* the worker dies under it.
OutcomeRecorded ==
  \A r \in Requests :
    thread[r] = "loop" ~> r \in done \cup failed \/ thread[r] = "dead"

-----------------------------------------------------------------------------
(* The service implements PipelineSlot.                                    *)

\* The slot is held by the request of the worker inside the section.
SlotHolder == IF \E w \in Workers : InSection(w)
              THEN req[CHOOSE w \in Workers : InSection(w)]
              ELSE None

Slot == INSTANCE PipelineSlot
          WITH slot <- SlotHolder, record <- [r \in Requests |-> RequestStatus(r)]

\* While no worker starts or dies, the service is a PipelineSlot: in
\* particular nobody is admitted before the outcome of the last request is
\* on record, which is what joining the progress thread is for.
ImplementsSlot == Slot!Spec
=============================================================================
