--------------------------- MODULE EngineWatchdog ---------------------------
(* The life of a vLLM engine in VllmCaptionStage                             *)
(* (pipelines/video/captioning/vllm_caption_stage.py).  The actor's main     *)
(* thread builds an engine, which is a process of its own, serves calls with *)
(* it and, when a call raises, tears the engine down, builds another one and *)
(* tries again.  A watchdog thread looks for the engine's process and ends   *)
(* the actor when it is gone, because a call whose engine died may wait for  *)
(* an answer for ever.  An actor that dies leaves its engine's process       *)
(* behind, which the next actor removes before it builds its own, unless it   *)
(* builds it while it sets up the node.                                      *)
(*                                                                           *)
(* One node and one actor at a time: the engines of other actors have a      *)
(* living parent and are not touched (lines 779-786).  An actor that is PID 1 *)
(* sweeps nothing (lines 791-797); its engine does not outlive it.           *)
EXTENDS Integers, FiniteSets

CONSTANTS MaxEngines,   \* bound: engine processes that are started
          MaxAttempts,  \* VllmConfig.max_retries
          MaxDeaths,    \* bound: deaths of an engine or of an actor that nothing in the code causes
          MaxCalls      \* bound: calls of process_data

VARIABLES
  pc,        \* where the actor's main thread is; "down": there is no actor
  llm,       \* _llm: the engine the stage holds, 0 for None
  processor, \* is _processor set?
  captured,  \* llm of process_data: the engine its attempts are made with
  attempt,   \* the attempt that is made, 0 outside process_data
  errors,    \* is errors["captioning"] set on the videos of the call?
  outcome,   \* what the last call wrote to the windows
  calls,     \* calls made so far
  live,      \* EngineCore processes that run
  orphans,   \* those of them whose actor has died: their parent is PID 1
  doomed,    \* those that were sent SIGKILL and still run: the code logs them and goes on
  spared,    \* orphans that a set-up of the node passed over
  built,     \* engine processes started so far
  thread,    \* where each watchdog thread is
  event,     \* the stop event each of them was started with
  active,    \* _watchdog_stop_event, 0 for None
  watchdog,  \* _watchdog_thread, 0 for None
  stopped,   \* the stop events that are set
  deaths     \* deaths so far

engines  == <<live, orphans, doomed, spared, built>>
dogs     == <<thread, event, active, watchdog, stopped>>
call     == <<captured, attempt, errors, outcome, calls>>
held     == <<llm, processor>>
vars     == <<pc, held, call, engines, dogs, deaths>>

Engines == 1..MaxEngines
Dogs    == 1..MaxEngines

Children == live \ orphans

\* Mutant: a zombie counts, as which an engine that died remains with the actor that started it.
EngineIsAliveOrZombie == llm # 0

\* _engine_core_is_alive
EngineIsAlive == Children # {}

Running(t) == thread[t] \in {"wait", "check", "scan"}

Init ==
  /\ pc = "down"
  /\ llm = 0 /\ processor = FALSE
  /\ captured = 0 /\ attempt = 0 /\ errors = FALSE /\ outcome = "none" /\ calls = 0
  /\ live = {} /\ orphans = {} /\ doomed = {} /\ spared = {} /\ built = 0
  /\ thread = [t \in Dogs |-> "none"] /\ event = [t \in Dogs |-> 0]
  /\ active = 0 /\ watchdog = 0 /\ stopped = {}
  /\ deaths = 0

-----------------------------------------------------------------------------
(* The end of the actor's process, however it comes about.                   *)

EndOfActor ==
  /\ pc' = "down"
  /\ llm' = 0 /\ processor' = FALSE
  /\ captured' = 0 /\ attempt' = 0 /\ errors' = FALSE /\ outcome' = "none"
  /\ orphans' = live
  /\ thread' = [t \in Dogs |-> IF Running(t) THEN "gone" ELSE thread[t]]
  /\ active' = 0 /\ watchdog' = 0
  /\ UNCHANGED <<calls, live, doomed, spared, built, event, stopped>>

ActorDies ==
  /\ pc # "down" /\ deaths < MaxDeaths
  /\ deaths' = deaths + 1
  /\ EndOfActor

\* One that was sent SIGKILL may go at any time.
EngineDies(e) ==
  /\ e \in live
  /\ IF e \in doomed THEN deaths' = deaths ELSE deaths < MaxDeaths /\ deaths' = deaths + 1
  /\ live' = live \ {e} /\ orphans' = orphans \ {e}
  /\ doomed' = doomed \ {e} /\ spared' = spared \ {e}
  /\ UNCHANGED <<pc, held, call, built, dogs>>

-----------------------------------------------------------------------------
(* stage_setup_on_node and stage_setup                                       *)

\* An actor that sets up the node builds its engine at once, whatever orphans
\* there are; its stage_setup finds _llm set and does not sweep.
SetUpOnNode ==
  /\ pc = "down" /\ built < MaxEngines
  /\ spared' = spared \cup orphans
  /\ pc' = "build"
  /\ UNCHANGED <<held, call, live, orphans, doomed, built, dogs, deaths>>

\* Any other actor, and a _reset, sweeps first.
NewActor ==
  /\ pc = "down" /\ built < MaxEngines
  /\ pc' = "sweep"
  /\ UNCHANGED <<held, call, engines, dogs, deaths>>

\* SIGKILL to the processes of victims: those of some set outlive the wait for them.
Kill(victims) ==
  \E survivors \in SUBSET victims :
    /\ live' = live \ (victims \ survivors)
    /\ orphans' = orphans \ (victims \ survivors)
    /\ doomed' = (doomed \ victims) \cup survivors
    /\ spared' = spared \ victims

\* Mutant: the orphans of the last actor are left alone.
SweepNothing ==
  /\ pc = "sweep"
  /\ pc' = "build"
  /\ UNCHANGED <<held, call, engines, dogs, deaths>>

Sweep ==
  /\ pc = "sweep"
  /\ Kill(orphans)
  /\ pc' = "build"
  /\ UNCHANGED <<held, call, built, dogs, deaths>>

\* An exception in stage_setup: inside _reset it takes the place of the one that
\* made the call fail, and the next attempt follows; outside of it the pool ends the
\* actor and starts another one.
SetupRaises ==
  IF attempt > 0 THEN /\ pc' = "raised"
                      /\ UNCHANGED <<held, call, orphans, doomed, spared, built, dogs>>
                 ELSE EndOfActor

\* gpu_stage_startup finds the GPU in use by others.
GpuNotClean ==
  /\ pc = "build"
  /\ SetupRaises
  /\ UNCHANGED <<live, deaths>>

Spawn ==
  /\ pc = "build" /\ built < MaxEngines
  /\ built' = built + 1
  /\ live' = live \cup {built + 1}
  /\ pc' = "loading"
  /\ UNCHANGED <<held, call, orphans, doomed, spared, dogs, deaths>>

\* vllm_model raises; the process it started may stay.
LoadFails ==
  /\ pc = "loading"
  /\ SetupRaises
  /\ UNCHANGED <<live, deaths>>

Loaded ==
  /\ pc = "loading" /\ built \in live
  /\ llm' = built
  /\ pc' = "processor"
  /\ UNCHANGED <<processor, call, engines, dogs, deaths>>

\* auto_processor raises: _llm is set, _processor is not.
ProcessorFails ==
  /\ pc = "processor"
  /\ SetupRaises
  /\ UNCHANGED <<live, deaths>>

ProcessorLoads ==
  /\ pc = "processor"
  /\ processor' = TRUE
  /\ pc' = "start"
  /\ UNCHANGED <<llm, call, engines, dogs, deaths>>

NextDog == CHOOSE t \in Dogs : thread[t] = "none" /\ \A u \in Dogs : u < t => thread[u] # "none"

\* Mutant: the one event is cleared and used again, as before the fix that
\* test_watchdog_is_not_resurrected_after_stop_then_start tells of.
StartWithOldEvent ==
  /\ pc = "start"
  /\ IF watchdog # 0 /\ Running(watchdog)
     THEN UNCHANGED <<thread, event, active, watchdog, stopped>>
     ELSE /\ watchdog' = NextDog
          /\ active' = 1
          /\ thread' = [thread EXCEPT ![NextDog] = "wait"]
          /\ event' = [event EXCEPT ![NextDog] = 1]
          /\ stopped' = stopped \ {1}
  /\ pc' = IF attempt > 0 THEN "raised" ELSE "idle"
  /\ UNCHANGED <<held, call, engines, deaths>>

\* _start_engine_core_watchdog, the last step of stage_setup.  A thread that has started
\* looks up its event before anything else happens.
Start ==
  /\ pc = "start"
  /\ IF watchdog # 0 /\ Running(watchdog)
     THEN UNCHANGED <<thread, event, active, watchdog>>
     ELSE /\ watchdog' = NextDog
          /\ active' = NextDog
          /\ thread' = [thread EXCEPT ![NextDog] = "wait"]
          /\ event' = [event EXCEPT ![NextDog] = NextDog]
  /\ pc' = IF attempt > 0 THEN "raised" ELSE "idle"
  /\ UNCHANGED <<held, call, engines, stopped, deaths>>

-----------------------------------------------------------------------------
(* process_data                                                              *)

Process ==
  /\ pc = "idle" /\ calls < MaxCalls
  /\ llm # 0 /\ EngineIsAlive /\ processor
  /\ pc' = "generate"
  /\ captured' = llm /\ attempt' = 1 /\ errors' = FALSE /\ outcome' = "none" /\ calls' = calls + 1
  /\ UNCHANGED <<held, engines, dogs, deaths>>

\* exit_actor: the pool replaces the worker and the task is given to another one.
ExitActor ==
  /\ pc = "idle" /\ calls < MaxCalls
  /\ llm = 0 \/ ~EngineIsAlive
  /\ EndOfActor
  /\ UNCHANGED deaths

\* "Processor not initialized": an exception that the pool does not recover from.
NoProcessor ==
  /\ pc = "idle" /\ calls < MaxCalls
  /\ llm # 0 /\ EngineIsAlive /\ ~processor
  /\ pc' = "failed"
  /\ UNCHANGED <<held, call, engines, dogs, deaths>>

CallReturns ==
  /\ pc = "generate" /\ captured \in live
  /\ pc' = "idle"
  /\ errors' = FALSE /\ outcome' = "captions" /\ attempt' = 0 /\ captured' = 0
  /\ UNCHANGED <<held, calls, engines, dogs, deaths>>

\* A call on an engine that is gone raises or waits for ever.
CallRaises ==
  /\ pc = "generate"
  /\ errors' = TRUE
  /\ pc' = "stop"
  /\ UNCHANGED <<held, captured, attempt, outcome, calls, engines, dogs, deaths>>

\* after _reset: the next attempt, or results without text
Raised ==
  /\ pc = "raised"
  /\ IF attempt < MaxAttempts
     THEN /\ pc' = "generate" /\ attempt' = attempt + 1
          /\ UNCHANGED <<captured, outcome>>
     ELSE /\ pc' = "idle" /\ attempt' = 0 /\ captured' = 0 /\ outcome' = "empty"
  /\ UNCHANGED <<held, errors, calls, engines, dogs, deaths>>

-----------------------------------------------------------------------------
(* destroy, from _reset (attempt > 0) or from the worker's shutdown          *)

Shutdown ==
  /\ pc = "idle"
  /\ pc' = "stop"
  /\ UNCHANGED <<held, call, engines, dogs, deaths>>

StopWatchdog ==
  /\ pc = "stop"
  /\ stopped' = stopped \cup ({active} \ {0})
  /\ pc' = "join"
  /\ UNCHANGED <<held, call, engines, thread, event, active, watchdog, deaths>>

\* The join ends with the thread or after two seconds.
Join ==
  /\ pc = "join"
  /\ watchdog' = 0
  /\ pc' = "terminate"
  /\ UNCHANGED <<held, call, engines, thread, event, active, stopped, deaths>>

\* SIGTERM, then SIGKILL to those that ignore it.
Terminate ==
  /\ pc = "terminate"
  /\ Kill(Children)
  /\ pc' = "drop"
  /\ UNCHANGED <<held, call, built, dogs, deaths>>

DropRefs ==
  /\ pc = "drop"
  /\ IF attempt > 0
     THEN /\ llm' = 0 /\ processor' = FALSE /\ pc' = "sweep"
          /\ UNCHANGED <<call, orphans, doomed, spared, built, dogs>>
     ELSE EndOfActor
  /\ UNCHANGED <<live, deaths>>

-----------------------------------------------------------------------------
(* _engine_core_watchdog_loop                                                *)

Step(t, from, to) ==
  /\ thread[t] = from
  /\ thread' = [thread EXCEPT ![t] = to]
  /\ UNCHANGED <<pc, held, call, engines, event, active, watchdog, stopped, deaths>>

Wakes(t)  == event[t] \notin stopped /\ Step(t, "wait", "check")
Stops(t)  == event[t] \in stopped /\ Step(t, "wait", "gone")
Leaves(t) == (event[t] # active \/ llm = 0) /\ Step(t, "check", "gone")
Looks(t)  == event[t] = active /\ llm # 0 /\ Step(t, "check", "scan")
Goes(t)   == EngineIsAlive /\ Step(t, "scan", "wait")

ExitProcess(t) ==
  /\ thread[t] = "scan" /\ ~EngineIsAlive
  /\ EndOfActor
  /\ UNCHANGED deaths

Watch(t) == Wakes(t) \/ Stops(t) \/ Leaves(t) \/ Looks(t) \/ Goes(t) \/ ExitProcess(t)

Next ==
  \/ ActorDies \/ (\E e \in Engines : EngineDies(e))
  \/ SetUpOnNode \/ NewActor \/ Sweep \/ GpuNotClean \/ Spawn \/ LoadFails \/ Loaded
  \/ ProcessorFails \/ ProcessorLoads \/ Start
  \/ Process \/ ExitActor \/ NoProcessor \/ CallReturns \/ CallRaises \/ Raised
  \/ Shutdown \/ StopWatchdog \/ Join \/ Terminate \/ DropRefs
  \/ \E t \in Dogs : Watch(t)

\* The threads of the watchdog run.
Fairness == \A t \in Dogs : WF_vars(Watch(t))

Spec == Init /\ [][Next]_vars /\ Fairness

-----------------------------------------------------------------------------
(* Properties                                                                *)

TypeOK ==
  /\ pc \in {"down", "sweep", "build", "loading", "processor", "start", "idle", "generate",
             "raised", "stop", "join", "terminate", "drop", "failed"}
  /\ llm \in 0..MaxEngines /\ processor \in BOOLEAN
  /\ captured \in 0..MaxEngines /\ attempt \in 0..MaxAttempts
  /\ errors \in BOOLEAN /\ outcome \in {"none", "captions", "empty"} /\ calls \in 0..MaxCalls
  /\ live \subseteq Engines /\ orphans \subseteq live
  /\ doomed \subseteq live /\ spared \subseteq orphans /\ built \in 0..MaxEngines
  /\ thread \in [Dogs -> {"none", "wait", "check", "scan", "gone"}]
  /\ event \in [Dogs -> 0..MaxEngines]
  /\ active \in 0..MaxEngines /\ watchdog \in 0..MaxEngines
  /\ stopped \subseteq Dogs
  /\ deaths \in 0..MaxDeaths

\* However actors and engines die and whichever step of a setup or a teardown fails, there
\* are never two engine processes on the GPU, but for what the code does not remove: processes
\* that outlive a SIGKILL, and orphans that an actor passed over when it set up the node, which
\* stay until the next sweep.  What is left of any other engine goes before the next one starts.
OneEngine == Cardinality(live \ (doomed \cup spared)) <= 1

\* A watchdog that outlives the two seconds its teardown waits for it is never taken back
\* into service: at most one thread has an event that is not set.
OneWatchdog == Cardinality({t \in Dogs : Running(t) /\ event[t] \notin stopped}) <= 1

\* Both: a recovery leaves one of each.
OneOfEach == OneEngine /\ OneWatchdog

\* A call whose engine has died is not left waiting for ever, as long as it is made with
\* the engine the stage holds and no process that outlived a SIGKILL passes for it: the
\* watchdog ends the actor.
WedgedCallEnds ==
  (pc = "generate" /\ captured = llm /\ Children = {}) ~> pc # "generate"

\* "On retry: tear down and restart vllm" (line 1192): an attempt is made with the engine
\* that was started for it.  It is not: the attempts share the llm read before the first.
RetryOnNewEngine == pc = "generate" => captured = llm

=============================================================================
