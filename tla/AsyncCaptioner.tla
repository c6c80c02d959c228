--------------------------- MODULE AsyncCaptioner ---------------------------
(***************************************************************************)
(* _AsyncCaptioner of cosmos_curator/models/vllm_interface.py: one run     *)
(* captions a batch of windows through an AsyncLLM engine, one asyncio     *)
(* task per window and stage, behind a semaphore that other batches of the *)
(* same actor use as well.                                                 *)
(*                                                                         *)
(* asyncio steps are atomic between awaits.  The tasks' steps, the engine  *)
(* and the run interleave at awaits only; completions are handled one at a *)
(* time here, where the code handles those of one wake-up in a row.        *)
(***************************************************************************)
EXTENDS Naturals, FiniteSets, Sequences

CONSTANTS Windows,     \* the windows of the batch
          Missing,     \* those whose request has empty inputs
          TwoStage,    \* those with a stage-2 prompt
          Permits,     \* budget of the shared semaphore
          Others,      \* bound on the permits other batches take
          MaxRetries   \* attempts per request

ASSUME CaptionerAssumption ==
  /\ IsFiniteSet(Windows)
  /\ Missing \subseteq Windows
  /\ TwoStage \subseteq Windows
  /\ Permits \in Nat \ {0}
  /\ Others \in Nat
  /\ MaxRetries \in Nat \ {0}

VARIABLES
  run,       \* dispatch, loop, cancel, drain, returned or raised
  phase,     \* new, stage1, stage2 or over: the window's current request
  task,      \* state of the asyncio task that drives that request
  attempts,  \* attempts of that request that failed
  results,   \* _results, and the calls of on_window_done with it
  tokens,    \* generations counted in _token_counts
  errors,    \* phases reported through on_window_error
  engine,    \* alive or dead
  others     \* permits held by other batches

vars == <<run, phase, task, attempts, results, tokens, errors, engine, others>>
windowVars == <<phase, task, attempts, results, tokens, errors>>

\* A pending task: in _pending, and not yet handled.
Running == {"waiting", "generating"}
Ended   == {"ok", "failed", "dead"}
Pending(w) == task[w] \in Running \cup Ended

PermitsHeld == Cardinality({w \in Windows : task[w] = "generating"}) + others

Init ==
  /\ run = "dispatch"
  /\ phase = [w \in Windows |-> "new"]
  /\ task = [w \in Windows |-> "none"]
  /\ attempts = [w \in Windows |-> 0]
  /\ results = [w \in Windows |-> <<>>]
  /\ tokens = [w \in Windows |-> 0]
  /\ errors = [w \in Windows |-> {}]
  /\ engine = "alive"
  /\ others = 0

\* _emit_final and _emit_unknown record the result and call on_window_done.
Emit(w, text) ==
  /\ results' = [results EXCEPT ![w] = Append(@, text)]
  /\ phase' = [phase EXCEPT ![w] = "over"]

\* _spawn: a new task, whose first attempt waits for the semaphore
Spawn(w, stage) ==
  /\ phase' = [phase EXCEPT ![w] = stage]
  /\ task' = [task EXCEPT ![w] = "waiting"]
  /\ attempts' = [attempts EXCEPT ![w] = 0]

-----------------------------------------------------------------------------
(* run: dispatch, the wait loop, and the way out.                          *)

DispatchMissing(w) ==
  /\ run = "dispatch"
  /\ phase[w] = "new"
  /\ w \in Missing
  /\ Emit(w, "unknown")
  /\ UNCHANGED <<run, task, attempts, tokens, errors, engine, others>>

Dispatch(w) ==
  /\ run = "dispatch"
  /\ phase[w] = "new"
  /\ w \notin Missing
  /\ Spawn(w, "stage1")
  /\ UNCHANGED <<run, results, tokens, errors, engine, others>>

EndDispatch ==
  /\ run = "dispatch"
  /\ \A w \in Windows : phase[w] # "new"
  /\ run' = "loop"
  /\ UNCHANGED <<windowVars, engine, others>>

\* Mutant: the loop stops at the first idle moment of the semaphore.
ReturnEarly ==
  /\ run = "loop"
  /\ \A w \in Windows : task[w] # "generating"
  /\ run' = "returned"
  /\ UNCHANGED <<windowVars, engine, others>>

Return ==
  /\ run = "loop"
  /\ \A w \in Windows : ~Pending(w)
  /\ run' = "returned"
  /\ UNCHANGED <<windowVars, engine, others>>

\* The actor cancels the batch while it waits.
CancelRun ==
  /\ run = "loop"
  /\ run' = "cancel"
  /\ UNCHANGED <<windowVars, engine, others>>

\* Mutant: cancelled tasks are not awaited, and the run raises at once.
RaiseWithoutDrain ==
  /\ run = "drain"
  /\ run' = "raised"
  /\ UNCHANGED <<windowVars, engine, others>>

\* _cancel_pending cancels every pending task.  The CancelledError ends the
\* attempt of a task that has started, and is not an EngineDeadError: the
\* retry policy of _drive_request gives the request its next attempt.
CancelPending ==
  /\ run = "cancel"
  /\ run' = "drain"
  /\ \E unstarted \in SUBSET {w \in Windows : task[w] = "waiting" /\ attempts[w] = 0} :
       LET hit == {w \in Windows : task[w] \in Running} \ unstarted
       IN /\ attempts' = [w \in Windows |-> attempts[w] + IF w \in hit THEN 1 ELSE 0]
          /\ task' = [w \in Windows |->
                       CASE w \in unstarted -> "cancelled"
                         [] w \in hit -> IF attempts[w] + 1 < MaxRetries
                                        THEN "waiting" ELSE "cancelled"
                         [] OTHER -> task[w]]
  /\ UNCHANGED <<phase, results, tokens, errors, engine, others>>

\* It then awaits each of them and drops what it returns or raises.
Raise ==
  /\ run = "drain"
  /\ \A w \in Windows : task[w] \notin Running
  /\ run' = "raised"
  /\ task' = [w \in Windows |-> "none"]
  /\ UNCHANGED <<phase, attempts, results, tokens, errors, engine, others>>

-----------------------------------------------------------------------------
(* _handle_completed                                                       *)

\* Mutant: engine death is contained like any other failure.
ContainEngineDeath(w) ==
  /\ run = "loop"
  /\ task[w] = "dead"
  /\ task' = [task EXCEPT ![w] = "none"]
  /\ Emit(w, "unknown")
  /\ errors' = [errors EXCEPT ![w] = @ \cup {phase[w]}]
  /\ UNCHANGED <<run, attempts, tokens, engine, others>>

HandleEngineDeath(w) ==
  /\ run = "loop"
  /\ task[w] = "dead"
  /\ task' = [task EXCEPT ![w] = "none"]
  /\ run' = "cancel"
  /\ UNCHANGED <<phase, attempts, results, tokens, errors, engine, others>>

HandleFailure(w) ==
  /\ run = "loop"
  /\ task[w] = "failed"
  /\ task' = [task EXCEPT ![w] = "none"]
  /\ Emit(w, "unknown")
  /\ errors' = [errors EXCEPT ![w] = @ \cup {phase[w]}]
  /\ UNCHANGED <<run, attempts, tokens, engine, others>>

\* make_refined_llm_request clears the stage-2 prompt: stage 2 is final.
HandleFinal(w) ==
  /\ run = "loop"
  /\ task[w] = "ok"
  /\ phase[w] = "stage2" \/ w \notin TwoStage
  /\ task' = [task EXCEPT ![w] = "none"]
  /\ tokens' = [tokens EXCEPT ![w] = @ + 1]
  /\ Emit(w, "caption")
  /\ UNCHANGED <<run, attempts, errors, engine, others>>

\* Mutant: stage-1 tokens are not accumulated.
HandleStage1Uncounted(w) ==
  /\ run = "loop"
  /\ task[w] = "ok"
  /\ phase[w] = "stage1" /\ w \in TwoStage
  /\ Spawn(w, "stage2")
  /\ UNCHANGED <<run, results, tokens, errors, engine, others>>

HandleStage1(w) ==
  /\ run = "loop"
  /\ task[w] = "ok"
  /\ phase[w] = "stage1" /\ w \in TwoStage
  /\ tokens' = [tokens EXCEPT ![w] = @ + 1]
  /\ Spawn(w, "stage2")
  /\ UNCHANGED <<run, results, errors, engine, others>>

HandleBuildFailure(w) ==
  /\ run = "loop"
  /\ task[w] = "ok"
  /\ phase[w] = "stage1" /\ w \in TwoStage
  /\ task' = [task EXCEPT ![w] = "none"]
  /\ tokens' = [tokens EXCEPT ![w] = @ + 1]
  /\ Emit(w, "unknown")
  /\ errors' = [errors EXCEPT ![w] = @ \cup {"stage2_build"}]
  /\ UNCHANGED <<run, attempts, engine, others>>

-----------------------------------------------------------------------------
(* _drive_request: the task of one request.                                *)

\* The run awaits, and its tasks get their turns, in these two places.
Awaiting == run \in {"loop", "drain"}

\* async with self.semaphore, then engine.generate
StartAttempt(w) ==
  /\ Awaiting
  /\ task[w] = "waiting"
  /\ PermitsHeld < Permits
  /\ task' = [task EXCEPT ![w] = "generating"]
  /\ UNCHANGED <<run, phase, attempts, results, tokens, errors, engine, others>>

\* Mutant: engine death is retried without counting the attempt.
AttemptDiesRetried(w) ==
  /\ Awaiting
  /\ task[w] = "generating"
  /\ engine = "dead"
  /\ task' = [task EXCEPT ![w] = "waiting"]
  /\ UNCHANGED <<run, phase, attempts, results, tokens, errors, engine, others>>

AttemptSucceeds(w) ==
  /\ Awaiting
  /\ task[w] = "generating"
  /\ engine = "alive"
  /\ task' = [task EXCEPT ![w] = "ok"]
  /\ UNCHANGED <<run, phase, attempts, results, tokens, errors, engine, others>>

\* An error, or no outputs: tenacity tries again or re-raises.
AttemptFails(w) ==
  /\ Awaiting
  /\ task[w] = "generating"
  /\ engine = "alive"
  /\ attempts' = [attempts EXCEPT ![w] = @ + 1]
  /\ task' = [task EXCEPT ![w] = IF attempts[w] + 1 < MaxRetries
                                 THEN "waiting" ELSE "failed"]
  /\ UNCHANGED <<run, phase, results, tokens, errors, engine, others>>

\* plugin.decode is outside the retried attempt.
DecodeFails(w) ==
  /\ Awaiting
  /\ task[w] = "generating"
  /\ engine = "alive"
  /\ task' = [task EXCEPT ![w] = "failed"]
  /\ UNCHANGED <<run, phase, attempts, results, tokens, errors, engine, others>>

\* EngineDeadError is never retried.
AttemptDies(w) ==
  /\ Awaiting
  /\ task[w] = "generating"
  /\ engine = "dead"
  /\ task' = [task EXCEPT ![w] = "dead"]
  /\ UNCHANGED <<run, phase, attempts, results, tokens, errors, engine, others>>

-----------------------------------------------------------------------------
(* The engine and the other batches of the actor.                          *)

EngineDies ==
  /\ engine = "alive"
  /\ engine' = "dead"
  /\ UNCHANGED <<run, windowVars, others>>

OtherTakes ==
  /\ others < Others
  /\ PermitsHeld < Permits
  /\ others' = others + 1
  /\ UNCHANGED <<run, windowVars, engine>>

OtherReleases ==
  /\ others > 0
  /\ others' = others - 1
  /\ UNCHANGED <<run, windowVars, engine>>

-----------------------------------------------------------------------------
Handle(w) == HandleEngineDeath(w) \/ HandleFailure(w) \/ HandleFinal(w)
               \/ HandleStage1(w) \/ HandleBuildFailure(w)

EngineAnswers(w) ==
  AttemptSucceeds(w) \/ AttemptFails(w) \/ DecodeFails(w) \/ AttemptDies(w)

Run ==
  \/ EndDispatch \/ Return \/ CancelPending \/ Raise
  \/ \E w \in Windows : DispatchMissing(w) \/ Dispatch(w) \/ Handle(w)

Next ==
  \/ Run \/ CancelRun \/ EngineDies \/ OtherTakes \/ OtherReleases
  \/ \E w \in Windows : StartAttempt(w) \/ EngineAnswers(w)

Spec == Init /\ [][Next]_vars

\* The event loop runs what is ready, the engine answers every call or dies,
\* and asyncio.Semaphore serves its waiters in turn.
Fairness ==
  /\ WF_vars(Run)
  /\ WF_vars(OtherReleases)
  /\ \A w \in Windows : SF_vars(StartAttempt(w)) /\ WF_vars(EngineAnswers(w))

FairSpec == Spec /\ Fairness

-----------------------------------------------------------------------------
(* Properties.                                                             *)

TypeOK ==
  /\ run \in {"dispatch", "loop", "cancel", "drain", "returned", "raised"}
  /\ phase \in [Windows -> {"new", "stage1", "stage2", "over"}]
  /\ task \in [Windows -> {"none", "cancelled"} \cup Running \cup Ended]
  /\ attempts \in [Windows -> 0 .. MaxRetries]
  /\ results \in [Windows -> Seq({"caption", "unknown"})]
  /\ tokens \in [Windows -> Nat]
  /\ errors \in [Windows -> SUBSET {"stage1", "stage2", "stage2_build"}]
  /\ engine \in {"alive", "dead"}
  /\ others \in Nat

\* The semaphore is never overdrawn, and a run that ended, however it ended,
\* holds no permit and leaves no task behind: the other batches of the actor
\* get the whole budget.
NoLeak ==
  /\ PermitsHeld <= Permits
  /\ run \in {"returned", "raised"} => \A w \in Windows : ~Pending(w)

\* A window that ended as unknown says why, once and for the stage that
\* failed, unless its input was missing upstream; a caption has no error,
\* and counts the tokens of every stage it went through.
Accounted ==
  \A w \in Windows :
    /\ results[w] = <<"caption">> =>
         errors[w] = {} /\ tokens[w] = IF w \in TwoStage THEN 2 ELSE 1
    /\ results[w] = <<"unknown">> =>
         \/ w \in Missing /\ errors[w] = {} /\ tokens[w] = 0
         \/ errors[w] = {"stage1"} /\ tokens[w] = 0
         \/ errors[w] \in {{"stage2"}, {"stage2_build"}} /\ tokens[w] = 1
    /\ results[w] = <<>> => errors[w] = {}

\* A batch always ends, also when the engine dies while requests wait for
\* the semaphore.
Terminates == <>(run \in {"returned", "raised"})

\* The engine's death is never papered over: a batch that still had a
\* request in the engine when it died is raised to the actor.
DeathRaised ==
  (engine = "dead" /\ \E w \in Windows : task[w] = "generating") ~> (run = "raised")

\* Each batch ends, and one whose engine died ends by raising that (run, _handle_completed).
BatchEnds == Terminates /\ DeathRaised

-----------------------------------------------------------------------------
\* What the caller has been told of each window, and how the run stands.
Verdict == [w \in Windows |-> IF results[w] = <<>> THEN "none" ELSE results[w][1]]

RunState == IF run \in {"dispatch", "loop"} THEN "running"
            ELSE IF run = "returned" THEN "returned" ELSE "abandoned"

Batch == INSTANCE CaptionBatch WITH verdict <- Verdict, batch <- RunState

\* One verdict per window; all of them before the batch returns, none after
\* it was abandoned.
ImplementsBatch == Batch!Spec

\* on_window_done is called once per window (a second call would be hidden
\* from ImplementsBatch, which sees the first result).
DoneOnce == \A w \in Windows : Len(results[w]) <= 1
=============================================================================
