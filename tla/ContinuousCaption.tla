-------------------------- MODULE ContinuousCaption --------------------------
(***************************************************************************)
(* VllmAsyncCaptionStage.run_continuous (pipelines/video/captioning/       *)
(* vllm_async_stage.py): one actor takes pipe tasks from an input queue,   *)
(* captions many of them at a time, and puts each on the output queue once *)
(* when it is done, until stop_event.                                      *)
(*                                                                         *)
(* The captioning of one pipe task is one asyncio task, a batch as in      *)
(* AsyncCaptioner: it returns or raises.  The loop runs from one await to  *)
(* the next in one step; queue, captions and stop_event change in between. *)
(***************************************************************************)
EXTENDS Naturals, Sequences, FiniteSets, SequencesExt

CONSTANTS Tasks,       \* pipe tasks, with distinct task ids
          Windowless,  \* those without a window to caption
          MaxAccept,   \* _MAX_ACCEPT_PER_LOOP
          None

ASSUME ContinuousAssumption ==
  /\ Windowless \subseteq Tasks
  /\ MaxAccept \in Nat
  /\ None \notin Tasks

VARIABLES
  loop,      \* where run_continuous is
  stop,      \* stop_event
  coming,    \* tasks Xenna has not offered yet
  input,     \* input_queue
  get,       \* get_task: none, waiting or got
  gotten,    \* its result
  dropped,   \* the result of a get_task that was done when the loop was left: nobody reads it
  trackers,  \* task ids with a tracker
  caption,   \* the asyncio task that captions each pipe task
  output     \* output_queue

vars == <<loop, stop, coming, input, get, gotten, dropped, trackers, caption, output>>

Init ==
  /\ loop = "top"
  /\ stop = FALSE
  /\ coming = Tasks
  /\ input = <<>>
  /\ get = "none"
  /\ gotten = None
  /\ dropped = None
  /\ trackers = {}
  /\ caption = [t \in Tasks |-> "none"]
  /\ output = <<>>

\* Caption tasks that are done and whose tracker still has them pending.
Ended == {t \in trackers : caption[t] \in {"returned", "raised"}}

-----------------------------------------------------------------------------
(* Around the loop: Xenna's queue and stop_event, the caption tasks.       *)

Offer(t) ==
  /\ t \in coming
  /\ coming' = coming \ {t}
  /\ input' = Append(input, t)
  /\ UNCHANGED <<loop, stop, get, gotten, dropped, trackers, caption, output>>

SetStop ==
  /\ ~stop
  /\ stop' = TRUE
  /\ UNCHANGED <<loop, coming, input, get, gotten, dropped, trackers, caption, output>>

\* The coroutine input_queue.get() of get_task takes the head of the queue.
GetItem ==
  /\ get = "waiting"
  /\ input # <<>>
  /\ loop \in {"wait", "expired"}
  /\ get' = "got"
  /\ gotten' = Head(input)
  /\ input' = Tail(input)
  /\ UNCHANGED <<loop, stop, coming, dropped, trackers, caption, output>>

CaptionEnds(t) ==
  /\ caption[t] = "running"
  /\ \E end \in {"returned", "raised"} : caption' = [caption EXCEPT ![t] = end]
  /\ UNCHANGED <<loop, stop, coming, input, get, gotten, dropped, trackers, output>>

-----------------------------------------------------------------------------
(* run_continuous                                                          *)

\* The while condition, and the get_task that is kept across iterations.
EnterWait ==
  /\ loop = "top"
  /\ ~stop
  /\ loop' = "wait"
  /\ get' = IF get = "none" THEN "waiting" ELSE get
  /\ UNCHANGED <<stop, coming, input, gotten, dropped, trackers, caption, output>>

\* Mutant: a task without windows is not emitted.
NothingAtOnce(new) == {}

\* _register_task for a task without windows: an output at once.
AtOnce(new) == ToSet(new) \cap Windowless

\* asyncio.wait returned: register the item and up to MaxAccept more, reap
\* what ended, and raise if any of it raised; else emit what is complete.
\* No reader depends on the order of what one wake emits.
HandleWake ==
  /\ loop = "wait"
  /\ get = "got" \/ Ended # {}
  /\ LET taken == IF get = "got"
                  THEN IF Len(input) < MaxAccept THEN Len(input) ELSE MaxAccept
                  ELSE 0
         new == IF get = "got" THEN <<gotten>> \o SubSeq(input, 1, taken) ELSE <<>>
         tracked == ToSet(new) \ Windowless
         raised == \E t \in Ended : caption[t] = "raised"
         done == IF raised THEN {} ELSE Ended
     IN /\ input' = SubSeq(input, taken + 1, Len(input))
        /\ caption' = [t \in Tasks |-> IF t \in tracked THEN "running" ELSE caption[t]]
        /\ trackers' = (trackers \cup tracked) \ done
        /\ output' \in {output \o more : more \in SetToSeqs(AtOnce(new) \cup done)}
        /\ loop' = IF raised THEN "failing" ELSE "top"
  /\ get' = IF get = "got" THEN "none" ELSE get
  /\ gotten' = None
  /\ UNCHANGED <<stop, coming, dropped>>

\* asyncio.timeout expired: the wait is cancelled, which the loop sees only
\* at its next turn; anything else that was ready runs before it.
Expire ==
  /\ loop = "wait"
  /\ get = "waiting" /\ Ended = {}
  /\ loop' = "expired"
  /\ UNCHANGED <<stop, coming, input, get, gotten, dropped, trackers, caption, output>>

\* Mutant: get_task is dropped with the wait.
DropGetAtTimeout ==
  /\ loop = "expired"
  /\ loop' = "top"
  /\ get' = "none"
  /\ gotten' = None
  /\ UNCHANGED <<stop, coming, input, dropped, trackers, caption, output>>

ContinueAfterTimeout ==
  /\ loop = "expired"
  /\ loop' = "top"
  /\ UNCHANGED <<stop, coming, input, get, gotten, dropped, trackers, caption, output>>

\* The finally clause cancels a get_task that is not done: a cancelled get()
\* leaves its item in the queue.  The result of one that is done is neither
\* registered nor put back.
LeaveLoop ==
  /\ (loop = "top" /\ stop) \/ loop = "failing"
  /\ loop' = IF loop = "top" THEN "drain" ELSE "raised"
  /\ get' = "none"
  /\ gotten' = None
  /\ dropped' = gotten
  /\ UNCHANGED <<stop, coming, input, trackers, caption, output>>

\* Mutant: the exceptions of the captions are not looked at.
DrainUnreaped ==
  /\ loop = "drain"
  /\ Ended # {}
  /\ trackers' = trackers \ Ended
  /\ output' \in {output \o done : done \in SetToSeqs(Ended)}
  /\ UNCHANGED <<loop, stop, coming, input, get, gotten, dropped, caption>>

\* Mutant: the drain reaps and does not emit.
DrainWithoutEmit ==
  /\ loop = "drain"
  /\ \E t \in Ended : caption[t] = "raised"
  /\ loop' = "raised"
  /\ UNCHANGED <<stop, coming, input, get, gotten, dropped, trackers, caption, output>>

\* The final drain waits for at least one caption, reaps and emits.
Drain ==
  /\ loop = "drain"
  /\ Ended # {}
  /\ IF \E t \in Ended : caption[t] = "raised"
     THEN loop' = "raised" /\ UNCHANGED <<trackers, output>>
     ELSE /\ loop' = "drain"
          /\ trackers' = trackers \ Ended
          /\ output' \in {output \o done : done \in SetToSeqs(Ended)}
  /\ UNCHANGED <<stop, coming, input, get, gotten, dropped, caption>>

\* Mutant: no drain.
ExitAtOnce ==
  /\ loop = "drain"
  /\ loop' = "exited"
  /\ UNCHANGED <<stop, coming, input, get, gotten, dropped, trackers, caption, output>>

Exit ==
  /\ loop = "drain"
  /\ trackers = {}
  /\ loop' = "exited"
  /\ UNCHANGED <<stop, coming, input, get, gotten, dropped, trackers, caption, output>>

-----------------------------------------------------------------------------
Loop ==
  \/ EnterWait \/ HandleWake \/ Expire \/ ContinueAfterTimeout
  \/ LeaveLoop \/ Drain \/ Exit

Next ==
  \/ Loop \/ SetStop \/ GetItem
  \/ \E t \in Tasks : Offer(t) \/ CaptionEnds(t)

Spec == Init /\ [][Next]_vars

\* The event loop runs ready coroutines and fires its timers (get_task gets
\* its turn even if every wait times out), and a caption batch ends (the
\* property Terminates of AsyncCaptioner).  Nothing makes Xenna offer or stop.
Fairness ==
  /\ WF_vars(Loop) /\ SF_vars(GetItem)
  /\ \A t \in Tasks : WF_vars(CaptionEnds(t))

FairSpec == Spec /\ Fairness

-----------------------------------------------------------------------------
(* Properties.                                                             *)

TypeOK ==
  /\ loop \in {"top", "wait", "expired", "failing", "drain", "exited", "raised"}
  /\ stop \in BOOLEAN
  /\ coming \subseteq Tasks
  /\ input \in Seq(Tasks)
  /\ get \in {"none", "waiting", "got"}
  /\ gotten \in Tasks \cup {None}
  /\ get = "got" <=> gotten # None
  /\ dropped \in Tasks \cup {None}
  /\ trackers \subseteq Tasks
  /\ caption \in [Tasks -> {"none", "running", "returned", "raised"}]
  /\ output \in Seq(Tasks)

\* How often a task is in the hands of the stage or out.  The result of get_task counts while
\* the loop can still register it.
Copies(t) ==
  Cardinality({i \in DOMAIN input : input[i] = t})
    + (IF gotten = t /\ loop \in {"top", "wait", "expired"} THEN 1 ELSE 0)
    + (IF t \in trackers THEN 1 ELSE 0)
    + Cardinality({i \in DOMAIN output : output[i] = t})

\* The 1-task-in / 1-task-out contract: no step loses or doubles a task that was offered, except
\* that a stop may drop one.  It is a task that get_task took in the very turn in which its wait
\* timed out, with stop_event set before the loop looked again: the comment at lines 1131-1132
\* says that a get() is never dropped, and the finally clause does drop this one.
OneInOneOut ==
  /\ \A t \in Tasks : Copies(t) = IF t \in coming \/ t = dropped THEN 0 ELSE 1
  /\ dropped # None => stop /\ loop \in {"drain", "exited", "raised"}

\* A task is on the output queue only when its captioning returned, never
\* when it raised and never while it may still write to the windows.
OutputIsComplete ==
  \A i \in DOMAIN output :
    output[i] \in Windowless \/ caption[output[i]] = "returned"

\* When run_continuous has returned, no caption task is left running in the
\* actor: destroy may shut the engine down.
NoCaptionAfterExit ==
  loop = "exited" => \A t \in Tasks : caption[t] # "running"

\* The first half of Drains.  After stop_event the stage ends, by itself or by raising.
StopEnds == stop ~> loop \in {"exited", "raised"}

\* The second half.  While the stage is neither stopped nor failed, every offered task comes
\* out: the input queue is not starved by captions or the other way round.
EventuallyOut ==
  \A t \in Tasks :
    (t \notin coming) ~> (t \in ToSet(output) \/ stop \/ loop = "raised")

\* The stage neither starves what was offered to it nor outlives its stop: a wait that times
\* out, or a caption that raises, loses neither a task nor the way to the end.
Drains == StopEnds /\ EventuallyOut
=============================================================================
