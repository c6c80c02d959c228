----------------------------- MODULE NvcfClient -----------------------------
(***************************************************************************)
(* The command line client of the NVCF service: a batch of invocations     *)
(* (client/nvcf_cli/ncf/launcher/nvcf_helper.py, common/nvcf_client.py).   *)
(* A pool of threads works on the jobs of a batch, each against the        *)
(* function it was dealt.  A thread posts the invocation, and asks for the *)
(* status of the request until it is over; what fails on the way is tried  *)
(* again, or not.  The functions run one pipeline at a time, and refuse    *)
(* others (see NvcfService); answers may get lost, containers may restart  *)
(* and forget, and requests may be terminated.                             *)
(***************************************************************************)
EXTENDS Naturals, FiniteSets

CONSTANTS MaxJobs, MaxFuncs, RetryCnt

VARIABLES
  jobs,     \* number of jobs of the batch
  funcs,    \* number of functions, with id and version
  temp,     \* the data of the jobs is in temporary files, one per variant
  batch,    \* setup, running, ok, raised
  files,    \* the temporary files are there
  step,       \* of a job: waiting, invoke, posted, poll, ok or raised
  cnt,      \* retries that a job has left
  tries,    \* invocations that were posted for the job
  server,   \* of an attempt: none, running, done, failed or gone
  unknown,  \* attempts of which the client did not get the answer, or the output
  unsure,   \* jobs whose status came back as nothing, which ends the wait for them
  fails,    \* failures that the job met
  final     \* jobs given up for an error that is not retried

vars == <<jobs, funcs, temp, batch, files, step, cnt, tries, server, unknown, unsure, fails, final>>
cmdline == <<jobs, funcs, temp>>


Jobs     == 1..jobs
Attempts == (1..MaxJobs) \X (1..RetryCnt)
Last(j)  == <<j, tries[j]>>

\* target = id_list[idx % id_len]
FuncOf(j) == ((j - 1) % funcs) + 1

Running(f) == {a \in Attempts : a[1] <= jobs /\ FuncOf(a[1]) = f /\ server[a] = "running"}

AtWork  == {j \in Jobs : step[j] \in {"invoke", "posted", "poll"}}
Workers == IF funcs < jobs THEN funcs ELSE jobs

Init ==
  /\ jobs \in 1..MaxJobs /\ funcs \in 0..MaxFuncs
  /\ temp \in BOOLEAN /\ (~temp => jobs = 1)
  /\ batch = "setup" /\ files = FALSE
  /\ step = [j \in 1..MaxJobs |-> "waiting"]
  /\ cnt = [j \in 1..MaxJobs |-> RetryCnt]
  /\ tries = [j \in 1..MaxJobs |-> 0]
  /\ server = [a \in Attempts |-> "none"]
  /\ unknown = {} /\ unsure = {} /\ fails = [j \in 1..MaxJobs |-> 0] /\ final = {}

-----------------------------------------------------------------------------
(* The batch                                                               *)

\* The data of the variants is written first; without a function the batch is refused, and the
\* files stay.
Prepare ==
  /\ batch = "setup"
  /\ files' = temp
  /\ batch' = IF funcs = 0 THEN "raised" ELSE "running"
  /\ UNCHANGED <<cmdline, step, cnt, tries, server, unknown, unsure, fails, final>>

\* The pool takes the jobs in order.
Begin(j) ==
  /\ batch = "running" /\ step[j] = "waiting"
  /\ \A k \in 1..(j - 1) : step[k] # "waiting"
  /\ Cardinality(AtWork) < Workers
  /\ step' = [step EXCEPT ![j] = "invoke"]
  /\ UNCHANGED <<cmdline, batch, files, cnt, tries, server, unknown, unsure, fails, final>>

\* Mutant: the batch does not wait for the others when one job has raised
CleanUpEarly ==
  /\ batch = "running"
  /\ \/ \A j \in Jobs : step[j] \in {"ok", "raised"}
     \/ \E j \in Jobs : step[j] = "raised"
  /\ files' = FALSE
  /\ batch' = IF \A j \in Jobs : step[j] = "ok" THEN "ok" ELSE "raised"
  /\ UNCHANGED <<cmdline, step, cnt, tries, server, unknown, unsure, fails, final>>

\* The executor is left when all jobs have ended, whatever one of them raised; then the
\* temporary files go.
CleanUp ==
  /\ batch = "running"
  /\ \A j \in Jobs : step[j] \in {"ok", "raised"}
  /\ files' = FALSE
  /\ batch' = IF \A j \in Jobs : step[j] = "ok" THEN "ok" ELSE "raised"
  /\ UNCHANGED <<cmdline, step, cnt, tries, server, unknown, unsure, fails, final>>

-----------------------------------------------------------------------------
(* One job: nvcf_helper_invoke_wait_retry_function                         *)

\* ValueError and RuntimeError of the invocation, and what no clause catches later on
GiveUp(j) ==
  /\ step' = [step EXCEPT ![j] = "raised"] /\ final' = final \cup {j}
  /\ UNCHANGED <<cnt, fails>>

\* A failure that takes one of the retries, and where the job goes on if one is left
Retry(j, at) ==
  /\ cnt' = [cnt EXCEPT ![j] = @ - 1] /\ fails' = [fails EXCEPT ![j] = @ + 1]
  /\ step' = [step EXCEPT ![j] = IF cnt[j] = 1 THEN "raised" ELSE at]
  /\ UNCHANGED final

\* The data is read; the service admits the pipeline, refuses it while the function runs another
\* one (429), or the call is refused before (no such function, no credentials, a server error).
Post(j) ==
  /\ step[j] = "invoke"
  /\ tries' = [tries EXCEPT ![j] = @ + 1]
  /\ LET a == <<j, tries[j] + 1>>
     IN  \/ /\ temp => files
            /\ Running(FuncOf(j)) = {}
            /\ server' = [server EXCEPT ![a] = "running"]
            /\ step' = [step EXCEPT ![j] = "posted"]
            /\ UNCHANGED <<cnt, fails, final>>
         \/ GiveUp(j) /\ UNCHANGED server
  /\ UNCHANGED <<cmdline, batch, files, unknown, unsure>>

\* The call does not reach the service, or waits in the queue of the gateway until it is
\* dropped: a gateway timeout or an error of the connection
PostLost(j) ==
  /\ step[j] = "invoke" /\ (temp => files)
  /\ tries' = [tries EXCEPT ![j] = @ + 1]
  /\ Retry(j, "invoke")
  /\ UNCHANGED <<cmdline, batch, files, server, unknown, unsure>>

\* The pipeline still runs when the client has waited its time: it gets the request id.
AnswerPending(j) ==
  /\ step[j] = "posted" /\ server[Last(j)] = "running"
  /\ step' = [step EXCEPT ![j] = "poll"]
  /\ UNCHANGED <<cmdline, batch, files, cnt, tries, server, unknown, unsure, fails, final>>

AnswerDone(j) ==
  /\ step[j] = "posted" /\ server[Last(j)] = "done"
  /\ step' = [step EXCEPT ![j] = "ok"]
  /\ UNCHANGED <<cmdline, batch, files, cnt, tries, server, unknown, unsure, fails, final>>

\* A pipeline that fails while the call is held is a server error: RuntimeError, no retry.
AnswerFailed(j) ==
  /\ step[j] = "posted" /\ server[Last(j)] \in {"failed", "gone"}
  /\ GiveUp(j)
  /\ UNCHANGED <<cmdline, batch, files, tries, server, unknown, unsure>>

\* A timeout of the gateway, a broken connection, or an output that cannot be downloaded: the
\* request is invoked again, though the first one may run, or be done.
AnswerLost(j) ==
  /\ step[j] = "posted"
  /\ unknown' = unknown \cup {Last(j)}
  /\ Retry(j, "invoke")
  /\ UNCHANGED <<cmdline, batch, files, tries, server, unsure>>

\* Mutant: the status is that of the call that asks, not that of the request asked for
PollDoneOfCall(j) ==
  /\ step[j] = "poll" /\ server[Last(j)] \in {"done", "running"}
  /\ step' = [step EXCEPT ![j] = "ok"]
  /\ UNCHANGED <<cmdline, batch, files, cnt, tries, server, unknown, unsure, fails, final>>

\* The status is fulfilled or done.  Fetching an asset is tried once more, and not required.
PollDone(j) ==
  /\ step[j] = "poll" /\ server[Last(j)] = "done"
  /\ step' = [step EXCEPT ![j] = "ok"]
  /\ UNCHANGED <<cmdline, batch, files, cnt, tries, server, unknown, unsure, fails, final>>

\* The answer has neither headers nor an error: the status is None, the wait ends, and the job
\* returns as one that is done does.
PollNothing(j) ==
  /\ step[j] = "poll"
  /\ step' = [step EXCEPT ![j] = "ok"]
  /\ unsure' = unsure \cup {j}
  /\ UNCHANGED <<cmdline, batch, files, cnt, tries, server, unknown, fails, final>>

\* Mutant: the count is not put back before the whole request is tried again
PollFailedTwice(j) ==
  /\ step[j] = "poll" /\ server[Last(j)] = "failed"
  /\ cnt' = [cnt EXCEPT ![j] = IF @ = 1 THEN 0 ELSE @ - 2]
  /\ fails' = [fails EXCEPT ![j] = @ + 1]
  /\ step' = [step EXCEPT ![j] = IF cnt[j] <= 2 THEN "raised" ELSE "invoke"]
  /\ UNCHANGED <<cmdline, batch, files, tries, server, unknown, unsure, final>>

\* The request has failed (CloudError): it is invoked again as a whole.
PollFailed(j) ==
  /\ step[j] = "poll" /\ server[Last(j)] = "failed"
  /\ Retry(j, "invoke")
  /\ UNCHANGED <<cmdline, batch, files, tries, server, unknown, unsure>>

\* Mutant: an error of the status check invokes the request again
PollErrorInvokes(j) ==
  /\ step[j] = "poll"
  /\ Retry(j, "invoke")
  /\ UNCHANGED <<cmdline, batch, files, tries, server, unknown, unsure>>

\* The status cannot be had: a timeout, a server error, or a container that does not know the
\* request.  The request is asked for again.
PollError(j) ==
  /\ step[j] = "poll"
  /\ Retry(j, "poll")
  /\ UNCHANGED <<cmdline, batch, files, tries, server, unknown, unsure>>

\* A broken connection while polling, or while fetching the asset, is caught by no clause.
PollBreaks(j) ==
  /\ step[j] = "poll"
  /\ GiveUp(j)
  /\ UNCHANGED <<cmdline, batch, files, tries, server, unknown, unsure>>

-----------------------------------------------------------------------------
(* The functions                                                           *)

\* A pipeline ends; it fails also when a client terminates it.
Ends(a) ==
  /\ server[a] = "running"
  /\ \E s \in {"done", "failed"} : server' = [server EXCEPT ![a] = s]
  /\ UNCHANGED <<cmdline, batch, files, step, cnt, tries, unknown, unsure, fails, final>>

\* The container is replaced, and with it its record of the request.
Vanishes(a) ==
  /\ server[a] = "running"
  /\ server' = [server EXCEPT ![a] = "gone"]
  /\ UNCHANGED <<cmdline, batch, files, step, cnt, tries, unknown, unsure, fails, final>>

Next ==
  \/ Prepare \/ CleanUp
  \/ \E j \in Jobs : \/ Begin(j) \/ Post(j) \/ PostLost(j)
                     \/ AnswerPending(j) \/ AnswerDone(j) \/ AnswerFailed(j) \/ AnswerLost(j)
                     \/ PollDone(j) \/ PollNothing(j) \/ PollFailed(j)
                     \/ PollError(j) \/ PollBreaks(j)
  \/ \E a \in Attempts : Ends(a) \/ Vanishes(a)

Spec == Init /\ [][Next]_vars

-----------------------------------------------------------------------------
Produced(j) == \E n \in 1..RetryCnt : server[<<j, n>>] = "done"

\* A job that ends well has a pipeline of its own that was done, or its status came back as
\* nothing: then the code does not know and says so to nobody, and no other way leads there.
OkIsDone == \A j \in Jobs : step[j] = "ok" => Produced(j) \/ j \in unsure

\* The work of a job is done, or under way, twice only if the client never got the answer, or the
\* output, of the first time.
NoDoubleWork ==
  \A j \in Jobs : \A m, n \in 1..RetryCnt :
    /\ m < n
    /\ server[<<j, m>>] \in {"running", "done"} /\ server[<<j, n>>] \in {"running", "done"}
    => <<j, m>> \in unknown

\* A job is given up after as many failures as it has retries, or for an error that the code
\* does not retry.
NotGivenUpEarly ==
  \A j \in Jobs : /\ fails[j] <= RetryCnt
                  /\ step[j] = "raised" /\ j \notin final => fails[j] = RetryCnt

\* No job is about to read data that was cleaned up, and nothing is left when a batch is over.
DataThere ==
  /\ batch = "running" => files = temp
  /\ batch # "running" /\ funcs > 0 => AtWork = {} /\ ~files

\* A batch reports of each job what it knows of it, and does no work twice that it knows of:
\* nvcf_helper_invoke_batch over threads, retries and lost answers.
BatchSound == OkIsDone /\ NoDoubleWork /\ NotGivenUpEarly /\ DataThere
=============================================================================
