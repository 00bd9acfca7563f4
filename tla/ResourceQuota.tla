---------------------------- MODULE ResourceQuota ----------------------------
(***************************************************************************)
(* One invocation of the resource-quota function (cmd/resourcequota,       *)
(* internal/handlers): JobManager composed with one metric batcher per     *)
(* configured region and with HandleRequest, which adds the jobs, waits    *)
(* for the workers and then closes and waits for the batchers in turn.     *)
(*                                                                         *)
(* A batcher is a BatchProcessor; what that module decides by byte, count  *)
(* and tick is here "it may flush what it holds".                          *)
(***************************************************************************)
EXTENDS JobManager

CONSTANT Unmappable   \* metrics MapFunc rejects: json.Marshal fails on NaN

VARIABLES
  main,      \* where HandleRequest is
  mclosed,   \* the regions whose metric channel is closed
  bpc,       \* where each batcher is
  batch,     \* what each batcher has mapped and not flushed
  handed,    \* what each batcher gave to FlushFunc, in order
  shipped,   \* metrics CloudWatch Logs accepted
  reported   \* metrics an ERROR line was written for

batcherVars == <<bpc, batch, handed, shipped, reported>>
quotaVars == <<jobVars, main, mclosed, batcherVars>>

Init ==
  /\ JInit
  /\ main = "adding"
  /\ mclosed = {}
  /\ bpc = [r \in Configured |-> "select"]
  /\ batch = [r \in Configured |-> <<>>]
  /\ handed = [r \in Configured |-> <<>>]
  /\ shipped = {} /\ reported = {}

-----------------------------------------------------------------------------
(* HandleRequest and HandleEvent.                                          *)

AddJobs ==
  /\ main = "adding"
  /\ Enqueue \/ \E j \in Jobs : AddJob(j)
  /\ UNCHANGED <<main, mclosed, batcherVars>>

\* A client or a job that cannot be built ends the process while the workers
\* and the batchers are already at work: os.Exit waits for nobody.
Fatal ==
  /\ main = "adding" /\ adding = None
  /\ main' = "fatal"
  /\ UNCHANGED <<jobVars, mclosed, batcherVars>>

WaitJobs ==
  /\ main = "adding" /\ Wait
  /\ main' = "jobs"
  /\ UNCHANGED <<mclosed, batcherVars>>

\* Mutant: the batchers are closed without waiting for the workers.
JobsDoneEarly ==
  /\ main = "jobs"
  /\ main' = "batchers"
  /\ UNCHANGED <<jobVars, mclosed, batcherVars>>

JobsDone ==
  /\ main = "jobs" /\ AllExited
  /\ main' = "batchers"
  /\ UNCHANGED <<jobVars, mclosed, batcherVars>>

\* Range over the batchers: Wait closes one channel and returns when that
\* batcher is done, then the next one is closed.
CloseBatcher(r) ==
  /\ main = "batchers" /\ r \notin mclosed
  /\ \A s \in mclosed : bpc[s] = "exited"
  /\ mclosed' = mclosed \cup {r}
  /\ UNCHANGED <<jobVars, main, batcherVars>>

\* Mutant: the channels are closed, the batchers are not waited for.
ReturnEarly ==
  /\ main = "batchers" /\ mclosed = Configured
  /\ main' = "returned"
  /\ UNCHANGED <<jobVars, mclosed, batcherVars>>

\* HandleEvent returns nil whatever happened to the jobs and the batches.
Return ==
  /\ main = "batchers" /\ mclosed = Configured
  /\ \A s \in mclosed : bpc[s] = "exited"
  /\ main' = "returned"
  /\ UNCHANGED <<jobVars, mclosed, batcherVars>>

-----------------------------------------------------------------------------
(* The batcher of region r.                                                *)

BatcherReceive(r) ==
  /\ bpc[r] = "select"
  /\ Receive(r)
  /\ LET m == Head(ch[r]) IN
       \/ /\ m \notin Unmappable
          /\ batch' = [batch EXCEPT ![r] = Append(@, m)]
          /\ UNCHANGED reported
       \/ /\ m \in Unmappable
          /\ reported' = reported \cup {m}
          /\ UNCHANGED batch
  /\ UNCHANGED <<main, mclosed, bpc, handed, shipped>>

\* FlushFunc is called, on a tick, for a limit, or on the way out.
CallFlush(r, from, to) ==
  /\ bpc[r] = from /\ batch[r] # <<>>
  /\ bpc' = [bpc EXCEPT ![r] = to]
  /\ handed' = [handed EXCEPT ![r] = @ \o batch[r]]
  /\ UNCHANGED <<jobVars, main, mclosed, batch, shipped, reported>>

LeaveReasonEarly(r) == done \/ r \in mclosed   \* mutant: the channel is not drained

LeaveReasonDoneOnly(r) == done   \* mutant: the loop goes on when the channel is closed

LeaveReason(r) == done \/ (r \in mclosed /\ ch[r] = <<>>)

BatcherFlush(r) ==
  \/ CallFlush(r, "select", "flushing")
  \/ LeaveReason(r) /\ CallFlush(r, "select", "finalFlush")

\* PutLogEvents succeeds only under a live context.
FlushReturns(r) ==
  /\ bpc[r] \in {"flushing", "finalFlush"}
  /\ \/ /\ ~done
        /\ shipped' = shipped \cup ToSet(batch[r])
        /\ UNCHANGED reported
     \/ /\ reported' = reported \cup ToSet(batch[r])
        /\ UNCHANGED shipped
  /\ batch' = [batch EXCEPT ![r] = <<>>]
  /\ bpc' = [bpc EXCEPT ![r] = IF @ = "flushing" THEN "select" ELSE "exited"]
  /\ UNCHANGED <<jobVars, main, mclosed, handed>>

\* Mutant: the batcher leaves without its last flush.
BatcherExitNoFlush(r) ==
  /\ bpc[r] = "select" /\ LeaveReason(r)
  /\ bpc' = [bpc EXCEPT ![r] = "exited"]
  /\ UNCHANGED <<jobVars, main, mclosed, batch, handed, shipped, reported>>

BatcherExit(r) ==
  /\ bpc[r] = "select" /\ batch[r] = <<>> /\ LeaveReason(r)
  /\ bpc' = [bpc EXCEPT ![r] = "exited"]
  /\ UNCHANGED <<jobVars, main, mclosed, batch, handed, shipped, reported>>

Batcher(r) == BatcherReceive(r) \/ BatcherFlush(r) \/ FlushReturns(r) \/ BatcherExit(r)

-----------------------------------------------------------------------------
Pool == /\ Cancel \/ \E w \in Workers : Work(w)
        /\ UNCHANGED <<main, mclosed, batcherVars>>

\* Nothing runs after os.Exit.
Next == /\ main # "fatal"
        /\ \/ AddJobs \/ Fatal \/ WaitJobs \/ JobsDone \/ Return
           \/ \E r \in Configured : CloseBatcher(r) \/ Batcher(r)
           \/ Pool

Spec == Init /\ [][Next]_quotaVars

WorkerStep(w) == Work(w) /\ UNCHANGED <<main, mclosed, batcherVars>>
Handler == WaitJobs \/ JobsDone \/ Return \/ \E r \in Configured : CloseBatcher(r)

\* Every goroutine that can take a step eventually does, so AWS calls return.
\* Jobs and metrics are finite and a flush needs a nonempty batch, so no
\* fairness among the cases of a select is needed.
Fairness == /\ WF_quotaVars(Handler)
            /\ \A w \in Workers : WF_quotaVars(WorkerStep(w))
            /\ \A r \in Configured : WF_quotaVars(Batcher(r))

LiveSpec == Spec /\ Fairness

-----------------------------------------------------------------------------
(* Properties.                                                             *)

\* Types of the variables this module adds; a batcher that is gone holds nothing.
QuotaTypeOK ==
  /\ main \in {"adding", "jobs", "batchers", "returned", "fatal"}
  /\ mclosed \subseteq Configured
  /\ bpc \in [Configured -> {"select", "flushing", "finalFlush", "exited"}]
  /\ batch \in [Configured -> Seq(Metric)]
  /\ \A r \in Configured : bpc[r] = "exited" => batch[r] = <<>>
  /\ shipped \subseteq Metric /\ reported \subseteq Metric

\* No worker can reach a send once its region's channel is closed: a send on
\* a closed channel would panic and lose every batch of the invocation.
NoSendOnClosed ==
  \A w \in Workers :
     wpc[w] # "exited" => mclosed = {}

\* When the handler has returned without a cancellation, every metric of
\* every job that was added is in CloudWatch Logs or was reported by an ERROR
\* line, or its job was: nothing is dropped in silence between a worker and
\* CloudWatch, in any of the channels and batches on the way.
ReturnMeansReported ==
  (main = "returned" /\ ~done) =>
     \A j \in added :
        j \in failed \/ Metrics(j) \subseteq shipped \cup reported \cup unrouted

\* What the goroutines wait for: AddJob and the two Waits of the handler, a
\* worker's two selects, a batcher's select with nothing to flush.
HandlerWaits ==
  \/ main = "adding" /\ adding # None /\ Len(jobCh) >= JobBuffer
  \/ main = "jobs" /\ ~AllExited
  \/ main = "batchers" /\ \E s \in mclosed : bpc[s] # "exited"
WorkerWaits(w) ==
  \/ wpc[w] = "exited"
  \/ wpc[w] = "select" /\ ~done /\ ~jobClosed /\ jobCh = <<>>
  \/ wpc[w] = "sending" /\ ~done /\ Len(ch[RegionOf[job[w]]]) >= MetricBuffer
BatcherWaits(r) ==
  \/ bpc[r] = "exited"
  \/ bpc[r] = "select" /\ ch[r] = <<>> /\ batch[r] = <<>> /\ ~LeaveReason(r)

\* Handler, workers and batchers never all wait for one another, through two
\* kinds of bounded channels and their closing, with one exception: AddJob
\* sends without its context, to workers that a cancellation made leave.
StuckOnlyInAddJob ==
  (HandlerWaits /\ (\A w \in Workers : WorkerWaits(w)) /\ \A r \in Configured : BatcherWaits(r)) =>
     main = "adding" /\ done /\ AllExited

\* Once it waits for the jobs the invocation ends, cancelled or not.
HandlerReturns == main = "jobs" ~> main = "returned"
=============================================================================
