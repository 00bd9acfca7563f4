------------------------------ MODULE JobManager ------------------------------
(***************************************************************************)
(* JobManager (internal/job): a bounded queue of jobs, a fixed pool of     *)
(* workers that execute them under a timeout and put the metrics they      *)
(* return on the channel of the job's region, and the goroutine that adds  *)
(* jobs and then waits for the workers.                                    *)
(*                                                                         *)
(* The receivers of the metric channels are the batch processors; here     *)
(* they only take what is there, and may stop once the context is done.    *)
(***************************************************************************)
EXTENDS Integers, Sequences, SequencesExt, FiniteSetsExt

CONSTANTS Workers,
          Jobs,
          Regions,
          Configured,      \* the regions metricMap has a channel for
          RegionOf,        \* Job.GetRegion()
          MetricsOf,       \* how many metrics a successful Execute returns
          JobBuffer,       \* DefaultBufferSize
          MetricBuffer,    \* capacity of a batch processor's input channel
          None

ASSUME JobManagerAssumption ==
  /\ Workers # {}   \* defaultWorkerCount is positive
  /\ Configured \subseteq Regions
  /\ RegionOf \in [Jobs -> Regions]
  /\ MetricsOf \in [Jobs -> Nat]
  /\ JobBuffer \in Nat \ {0}
  /\ MetricBuffer \in Nat \ {0}
  /\ None \notin Jobs

VARIABLES
  jobCh,       \* the buffer of the job channel
  jobClosed,   \* Wait has closed it
  done,        \* parentCtx is cancelled
  adding,      \* the job AddJob is sending, or None
  wpc,         \* where each worker is
  job,         \* the job each worker holds, or None
  next,        \* the number of the metric the worker dispatches next
  ch,          \* the buffer of each configured region's metric channel
  \* history
  added,       \* jobs AddJob was called with
  dropped,     \* jobs AddJob dropped
  executed,    \* executed[j]: how often a worker executed j
  failed,      \* jobs whose Execute returned an error (logged)
  sent,        \* metrics put on a channel, in order
  unrouted,    \* metrics dropped for want of a channel (logged)
  late         \* metrics each worker has sent since the cancellation

queueVars  == <<jobCh, jobClosed, adding, added, dropped>>
workerVars == <<wpc, job, next>>
metricVars == <<ch, sent, unrouted, late>>
jobVars == <<queueVars, done, workerVars, metricVars, executed, failed>>

JInit ==
  /\ jobCh = <<>> /\ jobClosed = FALSE /\ done = FALSE /\ adding = None
  /\ wpc = [w \in Workers |-> "started"]
  /\ job = [w \in Workers |-> None]
  /\ next = [w \in Workers |-> 1]
  /\ ch = [r \in Configured |-> <<>>]
  /\ added = {} /\ dropped = {}
  /\ executed = [j \in Jobs |-> 0]
  /\ failed = {} /\ sent = <<>> /\ unrouted = {}
  /\ late = [w \in Workers |-> 0]

\* The metrics a job returns.
Metrics(j) == {j} \X (1..MetricsOf[j])
Metric == UNION {Metrics(j) : j \in Jobs}

-----------------------------------------------------------------------------
(* The goroutine that adds the jobs.                                       *)

\* The context is looked at once; a live one leads to a send that blocks
\* while the buffer is full, and that a later cancellation does not end.
AddJob(j) ==
  /\ ~jobClosed /\ adding = None /\ j \notin added
  /\ added' = added \cup {j}
  /\ \/ /\ done
        /\ dropped' = dropped \cup {j}
        /\ UNCHANGED adding
     \/ /\ ~done
        /\ adding' = j
        /\ UNCHANGED dropped
  /\ UNCHANGED <<jobCh, jobClosed, done, workerVars, metricVars, executed, failed>>

\* Mutant: an unbounded queue.
EnqueueUnbounded ==
  /\ adding # None
  /\ jobCh' = Append(jobCh, adding)
  /\ adding' = None
  /\ UNCHANGED <<jobClosed, added, dropped, done, workerVars, metricVars,
                 executed, failed>>

Enqueue ==
  /\ adding # None
  /\ Len(jobCh) < JobBuffer
  /\ jobCh' = Append(jobCh, adding)
  /\ adding' = None
  /\ UNCHANGED <<jobClosed, added, dropped, done, workerVars, metricVars,
                 executed, failed>>

\* The same goroutine calls Wait after the last AddJob has returned.
Wait ==
  /\ ~jobClosed /\ adding = None
  /\ jobClosed' = TRUE
  /\ UNCHANGED <<jobCh, adding, added, dropped, done, workerVars, metricVars,
                 executed, failed>>

Cancel ==
  /\ ~done
  /\ done' = TRUE
  /\ UNCHANGED <<queueVars, workerVars, metricVars, executed, failed>>

-----------------------------------------------------------------------------
(* A worker.                                                               *)

Goto(w, from, to) == wpc[w] = from /\ wpc' = [wpc EXCEPT ![w] = to]

\* Mutant: the pool is started by Wait.
StartOnWait(w) ==
  /\ jobClosed
  /\ Goto(w, "started", "select")
  /\ UNCHANGED <<queueVars, done, job, next, metricVars, executed, failed>>

\* The explicit check before the loop.
Start(w) ==
  /\ \/ /\ done
        /\ Goto(w, "started", "exited")
     \/ /\ ~done
        /\ Goto(w, "started", "select")
  /\ UNCHANGED <<queueVars, done, job, next, metricVars, executed, failed>>

SelectDone(w) ==
  /\ done
  /\ Goto(w, "select", "exited")
  /\ UNCHANGED <<queueVars, done, job, next, metricVars, executed, failed>>

\* Mutant: a worker leaves as soon as the queue is closed.
SelectClosedEarly(w) ==
  /\ jobClosed
  /\ Goto(w, "select", "exited")
  /\ UNCHANGED <<queueVars, done, job, next, metricVars, executed, failed>>

SelectClosed(w) ==
  /\ jobClosed /\ jobCh = <<>>
  /\ Goto(w, "select", "exited")
  /\ UNCHANGED <<queueVars, done, job, next, metricVars, executed, failed>>

\* The select may still take a job when the context is done.
SelectJob(w) ==
  /\ jobCh # <<>>
  /\ Goto(w, "select", "executing")
  /\ job' = [job EXCEPT ![w] = Head(jobCh)]
  /\ jobCh' = Tail(jobCh)
  /\ executed' = [executed EXCEPT ![Head(jobCh)] = @ + 1]
  /\ UNCHANGED <<jobClosed, adding, added, dropped, done, next, metricVars, failed>>

\* Mutant: a failed job goes back to the queue.
ExecuteFailsRetries(w) ==
  /\ Goto(w, "executing", "select")
  /\ Len(jobCh) < JobBuffer
  /\ jobCh' = Append(jobCh, job[w])
  /\ job' = [job EXCEPT ![w] = None]
  /\ UNCHANGED <<jobClosed, adding, added, dropped, done, next, metricVars,
                 executed, failed>>

\* Execute fails: an AWS call failed, or the timeout or the cancellation hit.
ExecuteFails(w) ==
  /\ Goto(w, "executing", "select")
  /\ failed' = failed \cup {job[w]}
  /\ job' = [job EXCEPT ![w] = None]
  /\ UNCHANGED <<queueVars, done, next, metricVars, executed>>

ExecuteReturns(w) ==
  /\ Goto(w, "executing", "dispatch")
  /\ next' = [next EXCEPT ![w] = 1]
  /\ UNCHANGED <<queueVars, done, job, metricVars, executed, failed>>

Dispatched(w) == next[w] > MetricsOf[job[w]]

JobFinished(w) ==
  /\ Goto(w, "dispatch", "select")
  /\ Dispatched(w)
  /\ job' = [job EXCEPT ![w] = None]
  /\ UNCHANGED <<queueVars, done, next, metricVars, executed, failed>>

\* The head of the dispatch loop: a done context ends the worker, a region
\* without a channel is logged and its metric dropped.
DispatchInterrupted(w) ==
  /\ Goto(w, "dispatch", "exited")
  /\ ~Dispatched(w) /\ done
  /\ UNCHANGED <<queueVars, done, job, next, metricVars, executed, failed>>

NoChannel(w) ==
  /\ wpc[w] = "dispatch" /\ ~Dispatched(w) /\ ~done
  /\ RegionOf[job[w]] \notin Configured
  /\ unrouted' = unrouted \cup {<<job[w], next[w]>>}
  /\ next' = [next EXCEPT ![w] = @ + 1]
  /\ UNCHANGED <<queueVars, done, wpc, job, ch, sent, late, executed, failed>>

\* Mutant: no look at the context before the send.
StartSendUnchecked(w) ==
  /\ Goto(w, "dispatch", "sending")
  /\ ~Dispatched(w)
  /\ RegionOf[job[w]] \in Configured
  /\ UNCHANGED <<queueVars, done, job, next, metricVars, executed, failed>>

StartSend(w) ==
  /\ Goto(w, "dispatch", "sending")
  /\ ~Dispatched(w) /\ ~done
  /\ RegionOf[job[w]] \in Configured
  /\ UNCHANGED <<queueVars, done, job, next, metricVars, executed, failed>>

\* Mutant: the metric is sent again in the next round.
SendKeepsIndex(w) ==
  /\ Goto(w, "sending", "dispatch")
  /\ LET r == RegionOf[job[w]]  m == <<job[w], next[w]>> IN
       /\ Len(ch[r]) < MetricBuffer /\ Len(sent) < 4
       /\ ch' = [ch EXCEPT ![r] = Append(@, m)]
       /\ sent' = Append(sent, m)
  /\ UNCHANGED <<queueVars, done, job, next, unrouted, late, executed, failed>>

\* The inner select: room in the channel, or the context is done; when both
\* are ready either may be chosen.
Send(w) ==
  /\ wpc[w] = "sending"
  /\ LET r == RegionOf[job[w]]  m == <<job[w], next[w]>> IN
       /\ Len(ch[r]) < MetricBuffer
       /\ ch' = [ch EXCEPT ![r] = Append(@, m)]
       /\ sent' = Append(sent, m)
  /\ late' = [late EXCEPT ![w] = IF done THEN @ + 1 ELSE @]
  /\ next' = [next EXCEPT ![w] = @ + 1]
  /\ wpc' = [wpc EXCEPT ![w] = "dispatch"]
  /\ UNCHANGED <<queueVars, done, job, unrouted, executed, failed>>

SendUninterruptible(w) == wpc[w] = "sending" /\ UNCHANGED jobVars   \* mutant

SendInterrupted(w) ==
  /\ done
  /\ Goto(w, "sending", "exited")
  /\ UNCHANGED <<queueVars, done, job, next, metricVars, executed, failed>>

Work(w) == \/ Start(w) \/ SelectDone(w) \/ SelectClosed(w) \/ SelectJob(w)
           \/ ExecuteFails(w) \/ ExecuteReturns(w) \/ JobFinished(w)
           \/ DispatchInterrupted(w) \/ NoChannel(w) \/ StartSend(w)
           \/ Send(w) \/ SendInterrupted(w)

\* A batch processor receives.
Receive(r) ==
  /\ ch[r] # <<>>
  /\ ch' = [ch EXCEPT ![r] = Tail(@)]
  /\ UNCHANGED <<queueVars, done, workerVars, sent, unrouted, late, executed, failed>>

JNext == \/ \E j \in Jobs : AddJob(j)
         \/ Enqueue \/ Wait \/ Cancel
         \/ \E w \in Workers : Work(w)
         \/ \E r \in Configured : Receive(r)

JSpec == JInit /\ [][JNext]_jobVars

\* Workers run and Execute returns, at the latest at its timeout.  Jobs and
\* metrics are finite, so no fairness among the cases of a select is needed.
\* The receivers promise to receive only while the context is live.
JFairness == /\ \A w \in Workers : WF_jobVars(Work(w))
             /\ WF_jobVars(Enqueue)
             /\ \A r \in Configured : WF_jobVars(~done /\ Receive(r))

JLiveSpec == JSpec /\ JFairness

-----------------------------------------------------------------------------
(* Properties.                                                             *)

WorkerPCs == {"started", "select", "executing", "dispatch", "sending", "exited"}

\* Types, and the sizes of the buffers.
JTypeOK ==
  /\ jobCh \in Seq(Jobs) /\ Len(jobCh) <= JobBuffer
  /\ jobClosed \in BOOLEAN /\ done \in BOOLEAN
  /\ adding \in Jobs \cup {None}
  /\ wpc \in [Workers -> WorkerPCs]
  /\ job \in [Workers -> Jobs \cup {None}]
  /\ next \in [Workers -> Nat \ {0}]
  /\ ch \in [Configured -> Seq(Metric)]
  /\ \A r \in Configured : Len(ch[r]) <= MetricBuffer
  /\ added \subseteq Jobs /\ dropped \subseteq Jobs /\ failed \subseteq Jobs
  /\ executed \in [Jobs -> Nat]
  /\ sent \in Seq(Metric) /\ unrouted \subseteq Metric
  /\ late \in [Workers -> Nat]

AllExited == \A w \in Workers : wpc[w] = "exited"

\* A job is executed at most once and by one worker, however many workers
\* compete for the queue; one that was added is dropped, waiting or executed.
ExecutedOnce ==
  /\ \A j \in Jobs : executed[j] <= 1
  /\ added = dropped \cup ({adding} \ {None}) \cup ToSet(jobCh)
               \cup {j \in Jobs : executed[j] = 1}
  /\ \A v, w \in Workers : job[v] = job[w] => job[v] = None \/ v = w

\* When Wait returns and the context was never cancelled, every added job
\* either failed, or every one of its metrics went once to the channel of its
\* region, or was reported because there is none.
WaitMeansDispatched ==
  (AllExited /\ ~done) =>
     \A j \in added : \/ j \in failed
                      \/ RegionOf[j] \in Configured /\ Metrics(j) \subseteq ToSet(sent)
                      \/ RegionOf[j] \notin Configured /\ Metrics(j) \subseteq unrouted

\* No metric is sent twice, none of a failed job, and a job's metrics arrive
\* in the order Execute returned them.
SentOnceInOrder ==
  \A k \in 1..Len(sent) :
     /\ sent[k][1] \notin failed
     /\ \A i \in 1..(k - 1) : sent[i][1] = sent[k][1] => sent[i][2] < sent[k][2]

\* Cancellation stops the dispatch: of the metrics a worker still holds at
\* most the one its select was sending gets out.
AtMostOneLate == \A w \in Workers : late[w] <= 1

\* Wait returns: every worker exits once the queue is closed, even with
\* failing jobs, full channels or a cancellation in between.
WaitReturns == jobClosed ~> AllExited

\* AddJob returns; only a cancellation after its check can leave it blocked.
AddJobReturns == adding # None ~> adding = None \/ done
=============================================================================
