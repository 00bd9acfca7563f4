------------------------- MODULE ResourceQuota_proofs -------------------------
(***************************************************************************)
(* Theorems about JobManager and about an invocation of the resource-quota *)
(* function, for every set of workers, jobs and regions and every capacity *)
(* of the channels.  First the pool alone: jobs run once, and their        *)
(* metrics are sent once and in order.  Then the invocation: its pool is   *)
(* JobManager, no worker meets a closed channel, each batcher is a stream, *)
(* nothing is dropped in silence on the way to CloudWatch, and the         *)
(* goroutines do not all wait for one another.                             *)
(***************************************************************************)
EXTENDS RegionStream, SequenceFacts, TLAPS

-----------------------------------------------------------------------------
(* The pool alone: its inductive invariant, a part for each question.      *)

\* What a worker holds at each of its points, and why one has left.
WorkerShape ==
  /\ jobClosed => adding = None
  /\ \A w \in Workers :
       /\ wpc[w] \in {"started", "select"} => job[w] = None
       /\ wpc[w] \in {"executing", "dispatch", "sending"} => job[w] # None
       /\ wpc[w] = "sending" => next[w] <= MetricsOf[job[w]] /\ RegionOf[job[w]] \in Configured
       /\ wpc[w] = "exited" => done \/ (job[w] = None /\ jobClosed /\ jobCh = <<>>)

\* Where a job is: with AddJob, in the queue, or with the one worker that has
\* executed it.
JobPlace ==
  /\ \A j \in Jobs : executed[j] \in {0, 1}
  /\ added = dropped \cup ({adding} \ {None}) \cup ToSet(jobCh)
               \cup {j \in Jobs : executed[j] = 1}
  /\ Distinct(jobCh)
  /\ \A j \in ToSet(jobCh) : executed[j] = 0
  /\ adding # None => adding \notin ToSet(jobCh) /\ executed[adding] = 0
  /\ \A w \in Workers : job[w] # None => executed[job[w]] = 1 /\ job[w] \notin failed
  /\ \A v, w \in Workers : job[v] = job[w] => job[v] = None \/ v = w
  /\ \A j \in failed : executed[j] = 1

\* What has been sent of a job lies below the next index of its worker.
SentBelow ==
  /\ SentOnceInOrder
  /\ \A k \in 1..Len(sent) : executed[sent[k][1]] = 1
  /\ \A w \in Workers : \A k \in 1..Len(sent) :
       sent[k][1] = job[w] => wpc[w] # "executing" /\ sent[k][2] < next[w]

\* A metric has reached the channel of its region, or is reported.
Placed(j, n) == IF RegionOf[j] \in Configured THEN <<j, n>> \in ToSet(sent)
                                              ELSE <<j, n>> \in unrouted

\* An executed job is still with a worker, failed, or has placed its metrics;
\* of the metrics a worker dispatches, those below the next index are placed.
Progress ==
  /\ dropped # {} => done
  /\ \A w \in Workers : wpc[w] \in {"dispatch", "sending"} =>
       \A n \in Nat \ {0} : n < next[w] => Placed(job[w], n)
  /\ \A j \in Jobs : executed[j] = 1 =>
       \/ j \in failed
       \/ \E w \in Workers : job[w] = j
       \/ \A n \in 1..MetricsOf[j] : Placed(j, n)

\* A worker that has sent since the cancellation does not send again.
LateShape ==
  \A w \in Workers : /\ late[w] <= 1
                     /\ ~done \/ wpc[w] = "sending" => late[w] = 0

JInv == JTypeOK /\ WorkerShape /\ JobPlace /\ SentBelow /\ Progress /\ LateShape

-----------------------------------------------------------------------------
(* Types.                                                                  *)

\* A job and one of its numbers are a metric, and every metric is that.
LEMMA MetricPairs ==
  /\ \A j \in Jobs : \A n \in 1..MetricsOf[j] : <<j, n>> \in Metric
  /\ \A m \in Metric : m[1] \in Jobs /\ m[2] \in 1..MetricsOf[m[1]] /\ m = <<m[1], m[2]>>
  BY JobManagerAssumption DEF Metric, Metrics

\* The metric a worker is about to send or to report.
LEMMA NextMetric ==
  ASSUME JTypeOK, NEW w \in Workers, job[w] # None, next[w] <= MetricsOf[job[w]]
  PROVE  /\ job[w] \in Jobs /\ next[w] \in Nat \ {0} /\ MetricsOf[job[w]] \in Nat
         /\ <<job[w], next[w]>> \in Metric
<1>1. job[w] \in Jobs /\ next[w] \in Nat \ {0} /\ MetricsOf[job[w]] \in Nat
  BY JobManagerAssumption DEF JTypeOK
<1>2. next[w] \in 1..MetricsOf[job[w]]
  BY <1>1
<1> QED BY <1>1, <1>2, MetricPairs

\* The pool starts in the invariant.
LEMMA JInitInv == JInit => JInv
<1> SUFFICES ASSUME JInit PROVE JInv
  OBVIOUS
<1>1. /\ <<>> \in Seq(Jobs) /\ <<>> \in Seq(Metric) /\ Len(<<>>) = 0
      /\ ToSet(<<>>) = {} /\ Distinct(<<>>)
  <2>1. <<>> \in Seq(Jobs) /\ <<>> \in Seq(Metric) /\ Len(<<>>) = 0
    BY EmptySeq
  <2>2. ToSet(<<>>) = {}
    BY <2>1, ElementsEmpty
  <2>3. Distinct(<<>>)
    BY <2>1 DEF Distinct
  <2> QED BY <2>1, <2>2, <2>3
<1>2. JTypeOK
  <2>1. /\ wpc \in [Workers -> WorkerPCs] /\ job \in [Workers -> Jobs \cup {None}]
        /\ next \in [Workers -> Nat \ {0}] /\ late \in [Workers -> Nat]
        /\ executed \in [Jobs -> Nat]
    BY DEF JInit, WorkerPCs
  <2>2. ch \in [Configured -> Seq(Metric)] /\ \A r \in Configured : Len(ch[r]) <= MetricBuffer
    BY <1>1, JobManagerAssumption DEF JInit
  <2>3. jobCh \in Seq(Jobs) /\ Len(jobCh) <= JobBuffer /\ sent \in Seq(Metric)
    BY <1>1, JobManagerAssumption DEF JInit
  <2> QED BY <2>1, <2>2, <2>3 DEF JInit, JTypeOK
<1>3. WorkerShape
  BY DEF JInit, WorkerShape
<1>4. JobPlace
  BY <1>1 DEF JInit, JobPlace
<1>5. SentBelow
  BY <1>1 DEF JInit, SentBelow, SentOnceInOrder
<1>6. Progress
  BY DEF JInit, Progress
<1>7. LateShape
  BY DEF JInit, LateShape
<1> QED BY <1>2, <1>3, <1>4, <1>5, <1>6, <1>7 DEF JInv

\* The goroutine that adds jobs keeps the types.
LEMMA AdderTypes ==
  ASSUME JTypeOK, (\E j \in Jobs : AddJob(j)) \/ Enqueue \/ Wait \/ Cancel
  PROVE  JTypeOK'
<1>1. CASE Enqueue
  <2>1. adding \in Jobs /\ jobCh \in Seq(Jobs)
    BY <1>1 DEF Enqueue, JTypeOK
  <2>2. jobCh' \in Seq(Jobs) /\ Len(jobCh') <= JobBuffer
    BY <1>1, <2>1, AppendProperties, LenProperties, JobManagerAssumption DEF Enqueue
  <2> QED BY <1>1, <2>2 DEF Enqueue, JTypeOK, workerVars, metricVars
<1>2. CASE (\E j \in Jobs : AddJob(j)) \/ Wait \/ Cancel
  BY <1>2 DEF AddJob, Wait, Cancel, JTypeOK, queueVars, workerVars, metricVars
<1> QED BY <1>1, <1>2

\* A worker's steps keep the types.
LEMMA WorkerTypes ==
  ASSUME JTypeOK, WorkerShape, NEW w \in Workers, Work(w)
  PROVE  JTypeOK'
<1>1. CASE Start(w) \/ SelectDone(w) \/ SelectClosed(w) \/ DispatchInterrupted(w)
           \/ StartSend(w) \/ SendInterrupted(w)
  BY <1>1
  DEF Start, SelectDone, SelectClosed, DispatchInterrupted, StartSend, SendInterrupted, Goto,
      JTypeOK, WorkerPCs, queueVars, metricVars
<1>2. CASE SelectJob(w)
  <2>1. Head(jobCh) \in Jobs /\ Tail(jobCh) \in Seq(Jobs) /\ Len(Tail(jobCh)) <= JobBuffer
    <3>1. jobCh \in Seq(Jobs) /\ jobCh # <<>> /\ Len(jobCh) <= JobBuffer
      BY <1>2 DEF SelectJob, JTypeOK
    <3> QED BY <3>1, HeadTailProperties, LenProperties, JobManagerAssumption
  <2> QED BY <1>2, <2>1 DEF SelectJob, Goto, JTypeOK, WorkerPCs, metricVars
<1>3. CASE ExecuteFails(w) \/ JobFinished(w)
  BY <1>3 DEF ExecuteFails, JobFinished, Goto, JTypeOK, WorkerPCs, WorkerShape, queueVars, metricVars
<1>4. CASE ExecuteReturns(w)
  BY <1>4 DEF ExecuteReturns, Goto, JTypeOK, WorkerPCs, queueVars, metricVars
<1>5. CASE NoChannel(w)
  <2>1. job[w] # None /\ next[w] <= MetricsOf[job[w]]
    BY <1>5, JobManagerAssumption DEF NoChannel, Dispatched, WorkerShape, JTypeOK
  <2>2. <<job[w], next[w]>> \in Metric /\ next[w] + 1 \in Nat \ {0}
    BY <2>1, NextMetric
  <2> QED BY <1>5, <2>2 DEF NoChannel, JTypeOK, queueVars
<1>6. CASE Send(w)
  <2> DEFINE r == RegionOf[job[w]]
             m == <<job[w], next[w]>>
  <2>1. m \in Metric /\ r \in Configured /\ next[w] + 1 \in Nat \ {0}
    BY <1>6, NextMetric DEF Send, WorkerShape
  <2>2. /\ sent' = Append(sent, m) /\ ch' = [ch EXCEPT ![r] = Append(@, m)]
        /\ Len(ch[r]) < MetricBuffer /\ ch[r] \in Seq(Metric) /\ sent \in Seq(Metric)
    BY <1>6, <2>1 DEF Send, JTypeOK
  <2>3. /\ Append(sent, m) \in Seq(Metric) /\ Append(ch[r], m) \in Seq(Metric)
        /\ Len(Append(ch[r], m)) <= MetricBuffer
    BY <2>1, <2>2, AppendProperties, LenProperties, JobManagerAssumption
  <2> HIDE DEF r, m
  <2>4. ch' \in [Configured -> Seq(Metric)] /\ \A s \in Configured : Len(ch'[s]) <= MetricBuffer
    BY <2>1, <2>2, <2>3 DEF JTypeOK
  <2>5. late' \in [Workers -> Nat]
    BY <1>6 DEF Send, JTypeOK
  <2>6. /\ next' = [next EXCEPT ![w] = @ + 1] /\ wpc' = [wpc EXCEPT ![w] = "dispatch"]
        /\ UNCHANGED <<queueVars, done, job, unrouted, executed, failed>>
    BY <1>6 DEF Send
  <2> QED BY <2>1, <2>2, <2>3, <2>4, <2>5, <2>6 DEF JTypeOK, WorkerPCs, queueVars
<1> QED BY <1>1, <1>2, <1>3, <1>4, <1>5, <1>6 DEF Work

\* A receiver takes the head of a channel.
LEMMA ReceiveTypes ==
  ASSUME JTypeOK, NEW r \in Configured, Receive(r)
  PROVE  JTypeOK'
<1>1. ch[r] \in Seq(Metric) /\ ch[r] # <<>> /\ Len(ch[r]) <= MetricBuffer
  BY DEF Receive, JTypeOK
<1>2. Tail(ch[r]) \in Seq(Metric) /\ Len(Tail(ch[r])) <= MetricBuffer
  BY <1>1, HeadTailProperties, LenProperties, JobManagerAssumption
<1> QED BY <1>2 DEF Receive, JTypeOK, queueVars, workerVars

\* Every step keeps the types.
LEMMA TypesStep ==
  ASSUME JTypeOK, WorkerShape, [JNext]_jobVars
  PROVE  JTypeOK'
<1>1. CASE JNext
  BY <1>1, AdderTypes, WorkerTypes, ReceiveTypes DEF JNext
<1>2. CASE UNCHANGED jobVars
  BY <1>2 DEF JTypeOK, jobVars, queueVars, workerVars, metricVars
<1> QED BY <1>1, <1>2

-----------------------------------------------------------------------------
(* What a worker holds.                                                    *)

\* Every step keeps the shape of the workers.
LEMMA ShapeStep ==
  ASSUME JTypeOK, WorkerShape, [JNext]_jobVars
  PROVE  WorkerShape'
<1>1. CASE \E j \in Jobs : AddJob(j)
  BY <1>1 DEF AddJob, WorkerShape, workerVars
<1>2. CASE Enqueue
  BY <1>2 DEF Enqueue, WorkerShape, workerVars
<1>3. CASE Wait \/ Cancel
  BY <1>3 DEF Wait, Cancel, WorkerShape, queueVars, workerVars
<1>4. ASSUME NEW w \in Workers, Start(w) \/ SelectDone(w) \/ SelectClosed(w)
      PROVE  WorkerShape'
  BY <1>4 DEF Start, SelectDone, SelectClosed, Goto, WorkerShape, JTypeOK, queueVars
<1>5. ASSUME NEW w \in Workers, SelectJob(w)
      PROVE  WorkerShape'
  <2>1. Head(jobCh) \in Jobs /\ jobCh # <<>>
    BY <1>5, HeadTailProperties DEF SelectJob, JTypeOK
  <2>2. Head(jobCh) # None
    BY <2>1, JobManagerAssumption
  <2> QED BY <1>5, <2>1, <2>2 DEF SelectJob, Goto, WorkerShape, JTypeOK
<1>6. ASSUME NEW w \in Workers, ExecuteFails(w) \/ JobFinished(w)
      PROVE  WorkerShape'
  BY <1>6 DEF ExecuteFails, JobFinished, Goto, WorkerShape, JTypeOK, queueVars
<1>7. ASSUME NEW w \in Workers, ExecuteReturns(w) \/ DispatchInterrupted(w) \/ SendInterrupted(w)
      PROVE  WorkerShape'
  BY <1>7 DEF ExecuteReturns, DispatchInterrupted, SendInterrupted, Goto, WorkerShape, JTypeOK, queueVars
<1>8. ASSUME NEW w \in Workers, StartSend(w)
      PROVE  WorkerShape'
  <2>1. next[w] <= MetricsOf[job[w]]
    BY <1>8, JobManagerAssumption DEF StartSend, Goto, Dispatched, WorkerShape, JTypeOK
  <2> QED BY <1>8, <2>1 DEF StartSend, Goto, WorkerShape, JTypeOK, queueVars
<1>9. ASSUME NEW w \in Workers, NoChannel(w)
      PROVE  WorkerShape'
  <2>1. /\ wpc[w] = "dispatch" /\ \A v \in Workers : v # w => next'[v] = next[v]
        /\ UNCHANGED <<wpc, job, done, jobClosed, jobCh, adding>>
    BY <1>9 DEF NoChannel, JTypeOK, queueVars
  <2>2. \A v \in Workers : wpc[v] = "sending" => next'[v] = next[v]
    BY <2>1
  <2> QED BY <2>1, <2>2 DEF WorkerShape
<1>13. ASSUME NEW w \in Workers, Send(w)
       PROVE  WorkerShape'
  <2>1. /\ wpc[w] = "sending" /\ wpc'[w] = "dispatch"
        /\ \A v \in Workers : v # w => next'[v] = next[v] /\ wpc'[v] = wpc[v]
        /\ UNCHANGED <<job, done, jobClosed, jobCh, adding>>
    BY <1>13 DEF Send, JTypeOK, queueVars
  <2> QED BY <2>1 DEF WorkerShape
<1>10. ASSUME NEW r \in Configured, Receive(r)
       PROVE  WorkerShape'
  BY <1>10 DEF Receive, WorkerShape, queueVars, workerVars
<1>11. CASE JNext
  BY <1>1, <1>2, <1>3, <1>4, <1>5, <1>6, <1>7, <1>8, <1>9, <1>10, <1>11, <1>13 DEF JNext, Work
<1>12. CASE UNCHANGED jobVars
  BY <1>12 DEF WorkerShape, jobVars, queueVars, workerVars
<1> QED BY <1>11, <1>12

-----------------------------------------------------------------------------
(* Where a job is.                                                         *)

\* Every step keeps a job at one place.
LEMMA PlaceStep ==
  ASSUME JTypeOK, WorkerShape, JobPlace, [JNext]_jobVars
  PROVE  JobPlace'
<1>0. /\ jobCh \in Seq(Jobs) /\ adding \in Jobs \cup {None} /\ None \notin Jobs
      /\ job \in [Workers -> Jobs \cup {None}] /\ executed \in [Jobs -> Nat]
  BY JobManagerAssumption DEF JTypeOK
<1>1. ASSUME NEW j \in Jobs, AddJob(j)
      PROVE  JobPlace'
  <2>1. j # None /\ j \notin ToSet(jobCh) /\ executed[j] = 0 /\ adding = None
    BY <1>0, <1>1 DEF AddJob, JobPlace
  <2> QED BY <1>0, <1>1, <2>1 DEF AddJob, JobPlace, workerVars
<1>2. CASE Enqueue
  <2>1. adding \in Jobs /\ adding \notin ToSet(jobCh) /\ executed[adding] = 0
    BY <1>0, <1>2 DEF Enqueue, JobPlace
  <2>2. ToSet(jobCh') = ToSet(jobCh) \cup {adding} /\ Distinct(jobCh') /\ adding' = None
    BY <1>0, <1>2, <2>1, ElementsAppend, DistinctAppend DEF Enqueue, JobPlace
  <2> QED BY <1>0, <1>2, <2>1, <2>2 DEF Enqueue, JobPlace, workerVars
<1>3. ASSUME NEW w \in Workers, SelectJob(w)
      PROVE  JobPlace'
  <2> DEFINE x == Head(jobCh)
  <2>1. jobCh # <<>> /\ jobCh' = Tail(jobCh)
    BY <1>3 DEF SelectJob
  <2>2. /\ x \in Jobs /\ ToSet(jobCh) = {x} \cup ToSet(jobCh')
        /\ x \notin ToSet(jobCh') /\ Distinct(jobCh')
    BY <1>0, <2>1, HeadTailProperties, ElementsHeadTail, DistinctTail DEF JobPlace
  <2>3. /\ job' = [job EXCEPT ![w] = x] /\ executed' = [executed EXCEPT ![x] = @ + 1]
        /\ UNCHANGED <<adding, added, dropped, failed>>
    BY <1>3 DEF SelectJob
  <2>4. executed[x] = 0 /\ x # adding /\ x # None
    BY <1>0, <2>2 DEF JobPlace
  <2>5. executed'[x] = 1 /\ \A j \in Jobs \ {x} : executed'[j] = executed[j]
    BY <1>0, <2>2, <2>3, <2>4
  <2> HIDE DEF x
  <2>6. {j \in Jobs : executed'[j] = 1} = {x} \cup {j \in Jobs : executed[j] = 1}
    BY <2>2, <2>5
  <2>7. x \notin failed /\ \A v \in Workers : job[v] # x
    BY <2>4 DEF JobPlace
  <2>8. \A v \in Workers : job'[v] # None => executed'[job'[v]] = 1 /\ job'[v] \notin failed'
    BY <1>0, <2>2, <2>3, <2>4, <2>5, <2>7 DEF JobPlace
  <2>9. \A u, v \in Workers : job'[u] = job'[v] => job'[u] = None \/ u = v
    BY <1>0, <2>3, <2>7 DEF JobPlace
  <2>10. added' = dropped' \cup ({adding'} \ {None}) \cup ToSet(jobCh') \cup {j \in Jobs : executed'[j] = 1}
    BY <2>2, <2>3, <2>6 DEF JobPlace
  <2>11. \A j \in Jobs : executed'[j] \in {0, 1}
    BY <2>5 DEF JobPlace
  <2>12. \A j \in ToSet(jobCh') : executed'[j] = 0
    BY <1>0, <2>2, <2>5, ElementsInSet DEF JobPlace
  <2>13. adding' # None => adding' \notin ToSet(jobCh') /\ executed'[adding'] = 0
    BY <1>0, <2>2, <2>3, <2>4, <2>5 DEF JobPlace
  <2>14. \A j \in failed' : executed'[j] = 1
    BY <2>3, <2>5, <2>7 DEF JobPlace, JTypeOK
  <2> QED BY <2>2, <2>8, <2>9, <2>10, <2>11, <2>12, <2>13, <2>14 DEF JobPlace
<1>4. ASSUME NEW w \in Workers, ExecuteFails(w)
      PROVE  JobPlace'
  <2>1. /\ job' = [job EXCEPT ![w] = None] /\ failed' = failed \cup {job[w]} /\ job[w] # None
        /\ UNCHANGED <<jobCh, adding, added, dropped, executed>>
    BY <1>4 DEF ExecuteFails, Goto, WorkerShape, queueVars
  <2> QED BY <1>0, <2>1 DEF JobPlace
<1>5. ASSUME NEW w \in Workers, JobFinished(w)
      PROVE  JobPlace'
  BY <1>0, <1>5 DEF JobFinished, JobPlace, queueVars
<1>6. ASSUME UNCHANGED <<jobCh, adding, added, dropped, executed, job, failed>>
      PROVE  JobPlace'
  BY <1>6 DEF JobPlace
<1>7. ASSUME NEW w \in Workers, Work(w), ~SelectJob(w), ~ExecuteFails(w), ~JobFinished(w)
      PROVE  UNCHANGED <<jobCh, adding, added, dropped, executed, job, failed>>
  BY <1>7 DEF Work, Start, SelectDone, SelectClosed, ExecuteReturns, DispatchInterrupted, NoChannel,
              StartSend, Send, SendInterrupted, queueVars
<1>8. CASE JNext
  BY <1>1, <1>2, <1>3, <1>4, <1>5, <1>6, <1>7, <1>8
  DEF JNext, Wait, Cancel, Receive, queueVars, workerVars
<1>9. CASE UNCHANGED jobVars
  BY <1>6, <1>9 DEF jobVars, queueVars, workerVars
<1> QED BY <1>8, <1>9

-----------------------------------------------------------------------------
(* What has been sent.                                                     *)

\* A sent metric is a job and a number.
LEMMA SentPairs ==
  ASSUME JTypeOK
  PROVE  /\ Len(sent) \in Nat
         /\ \A k \in 1..Len(sent) : sent[k] \in Metric /\ sent[k][1] \in Jobs /\ sent[k][2] \in Nat
<1>1. sent \in Seq(Metric) /\ Len(sent) \in Nat
  BY LenProperties DEF JTypeOK
<1>2. \A k \in 1..Len(sent) : sent[k] \in Metric
  BY <1>1, ElementOfSeq
<1>3. \A m \in Metric : m[1] \in Jobs /\ m[2] \in Nat
  BY MetricPairs, JobManagerAssumption
<1> QED BY <1>1, <1>2, <1>3

\* Every step keeps what was sent below the indices of the workers.
LEMMA SentStep ==
  ASSUME JTypeOK, WorkerShape, JobPlace, SentBelow, [JNext]_jobVars
  PROVE  SentBelow'
<1>0. /\ job \in [Workers -> Jobs \cup {None}] /\ next \in [Workers -> Nat \ {0}]
      /\ wpc \in [Workers -> WorkerPCs] /\ executed \in [Jobs -> Nat] /\ None \notin Jobs
  BY JobManagerAssumption DEF JTypeOK
<1>1. ASSUME NEW w \in Workers, SelectJob(w)
      PROVE  SentBelow'
  <2> DEFINE x == Head(jobCh)
  <2>1. jobCh \in Seq(Jobs) /\ jobCh # <<>>
    BY <1>1 DEF SelectJob, JTypeOK
  <2>2. x \in Jobs /\ executed[x] = 0
    BY <2>1, HeadTailProperties, ElementsHeadTail DEF JobPlace
  <2>3. \A k \in 1..Len(sent) : sent[k][1] # x
    BY <2>2 DEF SentBelow
  <2>4. /\ job' = [job EXCEPT ![w] = x] /\ executed' = [executed EXCEPT ![x] = @ + 1]
        /\ wpc' = [wpc EXCEPT ![w] = "executing"] /\ UNCHANGED <<next, sent, failed>>
    BY <1>1 DEF SelectJob, Goto, metricVars
  <2> HIDE DEF x
  <2>5. \A k \in 1..Len(sent') : executed'[sent'[k][1]] = 1
    BY <1>0, <2>2, <2>3, <2>4, SentPairs DEF SentBelow
  <2>6. \A v \in Workers : \A k \in 1..Len(sent') :
           sent'[k][1] = job'[v] => wpc'[v] # "executing" /\ sent'[k][2] < next'[v]
    BY <1>0, <2>3, <2>4 DEF SentBelow
  <2>7. SentOnceInOrder'
    BY <2>4 DEF SentBelow, SentOnceInOrder
  <2> QED BY <2>5, <2>6, <2>7 DEF SentBelow
<1>2. ASSUME NEW w \in Workers, ExecuteFails(w)
      PROVE  SentBelow'
  <2>1. /\ job' = [job EXCEPT ![w] = None] /\ wpc' = [wpc EXCEPT ![w] = "select"]
        /\ failed' = failed \cup {job[w]} /\ wpc[w] = "executing"
        /\ UNCHANGED <<next, sent, executed>>
    BY <1>2 DEF ExecuteFails, Goto, metricVars
  <2>2. \A k \in 1..Len(sent) : sent[k][1] # job[w] /\ sent[k][1] # None
    BY <1>0, <2>1, SentPairs DEF SentBelow
  <2> QED BY <1>0, <2>1, <2>2 DEF SentBelow, SentOnceInOrder
<1>3. ASSUME NEW w \in Workers, ExecuteReturns(w)
      PROVE  SentBelow'
  <2>1. /\ next' = [next EXCEPT ![w] = 1] /\ wpc' = [wpc EXCEPT ![w] = "dispatch"]
        /\ wpc[w] = "executing" /\ UNCHANGED <<job, sent, executed, failed>>
    BY <1>3 DEF ExecuteReturns, Goto, metricVars
  <2>2. \A k \in 1..Len(sent) : sent[k][1] # job[w]
    BY <2>1 DEF SentBelow
  <2> QED BY <1>0, <2>1, <2>2 DEF SentBelow, SentOnceInOrder
<1>4. ASSUME NEW w \in Workers, JobFinished(w)
      PROVE  SentBelow'
  <2>1. /\ job' = [job EXCEPT ![w] = None] /\ wpc' = [wpc EXCEPT ![w] = "select"]
        /\ UNCHANGED <<next, sent, executed, failed>>
    BY <1>4 DEF JobFinished, Goto, metricVars
  <2>2. \A k \in 1..Len(sent) : sent[k][1] # None
    BY <1>0, SentPairs
  <2> QED BY <1>0, <2>1, <2>2 DEF SentBelow, SentOnceInOrder
<1>5. ASSUME NEW w \in Workers, NoChannel(w)
      PROVE  SentBelow'
  <2>1. next' = [next EXCEPT ![w] = @ + 1] /\ UNCHANGED <<wpc, job, sent, executed, failed>>
    BY <1>5 DEF NoChannel
  <2>2. \A v \in Workers : next[v] \in Nat /\ next'[v] \in Nat /\ next[v] <= next'[v]
    BY <1>0, <2>1
  <2>3. \A v \in Workers : \A k \in 1..Len(sent) :
           sent[k][1] = job[v] => wpc[v] # "executing" /\ sent[k][2] < next'[v]
    BY <2>2, SentPairs DEF SentBelow
  <2> QED BY <2>1, <2>3 DEF SentBelow, SentOnceInOrder
<1>6. ASSUME NEW w \in Workers, Send(w)
      PROVE  SentBelow'
  <2> DEFINE j == job[w]
             n == next[w]
             m == <<j, n>>
  <2>1. /\ j \in Jobs /\ n \in Nat /\ m \in Metric /\ m[1] = j /\ m[2] = n
        /\ executed[j] = 1 /\ j \notin failed
    BY <1>6, NextMetric DEF Send, WorkerShape, JobPlace
  <2>2. /\ sent' = Append(sent, m) /\ next' = [next EXCEPT ![w] = @ + 1]
        /\ wpc' = [wpc EXCEPT ![w] = "dispatch"] /\ UNCHANGED <<job, executed, failed>>
    BY <1>6 DEF Send
  <2>3. /\ Len(sent') = Len(sent) + 1 /\ sent'[Len(sent) + 1] = m
        /\ \A k \in 1..Len(sent) : sent'[k] = sent[k]
    BY <2>1, <2>2, AppendProperties DEF JTypeOK
  <2>4. \A k \in 1..Len(sent) : sent[k][1] = j => sent[k][2] < n
    BY DEF SentBelow
  <2>5. \A v \in Workers : v # w => job[v] # j
    BY <1>0, <2>1 DEF JobPlace
  <2> HIDE DEF j, n, m
  <2>6. SentOnceInOrder'
    <3>1. \A k \in 1..Len(sent) : /\ sent'[k][1] \notin failed'
                                  /\ \A i \in 1..(k - 1) : sent'[i][1] = sent'[k][1] => sent'[i][2] < sent'[k][2]
      <4> TAKE k \in 1..Len(sent)
      <4>1. \A i \in 1..(k - 1) : i \in 1..Len(sent)
        BY SentPairs
      <4> QED BY <2>2, <2>3, <4>1 DEF SentBelow, SentOnceInOrder
    <3>2. /\ sent'[Len(sent) + 1][1] \notin failed'
          /\ \A i \in 1..Len(sent) : sent'[i][1] = j => sent'[i][2] < n
      BY <2>1, <2>2, <2>3, <2>4
    <3>3. \A k \in 1..Len(sent') : k \in 1..Len(sent) \/ (k = Len(sent) + 1 /\ k - 1 = Len(sent))
      BY <2>3, SentPairs
    <3>4. sent'[Len(sent) + 1][1] = j /\ sent'[Len(sent) + 1][2] = n
      BY <2>1, <2>3
    <3> QED BY <3>1, <3>2, <3>3, <3>4 DEF SentOnceInOrder
  <2>7. \A k \in 1..Len(sent') : executed'[sent'[k][1]] = 1
    BY <2>1, <2>2, <2>3, SentPairs DEF SentBelow
  <2>8. next'[w] = n + 1 /\ wpc'[w] = "dispatch" /\ job'[w] = j
    BY <1>0, <2>2 DEF n, j
  <2>9. \A k \in 1..Len(sent') : sent'[k][1] = job'[w] => wpc'[w] # "executing" /\ sent'[k][2] < next'[w]
    <3>1. \A k \in 1..Len(sent) : sent'[k][1] = j => sent'[k][2] < n + 1
      BY <2>1, <2>3, <2>4, SentPairs
    <3>2. sent'[Len(sent) + 1][2] < n + 1
      BY <2>1, <2>3
    <3>3. \A k \in 1..Len(sent') : k \in 1..Len(sent) \/ k = Len(sent) + 1
      BY <2>3, SentPairs
    <3> QED BY <2>8, <3>1, <3>2, <3>3
  <2>10. \A v \in Workers : v # w =>
           \A k \in 1..Len(sent') : sent'[k][1] = job'[v] => wpc'[v] # "executing" /\ sent'[k][2] < next'[v]
    <3> SUFFICES ASSUME NEW v \in Workers, v # w, NEW k \in 1..Len(sent'), sent'[k][1] = job'[v]
                 PROVE  wpc'[v] # "executing" /\ sent'[k][2] < next'[v]
      OBVIOUS
    <3>1. job'[v] = job[v] /\ wpc'[v] = wpc[v] /\ next'[v] = next[v] /\ job[v] # j
      BY <1>0, <2>2, <2>5
    <3>2. k \in 1..Len(sent)
      BY <2>1, <2>3, <3>1, SentPairs
    <3> QED BY <2>3, <3>1, <3>2 DEF SentBelow
  <2> QED BY <2>6, <2>7, <2>9, <2>10 DEF SentBelow
<1>7. ASSUME NEW w \in Workers,
             Start(w) \/ SelectDone(w) \/ SelectClosed(w) \/ DispatchInterrupted(w)
               \/ StartSend(w) \/ SendInterrupted(w)
      PROVE  SentBelow'
  <2>1. /\ wpc[w] # "executing" => wpc'[w] # "executing"
        /\ \A v \in Workers : v # w => wpc'[v] = wpc[v]
        /\ wpc'[w] # "executing"
        /\ UNCHANGED <<job, next, sent, executed, failed>>
    BY <1>0, <1>7
    DEF Start, SelectDone, SelectClosed, DispatchInterrupted, StartSend, SendInterrupted, Goto, metricVars
  <2> QED BY <2>1 DEF SentBelow, SentOnceInOrder
<1>8. ASSUME UNCHANGED <<workerVars, sent, executed, failed>>
      PROVE  SentBelow'
  BY <1>8 DEF SentBelow, SentOnceInOrder, workerVars
<1>9. CASE JNext
  BY <1>1, <1>2, <1>3, <1>4, <1>5, <1>6, <1>7, <1>8, <1>9
  DEF JNext, Work, AddJob, Enqueue, Wait, Cancel, Receive, metricVars
<1>10. CASE UNCHANGED jobVars
  BY <1>8, <1>10 DEF jobVars, metricVars
<1> QED BY <1>9, <1>10

-----------------------------------------------------------------------------
(* What has become of an executed job.                                     *)

\* A placed metric stays placed.
LEMMA PlacedStays ==
  ASSUME JTypeOK, WorkerShape, [JNext]_jobVars
  PROVE  ToSet(sent) \subseteq ToSet(sent') /\ unrouted \subseteq unrouted'
<1>1. ASSUME NEW w \in Workers, Send(w)
      PROVE  ToSet(sent) \subseteq ToSet(sent') /\ unrouted \subseteq unrouted'
  <2>1. <<job[w], next[w]>> \in Metric
    BY <1>1, NextMetric DEF Send, WorkerShape
  <2>2. sent' = Append(sent, <<job[w], next[w]>>) /\ sent \in Seq(Metric) /\ unrouted' = unrouted
    BY <1>1 DEF Send, JTypeOK
  <2> QED BY <2>1, <2>2, ElementsAppend
<1>2. ASSUME NEW w \in Workers, NoChannel(w)
      PROVE  ToSet(sent) \subseteq ToSet(sent') /\ unrouted \subseteq unrouted'
  BY <1>2 DEF NoChannel
<1>3. CASE UNCHANGED <<sent, unrouted>>
  BY <1>3
<1>4. ASSUME NEW w \in Workers, Work(w), ~Send(w), ~NoChannel(w)
      PROVE  UNCHANGED <<sent, unrouted>>
  BY <1>4 DEF Work, Start, SelectDone, SelectClosed, SelectJob, ExecuteFails, ExecuteReturns,
              JobFinished, DispatchInterrupted, StartSend, SendInterrupted, metricVars
<1>5. CASE JNext
  BY <1>1, <1>2, <1>3, <1>4, <1>5 DEF JNext, AddJob, Enqueue, Wait, Cancel, Receive, metricVars
<1> QED BY <1>3, <1>5 DEF jobVars, metricVars

\* Of the metrics a worker dispatches, those below the next index are placed.
BelowNext ==
  \A w \in Workers : wpc[w] \in {"dispatch", "sending"} =>
     \A n \in Nat \ {0} : n < next[w] => Placed(job[w], n)

\* The metric a worker has just placed, and the ones before it, are placed.
LEMMA PlacesNext ==
  ASSUME JTypeOK, WorkerShape, JobPlace, BelowNext, [JNext]_jobVars,
         NEW w \in Workers, NoChannel(w) \/ Send(w)
  PROVE  /\ \A n \in Nat \ {0} : n < next'[w] => Placed(job[w], n)'
         /\ job' = job /\ \A v \in Workers : v # w => next'[v] = next[v] /\ wpc'[v] = wpc[v]
<1>1. /\ next' = [next EXCEPT ![w] = @ + 1] /\ job' = job
      /\ \A v \in Workers : v # w => next'[v] = next[v] /\ wpc'[v] = wpc[v]
      /\ next'[w] = next[w] + 1 /\ next[w] \in Nat \ {0}
  BY DEF NoChannel, Send, JTypeOK
<1>2. ASSUME NEW n, n = next[w]
      PROVE  Placed(job[w], n)'
  <2>1. CASE NoChannel(w)
    BY <1>1, <1>2, <2>1 DEF NoChannel, Placed
  <2>2. CASE Send(w)
    <3>1. RegionOf[job[w]] \in Configured /\ <<job[w], n>> \in Metric
      BY <1>2, <2>2, NextMetric DEF Send, WorkerShape
    <3>2. sent' = Append(sent, <<job[w], n>>) /\ sent \in Seq(Metric)
      BY <1>2, <2>2 DEF Send, JTypeOK
    <3>3. <<job[w], n>> \in ToSet(sent')
      BY <3>1, <3>2, ElementsAppend
    <3> QED BY <1>1, <3>1, <3>3 DEF Placed
  <2> QED BY <2>1, <2>2
<1>3. \A n \in Nat \ {0} : n < next[w] => Placed(job[w], n)'
  BY <1>1, PlacedStays DEF BelowNext, NoChannel, Send, Placed
<1> QED BY <1>1, <1>2, <1>3

\* Every step keeps the metrics below the next index placed.
LEMMA BelowNextStep ==
  ASSUME JTypeOK, WorkerShape, JobPlace, BelowNext, [JNext]_jobVars
  PROVE  BelowNext'
<1>0. /\ job \in [Workers -> Jobs \cup {None}] /\ next \in [Workers -> Nat \ {0}]
      /\ wpc \in [Workers -> WorkerPCs]
  BY DEF JTypeOK
<1>1. ASSUME NEW w \in Workers, NEW n, Placed(job[w], n)
      PROVE  Placed(job[w], n)'  \/ job' # job
  BY <1>1, PlacedStays DEF Placed
<1>2. ASSUME NEW w \in Workers, NoChannel(w) \/ Send(w)
      PROVE  BelowNext'
  <2> SUFFICES ASSUME NEW v \in Workers, wpc'[v] \in {"dispatch", "sending"},
                      NEW n \in Nat \ {0}, n < next'[v]
               PROVE  Placed(job[v], n)'
    BY DEF BelowNext
  <2>1. CASE v = w
    BY <1>2, <2>1, PlacesNext
  <2>2. CASE v # w
    BY <1>1, <1>2, <2>2, PlacesNext DEF BelowNext
  <2> QED BY <2>1, <2>2
<1>3. ASSUME NEW w \in Workers, ExecuteReturns(w)
      PROVE  BelowNext'
  <2>1. /\ job' = job /\ next'[w] = 1
        /\ \A v \in Workers : v # w => next'[v] = next[v] /\ wpc'[v] = wpc[v]
    BY <1>0, <1>3 DEF ExecuteReturns, Goto
  <2> SUFFICES ASSUME NEW v \in Workers, wpc'[v] \in {"dispatch", "sending"},
                      NEW n \in Nat \ {0}, n < next'[v]
               PROVE  Placed(job[v], n)'
    BY DEF BelowNext
  <2>2. v # w
    BY <2>1
  <2> QED BY <1>1, <2>1, <2>2 DEF BelowNext
<1>4. ASSUME \A v \in Workers : wpc'[v] \in {"dispatch", "sending"} =>
               wpc[v] \in {"dispatch", "sending"} /\ next'[v] = next[v] /\ job'[v] = job[v]
      PROVE  BelowNext'
  BY <1>4, PlacedStays DEF BelowNext, Placed
<1>5. ASSUME NEW w \in Workers, SelectJob(w) \/ ExecuteFails(w) \/ JobFinished(w)
      PROVE  BelowNext'
  <2>1. /\ wpc'[w] \notin {"dispatch", "sending"} /\ next' = next
        /\ \A v \in Workers : v # w => job'[v] = job[v] /\ wpc'[v] = wpc[v]
    BY <1>0, <1>5 DEF SelectJob, ExecuteFails, JobFinished, Goto
  <2> QED BY <1>4, <2>1
<1>6. ASSUME NEW w \in Workers,
             Start(w) \/ SelectDone(w) \/ SelectClosed(w) \/ DispatchInterrupted(w)
               \/ StartSend(w) \/ SendInterrupted(w)
      PROVE  BelowNext'
  <2>1. /\ wpc'[w] \in {"dispatch", "sending"} => wpc[w] \in {"dispatch", "sending"}
        /\ next' = next /\ job' = job /\ \A v \in Workers : v # w => wpc'[v] = wpc[v]
    BY <1>0, <1>6
    DEF Start, SelectDone, SelectClosed, DispatchInterrupted, StartSend, SendInterrupted, Goto
  <2> QED BY <1>4, <2>1
<1>7. CASE UNCHANGED workerVars
  BY <1>4, <1>7 DEF workerVars
<1>8. CASE JNext
  BY <1>2, <1>3, <1>5, <1>6, <1>7, <1>8 DEF JNext, Work, AddJob, Enqueue, Wait, Cancel, Receive
<1> QED BY <1>7, <1>8 DEF jobVars

\* Every step keeps account of the executed jobs.
LEMMA ProgressStep ==
  ASSUME JTypeOK, WorkerShape, JobPlace, Progress, [JNext]_jobVars
  PROVE  Progress'
<1>0. /\ job \in [Workers -> Jobs \cup {None}] /\ None \notin Jobs
      /\ executed \in [Jobs -> Nat] /\ jobCh \in Seq(Jobs)
  BY JobManagerAssumption DEF JTypeOK
<1>1. (dropped # {} => done)'
  <2>1. dropped' = dropped \/ done
    BY DEF JNext, Work, jobVars, AddJob, Enqueue, Wait, Cancel, Receive, Start, SelectDone,
           SelectClosed, SelectJob, ExecuteFails, ExecuteReturns, JobFinished,
           DispatchInterrupted, NoChannel, StartSend, Send, SendInterrupted, queueVars
  <2>2. done => done'
    BY DEF JNext, Work, jobVars, AddJob, Enqueue, Wait, Cancel, Receive, Start, SelectDone,
           SelectClosed, SelectJob, ExecuteFails, ExecuteReturns, JobFinished,
           DispatchInterrupted, NoChannel, StartSend, Send, SendInterrupted
  <2> QED BY <2>1, <2>2 DEF Progress
<1>2. BelowNext'
  BY BelowNextStep DEF Progress, BelowNext
<1> DEFINE Ended(j) == \/ j \in failed
                       \/ \E w \in Workers : job[w] = j
                       \/ \A n \in 1..MetricsOf[j] : Placed(j, n)
<1>3. \A j \in Jobs : executed[j] = 1 => Ended(j)
  BY DEF Progress
<1>4. \A j \in Jobs : (\A n \in 1..MetricsOf[j] : Placed(j, n))
                      => (\A n \in 1..MetricsOf[j] : Placed(j, n)')
  BY PlacedStays DEF Placed
<1>5. \A j \in Jobs : executed'[j] = 1 => Ended(j)'
  <2>1. CASE UNCHANGED <<executed, failed, job>>
    BY <1>3, <1>4, <2>1
  <2>2. ASSUME NEW w \in Workers, SelectJob(w)
        PROVE  \A j \in Jobs : executed'[j] = 1 => Ended(j)'
    <3>0. PICK x : x = Head(jobCh)
      OBVIOUS
    <3>1. jobCh # <<>> /\ job' = [job EXCEPT ![w] = x] /\ failed' = failed
          /\ executed' = [executed EXCEPT ![x] = @ + 1] /\ job[w] = None
      BY <2>2, <3>0 DEF SelectJob, Goto, WorkerShape
    <3>2. x \in Jobs
      BY <1>0, <3>0, <3>1, HeadTailProperties
    <3>3. \A j \in Jobs \ {x} : executed'[j] = executed[j]
      BY <1>0, <3>1, <3>2
    <3>4. job'[w] = x /\ \A v \in Workers : job[v] \in Jobs => job'[v] = job[v]
      BY <1>0, <3>1
    <3>5. Ended(x)'
      BY <3>4
    <3>6. \A j \in Jobs : Ended(j) => Ended(j)'
      BY <1>4, <3>1, <3>4
    <3> QED BY <1>3, <3>3, <3>5, <3>6
  <2>3. ASSUME NEW w \in Workers, ExecuteFails(w)
        PROVE  \A j \in Jobs : executed'[j] = 1 => Ended(j)'
    <3>1. /\ job' = [job EXCEPT ![w] = None] /\ failed' = failed \cup {job[w]}
          /\ executed' = executed
      BY <2>3 DEF ExecuteFails
    <3>2. \A j \in Jobs : Ended(j) => Ended(j)'
      BY <1>0, <1>4, <3>1
    <3> QED BY <1>3, <3>1, <3>2
  <2>4. ASSUME NEW w \in Workers, JobFinished(w)
        PROVE  \A j \in Jobs : executed'[j] = 1 => Ended(j)'
    <3>1. /\ job' = [job EXCEPT ![w] = None] /\ failed' = failed /\ executed' = executed
          /\ wpc[w] = "dispatch" /\ next[w] > MetricsOf[job[w]] /\ job[w] \in Jobs
      BY <1>0, <2>4 DEF JobFinished, Goto, Dispatched, WorkerShape
    <3>2. \A n \in 1..MetricsOf[job[w]] : n \in Nat \ {0} /\ n < next[w]
      BY <3>1, JobManagerAssumption DEF JTypeOK
    <3>3. \A n \in 1..MetricsOf[job[w]] : Placed(job[w], n)
      BY <3>1, <3>2 DEF Progress
    <3>4. \A j \in Jobs : Ended(j) => Ended(j)'
      BY <1>0, <1>4, <3>1, <3>3
    <3> QED BY <1>3, <3>1, <3>4
  <2>5. ASSUME NEW w \in Workers, Work(w), ~SelectJob(w), ~ExecuteFails(w), ~JobFinished(w)
        PROVE  UNCHANGED <<executed, failed, job>>
    BY <2>5 DEF Work, Start, SelectDone, SelectClosed, ExecuteReturns, DispatchInterrupted, NoChannel,
                StartSend, Send, SendInterrupted
  <2>6. CASE JNext
    BY <2>1, <2>2, <2>3, <2>4, <2>5, <2>6
    DEF JNext, AddJob, Enqueue, Wait, Cancel, Receive, workerVars
  <2> QED BY <2>1, <2>6 DEF jobVars, workerVars
<1> QED BY <1>1, <1>2, <1>5 DEF Progress, BelowNext

-----------------------------------------------------------------------------
(* Late metrics.                                                           *)

\* Every step keeps the number of late metrics.
LEMMA LateStep ==
  ASSUME JTypeOK, WorkerShape, LateShape, [JNext]_jobVars
  PROVE  LateShape'
<1>0. wpc \in [Workers -> WorkerPCs] /\ late \in [Workers -> Nat] /\ done \in BOOLEAN
  BY DEF JTypeOK
<1>1. ASSUME NEW w \in Workers, Send(w)
      PROVE  LateShape'
  <2>1. late[w] = 0 /\ wpc' = [wpc EXCEPT ![w] = "dispatch"] /\ done' = done
        /\ late' = [late EXCEPT ![w] = IF done THEN @ + 1 ELSE @]
    BY <1>1 DEF Send, LateShape
  <2> QED BY <1>0, <2>1 DEF LateShape
<1>2. ASSUME NEW w \in Workers, StartSend(w)
      PROVE  LateShape'
  BY <1>0, <1>2 DEF StartSend, Goto, LateShape, metricVars
<1>3. ASSUME late' = late, done => done', \A v \in Workers : wpc'[v] = "sending" => wpc[v] = "sending"
      PROVE  LateShape'
  BY <1>3 DEF LateShape
<1>4. ASSUME NEW w \in Workers, Work(w), ~Send(w), ~StartSend(w)
      PROVE  LateShape'
  <2>1. /\ late' = late /\ done' = done
        /\ \A v \in Workers : wpc'[v] = "sending" => wpc[v] = "sending"
    BY <1>0, <1>4 DEF Work, Start, SelectDone, SelectClosed, SelectJob, ExecuteFails, ExecuteReturns,
              JobFinished, DispatchInterrupted, NoChannel, SendInterrupted, Goto, metricVars
  <2> QED BY <1>3, <2>1
<1>5. CASE UNCHANGED <<wpc, late>> /\ (done => done')
  BY <1>3, <1>5
<1>6. CASE JNext
  BY <1>1, <1>2, <1>4, <1>5, <1>6
  DEF JNext, AddJob, Enqueue, Wait, Cancel, Receive, workerVars, metricVars
<1> QED BY <1>5, <1>6 DEF jobVars, workerVars, metricVars

-----------------------------------------------------------------------------
(* The invariant and what follows from it.                                 *)

\* Every step keeps the invariant.
LEMMA JInvStep == JInv /\ [JNext]_jobVars => JInv'
  BY TypesStep, ShapeStep, PlaceStep, SentStep, ProgressStep, LateStep DEF JInv

\* The invariant holds in every reachable state.
LEMMA JInvariant == JSpec => []JInv
<1> QED BY JInitInv, JInvStep, PTL DEF JSpec

\* The types hold, and no buffer grows beyond its capacity.
THEOREM JobTypes == JSpec => []JTypeOK
<1>1. JInv => JTypeOK
  BY DEF JInv
<1> QED BY <1>1, JInvariant, PTL

\* However many workers compete for the queue, a job is executed at most once
\* and by one worker, and none is lost between AddJob and a worker.
THEOREM JobsExecutedOnce == JSpec => []ExecutedOnce
<1>1. JInv => ExecutedOnce
  BY DEF JInv, JobPlace, ExecutedOnce
<1> QED BY <1>1, JInvariant, PTL

\* No metric of a job is sent twice, none of a failed job, and they are sent
\* in the order Execute returned them.
THEOREM MetricsSentInOrder == JSpec => []SentOnceInOrder
<1>1. JInv => SentOnceInOrder
  BY DEF JInv, SentBelow
<1> QED BY <1>1, JInvariant, PTL

\* After the cancellation a worker sends at most one more metric.
THEOREM OneLateMetric == JSpec => []AtMostOneLate
<1>1. JInv => AtMostOneLate
  BY DEF JInv, LateShape, AtMostOneLate
<1> QED BY <1>1, JInvariant, PTL

\* When all workers have left a pool that was not cancelled, every added job
\* has failed or placed every metric.
LEMMA LeftMeansPlaced == JInv => WaitMeansDispatched
<1> SUFFICES ASSUME JInv, AllExited, ~done, NEW j \in added
             PROVE  \/ j \in failed
                    \/ RegionOf[j] \in Configured /\ Metrics(j) \subseteq ToSet(sent)
                    \/ RegionOf[j] \notin Configured /\ Metrics(j) \subseteq unrouted
  BY DEF WaitMeansDispatched
<1>1. \A w \in Workers : job[w] = None /\ jobClosed /\ jobCh = <<>>
  BY DEF JInv, WorkerShape, AllExited
<1>2. jobCh = <<>> /\ adding = None /\ dropped = {} /\ j \in Jobs /\ None \notin Jobs
  BY <1>1, JobManagerAssumption DEF JInv, WorkerShape, Progress, JTypeOK
<1>3. ToSet(jobCh) = {}
  BY <1>2, ElementsEmpty DEF JInv, JTypeOK
<1>4. executed[j] = 1
  BY <1>2, <1>3 DEF JInv, JobPlace
<1>5. j \in failed \/ \A n \in 1..MetricsOf[j] : Placed(j, n)
  BY <1>1, <1>2, <1>4 DEF JInv, Progress
<1>6. \A m \in Metrics(j) : \E n \in 1..MetricsOf[j] : m = <<j, n>>
  BY DEF Metrics
<1> QED BY <1>5, <1>6 DEF Placed

\* When Wait returns and the context was never cancelled, every added job
\* has failed, or its metrics all went to the channel of its region or were
\* reported for want of one.
THEOREM WaitDispatchesAll == JSpec => []WaitMeansDispatched
<1> QED BY LeftMeansPlaced, JInvariant, PTL

-----------------------------------------------------------------------------
(* The invocation: the inductive invariant, beside the one of the pool.    *)

Types == QuotaTypeOK /\ handed \in [Configured -> Seq(Metric)]

\* The order in which HandleRequest takes the pool and the batchers down.
TakenDown ==
  /\ main \in {"jobs", "batchers", "returned"} => jobClosed
  /\ main \in {"batchers", "returned"} => AllExited
  /\ mclosed # {} => main \in {"batchers", "returned"}
  /\ main = "returned" => mclosed = Configured /\ \A r \in Configured : bpc[r] = "exited"

\* A batcher leaves for the context, or behind a closed and drained channel.
LeftFor ==
  \A r \in Configured : bpc[r] \in {"finalFlush", "exited"} =>
     done \/ (r \in mclosed /\ ch[r] = <<>>)

\* A metric on its way is in the channel or the batch of a region.
OnTheWay(m) == \E r \in Configured : m \in ToSet(ch[r]) \cup ToSet(batch[r])

\* Whatever was sent is on its way, shipped or reported.
SentKept == \A m \in ToSet(sent) : m \in shipped \cup reported \/ OnTheWay(m)

QInv == JInv /\ Types /\ TakenDown /\ LeftFor /\ SentKept

-----------------------------------------------------------------------------
(* The pool inside the invocation.                                         *)

\* Every step of the invocation is one of the pool, or leaves it alone.
LEMMA PoolStep ==
  ASSUME [Next]_quotaVars
  PROVE  [JNext]_jobVars
<1>1. CASE Next
  BY <1>1
  DEF Next, AddJobs, Fatal, WaitJobs, JobsDone, Return, CloseBatcher, Batcher, BatcherReceive,
      BatcherFlush, CallFlush, FlushReturns, BatcherExit, Pool, JNext
<1>2. CASE UNCHANGED quotaVars
  BY <1>2 DEF quotaVars
<1> QED BY <1>1, <1>2

\* So JobManager's invariant holds inside the invocation as well.
LEMMA PoolInvariant == Spec => []JInv
<1>1. Init => JInit
  BY DEF Init
<1>2. Spec => JSpec
  BY <1>1, PoolStep, PTL DEF Spec, JSpec
<1> QED BY <1>2, JInvariant, PTL

-----------------------------------------------------------------------------
(* Types.                                                                  *)

\* The invariant holds initially.
LEMMA InitQInv == Init => QInv
<1> SUFFICES ASSUME Init PROVE QInv
  OBVIOUS
<1>1. <<>> \in Seq(Metric) /\ ToSet(<<>>) = {}
  <2>1. <<>> \in Seq(Metric)
    BY EmptySeq
  <2> QED BY <2>1, ElementsEmpty
<1>2. JInv
  BY JInitInv DEF Init
<1>3. batch \in [Configured -> Seq(Metric)] /\ handed \in [Configured -> Seq(Metric)]
  BY <1>1 DEF Init
<1>4. bpc \in [Configured -> {"select", "flushing", "finalFlush", "exited"}]
  BY DEF Init
<1>5. Types
  BY <1>3, <1>4 DEF Init, Types, QuotaTypeOK
<1>6. TakenDown /\ LeftFor
  BY DEF Init, JInit, TakenDown, LeftFor
<1>7. SentKept
  BY <1>1 DEF Init, JInit, SentKept
<1> QED BY <1>2, <1>5, <1>6, <1>7 DEF QInv

\* Every step keeps the types.
LEMMA QTypesStep ==
  ASSUME JInv, Types, [Next]_quotaVars
  PROVE  Types'
<1>0. /\ ch \in [Configured -> Seq(Metric)] /\ batch \in [Configured -> Seq(Metric)]
      /\ handed \in [Configured -> Seq(Metric)]
      /\ bpc \in [Configured -> {"select", "flushing", "finalFlush", "exited"}]
  BY DEF JInv, JTypeOK, Types, QuotaTypeOK
<1>1. ASSUME NEW r \in Configured, BatcherReceive(r)
      PROVE  Types'
  <2> DEFINE m == Head(ch[r])
  <2>1. m \in Metric /\ Append(batch[r], m) \in Seq(Metric)
    <3>1. ch[r] \in Seq(Metric) /\ ch[r] # <<>>
      BY <1>0, <1>1 DEF BatcherReceive, Receive
    <3>2. m \in Metric
      BY <3>1, HeadTailProperties
    <3> QED BY <1>0, <3>2, AppendProperties
  <2>2. /\ batch' = [batch EXCEPT ![r] = Append(@, m)] \/ batch' = batch
        /\ reported' = reported \/ reported' = reported \cup {m}
        /\ bpc[r] = "select" /\ UNCHANGED <<main, mclosed, bpc, handed, shipped>>
    BY <1>1 DEF BatcherReceive
  <2> HIDE DEF m
  <2>3. batch' \in [Configured -> Seq(Metric)]
    BY <1>0, <2>1, <2>2
  <2>4. \A s \in Configured : bpc'[s] = "exited" => batch'[s] = <<>>
    BY <1>0, <2>2 DEF Types, QuotaTypeOK
  <2>5. reported' \subseteq Metric
    BY <2>1, <2>2 DEF Types, QuotaTypeOK
  <2> QED BY <2>2, <2>3, <2>4, <2>5 DEF Types, QuotaTypeOK
<1>2. ASSUME NEW r \in Configured, NEW to \in {"flushing", "finalFlush"}, CallFlush(r, "select", to)
      PROVE  Types'
  <2>1. handed[r] \o batch[r] \in Seq(Metric)
    BY <1>0, ConcatProperties
  <2>2. /\ handed' = [handed EXCEPT ![r] = handed[r] \o batch[r]]
        /\ bpc' = [bpc EXCEPT ![r] = to]
        /\ UNCHANGED <<main, mclosed, batch, shipped, reported>>
    BY <1>2 DEF CallFlush
  <2>3. handed' \in [Configured -> Seq(Metric)]
    BY <1>0, <2>1, <2>2
  <2> QED BY <1>0, <2>2, <2>3 DEF Types, QuotaTypeOK
<1>3. ASSUME NEW r \in Configured, FlushReturns(r)
      PROVE  Types'
  <2>1. ToSet(batch[r]) \subseteq Metric /\ <<>> \in Seq(Metric)
    BY <1>0, ElementsInSet, EmptySeq
  <2>2. /\ batch' = [batch EXCEPT ![r] = <<>>]
        /\ bpc' = [bpc EXCEPT ![r] = IF @ = "flushing" THEN "select" ELSE "exited"]
        /\ UNCHANGED <<main, mclosed, handed>>
    BY <1>3 DEF FlushReturns
  <2>3. shipped' \subseteq Metric /\ reported' \subseteq Metric
    BY <1>3, <2>1 DEF FlushReturns, Types, QuotaTypeOK
  <2>4. batch' \in [Configured -> Seq(Metric)]
    BY <1>0, <2>1, <2>2
  <2>5. \A s \in Configured : bpc'[s] = "exited" => batch'[s] = <<>>
    BY <1>0, <2>2 DEF Types, QuotaTypeOK
  <2> QED BY <1>0, <2>2, <2>3, <2>4, <2>5 DEF Types, QuotaTypeOK
<1>4. ASSUME NEW r \in Configured, BatcherExit(r) \/ CloseBatcher(r)
      PROVE  Types'
  BY <1>0, <1>4 DEF BatcherExit, CloseBatcher, Types, QuotaTypeOK, batcherVars
<1>5. CASE AddJobs \/ Fatal \/ WaitJobs \/ JobsDone \/ Return \/ Pool
  BY <1>5 DEF AddJobs, Fatal, WaitJobs, JobsDone, Return, Pool, Types, QuotaTypeOK, batcherVars
<1>6. CASE UNCHANGED quotaVars
  BY <1>6 DEF quotaVars, Types, QuotaTypeOK, batcherVars
<1>7. CASE Next
  BY <1>1, <1>2, <1>3, <1>4, <1>5, <1>7 DEF Next, Batcher, BatcherFlush
<1> QED BY <1>6, <1>7

-----------------------------------------------------------------------------
(* The order of the end.                                                   *)

\* A worker that has left does not come back.
LEMMA ExitedStays ==
  ASSUME JTypeOK, [JNext]_jobVars, AllExited
  PROVE  wpc' = wpc
  BY DEF AllExited, JNext, jobVars, Work, AddJob, Enqueue, Wait, Cancel, Receive, Start, SelectDone,
         SelectClosed, SelectJob, ExecuteFails, ExecuteReturns, JobFinished, DispatchInterrupted,
         NoChannel, StartSend, Send, SendInterrupted, Goto, workerVars

\* Every step keeps the order in which the parts are taken down.
LEMMA TakenDownStep ==
  ASSUME JInv, Types, TakenDown, [Next]_quotaVars
  PROVE  TakenDown'
<1>1. (AllExited => AllExited') /\ (jobClosed => jobClosed')
  <2>1. AllExited => AllExited'
    BY PoolStep, ExitedStays DEF JInv, AllExited
  <2>2. jobClosed => jobClosed'
    BY PoolStep DEF JNext, AddJob, Enqueue, Wait, Cancel, Receive, Work, Start, SelectDone,
       SelectClosed, SelectJob, ExecuteFails, ExecuteReturns, JobFinished, DispatchInterrupted,
       NoChannel, StartSend, Send, SendInterrupted, jobVars, queueVars
  <2> QED BY <2>1, <2>2
<1>2. CASE AddJobs \/ Fatal \/ WaitJobs \/ Pool \/ UNCHANGED quotaVars
  <2>1. WaitJobs => jobClosed'
    BY DEF WaitJobs, Wait
  <2> QED BY <1>1, <1>2, <2>1 DEF AddJobs, Fatal, WaitJobs, Pool, quotaVars, TakenDown, batcherVars
<1>3. CASE JobsDone \/ Return
  BY <1>1, <1>3 DEF JobsDone, Return, TakenDown, batcherVars
<1>4. ASSUME NEW r \in Configured, CloseBatcher(r)
      PROVE  TakenDown'
  BY <1>1, <1>4 DEF CloseBatcher, TakenDown, batcherVars
<1>5. ASSUME NEW r \in Configured, Batcher(r)
      PROVE  TakenDown'
  <2>1. bpc[r] # "exited" /\ UNCHANGED <<main, mclosed>>
    BY <1>5 DEF Batcher, BatcherReceive, BatcherFlush, CallFlush, FlushReturns, BatcherExit
  <2> QED BY <1>1, <2>1 DEF TakenDown
<1> QED BY <1>2, <1>3, <1>4, <1>5 DEF Next

\* No worker can reach a send once its region's channel is closed.
LEMMA NoneAtClosed == TakenDown => NoSendOnClosed
  BY DEF TakenDown, NoSendOnClosed, AllExited

\* A batcher's reason to leave stays true: nothing is sent behind it.
LEMMA LeftForStep ==
  ASSUME JInv, Types, TakenDown, LeftFor, [Next]_quotaVars
  PROVE  LeftFor'
<1>0. /\ bpc \in [Configured -> {"select", "flushing", "finalFlush", "exited"}]
      /\ ch \in [Configured -> Seq(Metric)] /\ wpc \in [Workers -> WorkerPCs]
  BY DEF JInv, JTypeOK, Types, QuotaTypeOK
<1>1. done => done'
  BY PoolStep
  DEF JNext, jobVars, Work, AddJob, Enqueue, Wait, Cancel, Receive, Start, SelectDone,
      SelectClosed, SelectJob, ExecuteFails, ExecuteReturns, JobFinished, DispatchInterrupted,
      NoChannel, StartSend, Send, SendInterrupted
<1>2. mclosed \subseteq mclosed'
  BY DEF Next, AddJobs, Fatal, WaitJobs, JobsDone, Return, CloseBatcher, Batcher, BatcherReceive,
         BatcherFlush, CallFlush, FlushReturns, BatcherExit, Pool, quotaVars
<1>3. ASSUME NEW r \in Configured, r \in mclosed, ch[r] = <<>>
      PROVE  ch'[r] = <<>>
  <2>1. wpc' = wpc /\ \A w \in Workers : wpc[w] = "exited"
    BY <1>3, PoolStep, ExitedStays DEF TakenDown, JInv, AllExited
  <2>2. \A s \in Configured : Receive(s) => s # r /\ ch'[r] = ch[r]
    BY <1>0, <1>3 DEF Receive
  <2> QED BY <1>3, <2>1, <2>2, PoolStep
      DEF JNext, jobVars, Work, AddJob, Enqueue, Wait, Cancel, Start, SelectDone,
          SelectClosed, SelectJob, ExecuteFails, ExecuteReturns, JobFinished, DispatchInterrupted,
          NoChannel, StartSend, Send, SendInterrupted, Goto, metricVars
<1>4. ASSUME NEW r \in Configured, bpc'[r] \in {"finalFlush", "exited"}
      PROVE  bpc[r] \in {"finalFlush", "exited"} \/ LeaveReason(r)
  BY <1>0, <1>4
  DEF Next, quotaVars, batcherVars, AddJobs, Fatal, WaitJobs, JobsDone, Return, CloseBatcher,
      Batcher, BatcherReceive, BatcherFlush, CallFlush, FlushReturns, BatcherExit, Pool
<1> QED BY <1>1, <1>2, <1>3, <1>4 DEF LeftFor, LeaveReason

-----------------------------------------------------------------------------
(* Nothing is lost on the way.                                             *)

\* Every step keeps account of what was sent.
LEMMA SentKeptStep ==
  ASSUME JInv, Types, SentKept, [Next]_quotaVars
  PROVE  SentKept'
<1>0. /\ ch \in [Configured -> Seq(Metric)] /\ batch \in [Configured -> Seq(Metric)]
      /\ sent \in Seq(Metric)
  BY DEF JInv, JTypeOK, Types, QuotaTypeOK
<1>1. ASSUME NEW w \in Workers, Send(w), UNCHANGED batcherVars
      PROVE  SentKept'
  <2> DEFINE r == RegionOf[job[w]]
             m == <<job[w], next[w]>>
  <2>1. r \in Configured /\ m \in Metric
    BY <1>1, NextMetric DEF Send, WorkerShape, JInv
  <2>2. /\ sent' = Append(sent, m) /\ ch' = [ch EXCEPT ![r] = Append(ch[r], m)]
        /\ UNCHANGED <<batch, shipped, reported>>
    BY <1>1 DEF Send, batcherVars
  <2> HIDE DEF r, m
  <2>3. ToSet(sent') = ToSet(sent) \cup {m} /\ ToSet(ch'[r]) = ToSet(ch[r]) \cup {m}
    BY <1>0, <2>1, <2>2, ElementsAppend
  <2>4. \A s \in Configured : ToSet(ch[s]) \subseteq ToSet(ch'[s])
    BY <1>0, <2>2, <2>3
  <2> QED BY <2>1, <2>2, <2>3, <2>4 DEF SentKept, OnTheWay
<1>2. ASSUME NEW r \in Configured, BatcherReceive(r)
      PROVE  SentKept'
  <2> DEFINE x == Head(ch[r])
  <2>1. ch[r] \in Seq(Metric) /\ ch[r] # <<>> /\ ch' = [ch EXCEPT ![r] = Tail(ch[r])]
        /\ sent' = sent /\ shipped' = shipped
    BY <1>0, <1>2 DEF BatcherReceive, Receive
  <2>2. x \in Metric /\ ToSet(ch[r]) = {x} \cup ToSet(ch'[r])
    BY <1>0, <2>1, HeadTailProperties, ElementsHeadTail
  <2>3. \/ batch' = [batch EXCEPT ![r] = Append(batch[r], x)] /\ reported' = reported
        \/ reported' = reported \cup {x} /\ batch' = batch
    BY <1>2 DEF BatcherReceive
  <2> HIDE DEF x
  <2>4. ToSet(Append(batch[r], x)) = ToSet(batch[r]) \cup {x}
    BY <1>0, <2>2, ElementsAppend
  <2>5. \A s \in Configured : ToSet(batch[s]) \subseteq ToSet(batch'[s])
    BY <1>0, <2>3, <2>4
  <2>6. x \in reported' \/ x \in ToSet(batch'[r])
    BY <1>0, <2>3, <2>4
  <2>7. \A s \in Configured : s # r => ch'[s] = ch[s]
    BY <1>0, <2>1
  <2>8. reported \subseteq reported'
    BY <2>3
  <2> QED BY <2>1, <2>2, <2>5, <2>6, <2>7, <2>8 DEF SentKept, OnTheWay
<1>3. ASSUME NEW r \in Configured, FlushReturns(r)
      PROVE  SentKept'
  <2>1. /\ ch' = ch /\ sent' = sent /\ batch' = [batch EXCEPT ![r] = <<>>]
        /\ ToSet(batch[r]) \subseteq shipped' \cup reported'
        /\ shipped \cup reported \subseteq shipped' \cup reported'
    BY <1>3 DEF FlushReturns, jobVars, metricVars
  <2>2. \A s \in Configured : s # r => batch'[s] = batch[s]
    BY <1>0, <2>1
  <2> QED BY <2>1, <2>2 DEF SentKept, OnTheWay
<1>4. ASSUME UNCHANGED <<sent, ch, batch, shipped, reported>>
      PROVE  SentKept'
  BY <1>4 DEF SentKept, OnTheWay
<1>5. ASSUME NEW w \in Workers, Work(w), ~Send(w)
      PROVE  UNCHANGED <<sent, ch>>
  BY <1>5 DEF Work, Start, SelectDone, SelectClosed, SelectJob, ExecuteFails, ExecuteReturns,
              JobFinished, DispatchInterrupted, NoChannel, StartSend, SendInterrupted, metricVars
<1>6. CASE Pool
  BY <1>1, <1>4, <1>5, <1>6 DEF Pool, Cancel, metricVars, batcherVars
<1>7. ASSUME NEW r \in Configured, BatcherFlush(r) \/ BatcherExit(r) \/ CloseBatcher(r)
      PROVE  SentKept'
  BY <1>4, <1>7 DEF BatcherFlush, CallFlush, BatcherExit, CloseBatcher, jobVars, metricVars, batcherVars
<1>8. CASE AddJobs \/ Fatal \/ WaitJobs \/ JobsDone \/ Return
  BY <1>4, <1>8
  DEF AddJobs, AddJob, Enqueue, Fatal, WaitJobs, Wait, JobsDone, Return, jobVars, metricVars, batcherVars
<1>9. CASE UNCHANGED quotaVars
  BY <1>4, <1>9 DEF quotaVars, jobVars, metricVars, batcherVars
<1> QED BY <1>2, <1>3, <1>6, <1>7, <1>8, <1>9 DEF Next, Batcher

-----------------------------------------------------------------------------
(* The invariant and what follows from it.                                 *)

\* Every step keeps the invariant.
LEMMA QInvStep == QInv /\ [Next]_quotaVars => QInv'
  BY PoolStep, JInvStep, QTypesStep, TakenDownStep, LeftForStep, SentKeptStep DEF QInv

\* The invariant holds in every reachable state.
LEMMA QInvariant == Spec => []QInv
<1> QED BY InitQInv, QInvStep, PTL DEF Spec

\* The types hold, and a batcher that is gone holds nothing.
THEOREM InvocationTypes == Spec => []QuotaTypeOK
<1>1. QInv => QuotaTypeOK
  BY DEF QInv, Types
<1> QED BY <1>1, QInvariant, PTL

\* No worker can send on a closed metric channel, which would panic.
THEOREM SendsBeforeClose == Spec => []NoSendOnClosed
<1>1. QInv => NoSendOnClosed
  BY NoneAtClosed DEF QInv
<1> QED BY <1>1, QInvariant, PTL

\* A worker that waits for room waits for a batcher that receives.
LEMMA SenderNotStuck ==
  ASSUME QInv, NEW w \in Workers, wpc[w] = "sending", WorkerWaits(w),
         \A r \in Configured : BatcherWaits(r)
  PROVE  FALSE
<1> DEFINE r == RegionOf[job[w]]
<1>1. r \in Configured /\ ~done /\ Len(ch[r]) >= MetricBuffer
  BY DEF QInv, JInv, WorkerShape, WorkerWaits
<1>2. mclosed = {}
  BY DEF QInv, TakenDown, AllExited
<1>3. ch[r] # <<>>
  BY <1>1, JobManagerAssumption
<1>4. bpc[r] \notin {"finalFlush", "exited"}
  BY <1>1, <1>2 DEF QInv, LeftFor
<1> QED BY <1>1, <1>3, <1>4 DEF BatcherWaits

\* Handler, workers and batchers never all wait for one another, however many
\* there are and however small the channels; the exception is AddJob's send
\* after a cancellation, which nobody takes and no context ends.
THEOREM NobodyElseStuck == Spec => []StuckOnlyInAddJob
<1>1. QInv => StuckOnlyInAddJob
  <2> SUFFICES ASSUME QInv, HandlerWaits, \A w \in Workers : WorkerWaits(w),
                      \A r \in Configured : BatcherWaits(r)
               PROVE  main = "adding" /\ done /\ AllExited
    BY DEF StuckOnlyInAddJob
  <2>1. \A w \in Workers : \/ wpc[w] = "exited"
                           \/ wpc[w] = "select" /\ ~jobClosed /\ jobCh = <<>>
    BY SenderNotStuck DEF WorkerWaits
  <2>2. CASE main = "adding"
    <3>1. jobCh # <<>>
      BY <2>2, JobManagerAssumption DEF HandlerWaits
    <3>2. AllExited
      BY <2>1, <3>1 DEF AllExited
    <3>3. done
      BY <3>1, <3>2, JobManagerAssumption DEF AllExited, QInv, JInv, WorkerShape
    <3> QED BY <2>2, <3>2, <3>3
  <2>3. CASE main = "jobs"
    BY <2>1, <2>3 DEF HandlerWaits, AllExited, QInv, TakenDown
  <2>4. CASE main = "batchers"
    <3>1. PICK s \in mclosed : bpc[s] # "exited"
      BY <2>4 DEF HandlerWaits
    <3>2. s \in Configured
      BY DEF QInv, Types, QuotaTypeOK
    <3> QED BY <3>1, <3>2 DEF BatcherWaits, LeaveReason
  <2> QED BY <2>2, <2>3, <2>4 DEF HandlerWaits
<1> QED BY <1>1, QInvariant, PTL

\* In the invariant a returned handler has left nothing on the way.
LEMMA NothingLeft == QInv => ReturnMeansReported
<1> SUFFICES ASSUME QInv, main = "returned", ~done, NEW j \in added
             PROVE  j \in failed \/ Metrics(j) \subseteq shipped \cup reported \cup unrouted
  BY DEF ReturnMeansReported
<1>1. AllExited /\ \A r \in Configured : bpc[r] = "exited"
  BY DEF QInv, TakenDown
<1>2. \A r \in Configured : ch[r] = <<>> /\ batch[r] = <<>>
  BY <1>1 DEF QInv, LeftFor, Types, QuotaTypeOK
<1>3. ToSet(<<>>) = {}
  BY ElementsEmpty DEF QInv, JInv, JTypeOK
<1>4. ToSet(sent) \subseteq shipped \cup reported
  BY <1>2, <1>3 DEF QInv, SentKept, OnTheWay
<1>5. \/ j \in failed
      \/ Metrics(j) \subseteq ToSet(sent)
      \/ Metrics(j) \subseteq unrouted
  BY <1>1, LeftMeansPlaced DEF QInv, WaitMeansDispatched
<1> QED BY <1>4, <1>5

\* When the handler returns from an invocation that was not cancelled, every
\* metric of every added job is in CloudWatch Logs or was reported, or its
\* job was: through the channels, the batches and the closing of each in turn.
THEOREM NothingInSilence == Spec => []ReturnMeansReported
<1> QED BY NothingLeft, QInvariant, PTL

-----------------------------------------------------------------------------
(* The batcher of a region implements BatchStream.                         *)

\* The parts of the stream are sequences of metrics.
LEMMA StreamParts ==
  ASSUME QInv
  PROVE  /\ ch[Region] \in Seq(Metric) /\ batch[Region] \in Seq(Metric)
         /\ handed[Region] \in Seq(Metric) /\ Held \in Seq(Metric)
         /\ ch \in [Configured -> Seq(Metric)] /\ batch \in [Configured -> Seq(Metric)]
         /\ handed \in [Configured -> Seq(Metric)]
         /\ bpc \in [Configured -> {"select", "flushing", "finalFlush", "exited"}]
         /\ Region \in Configured
<1>1. <<>> \in Seq(Metric)
  BY EmptySeq
<1> QED BY <1>1, RegionAssumption DEF QInv, Types, QuotaTypeOK, JInv, JTypeOK, Held

\* A step that leaves the region's batcher and its channel alone.
Elsewhere ==
  /\ bpc'[Region] = bpc[Region] /\ batch'[Region] = batch[Region]
  /\ handed'[Region] = handed[Region] /\ ch'[Region] = ch[Region] /\ done' = done

\* A step elsewhere is a stutter of the stream.
LEMMA ElsewhereStream ==
  ASSUME Elsewhere
  PROVE  UNCHANGED Stream!svars
  BY DEF Elsewhere, Stream!svars, Held

\* BatchStream's RemoveAt is the one of the community modules.
LEMMA StreamRemoveAt ==
  ASSUME NEW q, NEW k
  PROVE  Stream!RemoveAt(q, k) = RemoveAt(q, k)
  BY DEF Stream!RemoveAt, RemoveAt

\* Receiving moves a metric from the channel to the batch, or rejects it.
LEMMA ReceiveStream ==
  ASSUME QInv, BatcherReceive(Region)
  PROVE  Stream!Next \/ UNCHANGED Stream!svars
<1> DEFINE x == Head(ch[Region])
           rest == Tail(ch[Region])
           b == batch[Region]
<1>1. /\ b \in Seq(Metric) /\ x \in Metric /\ rest \in Seq(Metric)
      /\ ch[Region] = <<x>> \o rest /\ Held = b
  BY StreamParts, HeadThenTail DEF BatcherReceive, Receive, Held
<1>2. /\ ch'[Region] = rest /\ bpc' = bpc /\ handed' = handed /\ done' = done
      /\ batch'[Region] = Append(b, x) \/ batch'[Region] = b
      /\ bpc[Region] = "select"
  BY StreamParts DEF BatcherReceive, Receive
<1>3. Held' = batch'[Region]
  BY <1>2 DEF Held
<1> HIDE DEF x, rest, b
<1>4. CASE batch'[Region] = Append(b, x)
  <2>1. Append(b, x) \o rest = b \o (<<x>> \o rest)
    BY <1>1, AppendShift
  <2>2. (Held \o ch[Region])' = Held \o ch[Region]
    BY <1>1, <1>2, <1>3, <1>4, <2>1
  <2> QED BY <1>2, <2>2 DEF Stream!svars
<1>5. CASE batch'[Region] = b
  <2>1. /\ RemoveAt(b \o (<<x>> \o rest), Len(b) + 1) = b \o rest
        /\ Len(b) + 1 \in 1..Len(b \o (<<x>> \o rest))
    BY <1>1, RemoveBehind
  <2>2. (Held \o ch[Region])' = RemoveAt(Held \o ch[Region], Len(b) + 1)
    BY <1>1, <1>2, <1>3, <1>5, <2>1
  <2>3. Stream!Reject(Len(b) + 1)
    BY <1>2, <2>2, StreamRemoveAt DEF Stream!Reject
  <2>4. Len(b) + 1 \in 1..Len(Held \o ch[Region])
    BY <1>1, <2>1
  <2> QED BY <2>3, <2>4 DEF Stream!Next
<1> QED BY <1>2, <1>4, <1>5

\* Calling FlushFunc delivers the batch.
LEMMA CallFlushStream ==
  ASSUME QInv, NEW to \in {"flushing", "finalFlush"}, CallFlush(Region, "select", to)
  PROVE  Stream!Next
<1> DEFINE b == batch[Region]
           c == ch[Region]
<1>1. /\ b \in Seq(Metric) /\ c \in Seq(Metric) /\ b # <<>> /\ Held = b /\ ch[Region] = c
      /\ bpc[Region] = "select"
  BY StreamParts DEF CallFlush, Held
<1>2. /\ bpc'[Region] = to /\ handed'[Region] = handed[Region] \o b
      /\ ch' = ch /\ ch'[Region] = c /\ done' = done
  BY StreamParts DEF CallFlush, jobVars, metricVars
<1>3. Held' = <<>> /\ <<>> \o c = c
  BY <1>1, <1>2, ConcatEmptySeq DEF Held
<1> HIDE DEF b, c
<1>4. /\ SubSeq(b \o c, 1, Len(b)) = b /\ SubSeq(b \o c, Len(b) + 1, Len(b \o c)) = c
      /\ Len(b) \in 1..Len(b \o c)
  <2>1. Len(b) \in Nat /\ Len(b) # 0 /\ Len(c) \in Nat /\ Len(b \o c) = Len(b) + Len(c)
    BY <1>1, LenProperties, ConcatProperties, EmptySeq
  <2>2. Len(b) \in 1..Len(b \o c)
    BY <2>1
  <2>3. SubSeq(b \o c, 1, Len(b)) = b /\ SubSeq(b \o c, Len(b) + 1, Len(b \o c)) = c
    BY <1>1, SplitConcat
  <2> QED BY <2>2, <2>3
<1>5. Stream!Deliver(Len(b))
  BY <1>1, <1>2, <1>3, <1>4 DEF Stream!Deliver
<1> QED BY <1>1, <1>4, <1>5 DEF Stream!Next

\* A batcher that leaves stops the stream.
LEMMA LeaveStream ==
  ASSUME QInv, NEW c, c = ch[Region], Held = <<>>, Held' = <<>>, done \/ c = <<>>,
         bpc'[Region] = "exited", UNCHANGED <<ch, handed, done>>
  PROVE  Stream!Next
<1>1. Held \o ch[Region] = c /\ (Held \o ch[Region])' = c
  BY StreamParts, ConcatEmptySeq
<1>2. Stream!Stop
  BY <1>1 DEF Stream!Stop
<1> QED BY <1>2 DEF Stream!Next

\* The return of a flush is nothing to the stream, or its stop.
LEMMA ReturnsStream ==
  ASSUME QInv, FlushReturns(Region) \/ BatcherExit(Region)
  PROVE  Stream!Next \/ UNCHANGED Stream!svars
<1>1. UNCHANGED <<ch, handed, done>>
  BY DEF FlushReturns, BatcherExit, jobVars, metricVars
<1>2. Held = <<>> /\ Held' = <<>>
  BY StreamParts DEF FlushReturns, BatcherExit, Held
<1>3. CASE bpc'[Region] = "exited"
  <2>1. done \/ ch[Region] = <<>>
    BY <1>3, StreamParts DEF FlushReturns, BatcherExit, LeaveReason, QInv, LeftFor
  <2> QED BY <1>1, <1>2, <1>3, <2>1, LeaveStream
<1>4. CASE bpc'[Region] # "exited"
  <2>1. bpc[Region] # "exited"
    BY <1>4, StreamParts DEF FlushReturns, BatcherExit
  <2> QED BY <1>1, <1>2, <1>4, <2>1 DEF Stream!svars
<1> QED BY <1>3, <1>4

\* A worker's send is accepted by the stream of its region.
LEMMA SendStream ==
  ASSUME QInv, NEW w \in Workers, Send(w), UNCHANGED batcherVars
  PROVE  Stream!Next \/ UNCHANGED Stream!svars
<1> DEFINE r == RegionOf[job[w]]
           m == <<job[w], next[w]>>
<1>1. r \in Configured /\ m \in Metric
  BY NextMetric DEF Send, WorkerShape, QInv, JInv
<1>2. /\ ch' = [ch EXCEPT ![r] = Append(ch[r], m)] /\ done' = done
      /\ UNCHANGED <<bpc, batch, handed>> /\ wpc[w] = "sending"
  BY DEF Send, batcherVars
<1> HIDE DEF r, m
<1>3. CASE r # Region
  <2>1. Elsewhere
    BY <1>2, <1>3, StreamParts DEF Elsewhere
  <2> QED BY <2>1, ElsewhereStream
<1>4. CASE r = Region
  <2>1. ch'[Region] = Append(ch[Region], m) /\ Held' = Held
    BY <1>2, <1>4, StreamParts DEF Held
  <2>2. Held \o Append(ch[Region], m) = Append(Held \o ch[Region], m)
    BY <1>1, StreamParts, AppendInside
  <2>3. bpc[Region] = "exited" => done
    BY <1>2, StreamParts DEF QInv, LeftFor, TakenDown, AllExited
  <2>4. Stream!Accept(m)
    BY <1>2, <2>1, <2>2, <2>3 DEF Stream!Accept
  <2> QED BY <1>1, <2>4 DEF Stream!Next
<1> QED BY <1>3, <1>4

\* Every step of the invocation is a step of the stream, or leaves it alone.
LEMMA BatcherStep ==
  ASSUME QInv, [Next]_quotaVars
  PROVE  Stream!Next \/ UNCHANGED Stream!svars
<1>1. ASSUME NEW w \in Workers, Work(w), ~Send(w), UNCHANGED batcherVars
      PROVE  Elsewhere
  BY <1>1 DEF Work, Start, SelectDone, SelectClosed, SelectJob, ExecuteFails, ExecuteReturns,
              JobFinished, DispatchInterrupted, NoChannel, StartSend, SendInterrupted,
              metricVars, batcherVars, Elsewhere
<1>2. CASE Cancel /\ UNCHANGED batcherVars
  <2>1. Stream!Cancel
    BY <1>2 DEF Cancel, Stream!Cancel, Held, metricVars, batcherVars
  <2> QED BY <2>1 DEF Stream!Next
<1>3. CASE Pool
  BY <1>1, <1>2, <1>3, SendStream, ElsewhereStream DEF Pool
<1>4. ASSUME NEW r \in Configured, r # Region, Batcher(r)
      PROVE  Elsewhere
  BY <1>4, StreamParts
  DEF Batcher, BatcherReceive, Receive, BatcherFlush, CallFlush, FlushReturns, BatcherExit,
      Elsewhere, jobVars, metricVars
<1>5. CASE Batcher(Region)
  BY <1>5, ReceiveStream, CallFlushStream, ReturnsStream DEF Batcher, BatcherFlush
<1>6. CASE AddJobs \/ Fatal \/ WaitJobs \/ JobsDone \/ Return \/ UNCHANGED quotaVars
           \/ \E r \in Configured : CloseBatcher(r)
  <2>1. Elsewhere
    BY <1>6 DEF AddJobs, AddJob, Enqueue, Fatal, WaitJobs, Wait, JobsDone, Return, CloseBatcher,
                quotaVars, jobVars, metricVars, batcherVars, Elsewhere
  <2> QED BY <2>1, ElsewhereStream
<1> QED BY <1>3, <1>4, <1>5, <1>6, ElsewhereStream DEF Next

\* In whatever order HandleRequest, the workers and the other batchers run,
\* the batcher of each region is a stream to the workers that feed it.
THEOREM BatcherIsStream == Spec => BatcherSpec
<1>1. Init => Stream!Init
  <2> SUFFICES ASSUME Init PROVE Stream!Init
    OBVIOUS
  <2>1. <<>> \o <<>> = <<>>
    OBVIOUS
  <2> QED BY <2>1, RegionAssumption DEF Init, JInit, Stream!Init, Held
<1>2. QInv /\ [Next]_quotaVars => [Stream!Next]_(Stream!svars)
  BY BatcherStep
<1> QED BY QInvariant, <1>1, <1>2, PTL DEF Spec, BatcherSpec, Stream!Spec
=============================================================================
