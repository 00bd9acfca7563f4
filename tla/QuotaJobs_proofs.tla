--------------------------- MODULE QuotaJobs_proofs ---------------------------
(***************************************************************************)
(* Theorems about QuotaJobs, for every set of configurations, every number *)
(* of resources and every page size.                                       *)
(***************************************************************************)
EXTENDS QuotaJobs, SequenceFacts, FiniteSetTheorems, TLAPS

-----------------------------------------------------------------------------
(* The inductive invariant.                                                *)

AllRegions == ToSet(cfg.regions)
AllNames == UNION {ToSet(cfg.services[s]) : s \in DOMAIN cfg.services}
Outcomes == {"queued", "failed", "refreshed", "unrouted", "published"}

JobType == [region : AllRegions \cup {UsEast1},
            measures : {"pages", "once", "refresh", "nau"},
            metric : {"networkInterfaces", "totalEksClusters", "oidcProviders", "none", "vpcNAU"},
            scale : {0, 1, 100}]
RecordType == [job : JobType, at : 1..RegionCount, service : DOMAIN cfg.services, name : AllNames,
               outcome : Outcomes]

\* The list of jobs and the list of names the handler is going through.
ListTypes ==
  /\ jobs \in Seq(RecordType)
  /\ names \in Seq(AllNames)
  /\ names # <<>> => service \in DOMAIN cfg.services /\ ri <= RegionCount

\* What the metric of a job is scaled by, and the region it reports for.
Scaled(j) ==
  /\ j.metric = "vpcNAU" <=> j.measures = "nau"
  /\ j.measures # "refresh" => j.scale = IF j.metric = "vpcNAU" THEN 1 ELSE 100
Local(j, name, r) == j.region = r \/ (name = "oidcProviders" /\ j.region = UsEast1)
JobsShaped ==
  \A k \in DOMAIN jobs : Scaled(jobs[k].job) /\ Local(jobs[k].job, jobs[k].name, Region(jobs[k].at))

\* Nothing is built before the batchers are there.
Early ==
  /\ pc \in {"load", "ensure", "batchers"} => jobs = <<>> /\ names = <<>> /\ published = {}
  /\ pc \in {"load", "ensure"} => ri = 1
  /\ pc \notin {"load", "fatal"} => Valid(cfg)

\* A batcher and a channel of the same place for every region the loop has passed.
MapsAgree ==
  /\ batcherOf = chanOf
  /\ \A r \in DOMAIN chanOf : chanOf[r] \in 1..RegionCount
  /\ pc = "batchers" => \A i \in 1..RegionCount : i < ri => Region(i) \in DOMAIN chanOf
  /\ pc \in {"build", "handle", "done"} => DOMAIN chanOf = AllRegions

\* Every metric is on a channel of the map; a job that found none is for a
\* region that is not in the list.
Routed ==
  /\ \A p \in published : \E r \in DOMAIN chanOf : p.to = chanOf[r]
  /\ \A k \in DOMAIN jobs : jobs[k].outcome = "unrouted" => jobs[k].job.region \notin AllRegions

\* The name of a service there is to be a job for, and such a job.
Due(s, name) == s \in DOMAIN ValidNames /\ name \in ToSet(cfg.services[s]) \ {"gp3storage"}
HasJob(i, s, name) == \E k \in DOMAIN jobs : jobs[k].at = i /\ jobs[k].service = s /\ jobs[k].name = name

\* The loops have added a job for every name they have passed.
Added ==
  /\ pc \in {"handle", "done"} => ri > RegionCount
  /\ pc \in {"build", "handle", "done"} =>
       \A i \in 1..RegionCount, s \in DOMAIN cfg.services, name \in AllNames :
         Due(s, name) =>
           /\ i < ri => HasJob(i, s, name)
           /\ i = ri => s \in services \/ (s = service /\ name \in ToSet(names)) \/ HasJob(i, s, name)

\* An invocation returns when every job is finished and every batcher closed.
Finished ==
  pc = "done" => /\ \A k \in DOMAIN jobs : jobs[k].outcome # "queued"
                 /\ closed = {batcherOf[r] : r \in DOMAIN batcherOf}

\* What the worker has sent of the job it is at, and of the jobs it finished.
Sent(k, v) == \E p \in published : p.m.by = k /\ p.m.vpc = v
Sending ==
  sending => /\ cur # 0 /\ counted = Have /\ Job.measures # "refresh"
             /\ Job.region \in DOMAIN chanOf => \A v \in Targets(Job) \ unsent : Sent(cur, v)
AllSent ==
  \A k \in DOMAIN jobs :
    jobs[k].outcome = "published" => \A v \in Targets(jobs[k].job) : Sent(k, v)

QuotaInv == /\ TypeOK /\ ListTypes /\ JobsShaped /\ Early /\ MapsAgree /\ Routed
            /\ Added /\ Finished /\ Sending /\ AllSent /\ CompleteCounts

-----------------------------------------------------------------------------
(* The jobs of a name, and the sequence they are appended as.              *)

\* The sequence of a set of at most one element.
LEMMA SequenceOfFew ==
  ASSUME NEW S, NEW x \in S
  PROVE  /\ SetToSeq({}) = <<>>
         /\ SetToSeq({x}) \in Seq(S) /\ Len(SetToSeq({x})) = 1 /\ SetToSeq({x})[1] = x
<1>1. SetToSeq({}) = <<>>
  <2>1. Cardinality({}) = 0
    BY FS_EmptySet
  <2>2. \A f : f \in [1..0 -> {}] => f = <<>>
    OBVIOUS
  <2>3. <<>> \in [1..0 -> {}] /\ IsInjective(<<>>)
    BY DEF IsInjective
  <2>4. (CHOOSE f \in [1..0 -> {}] : IsInjective(f)) = <<>>
    BY <2>2, <2>3
  <2> QED BY <2>1, <2>4 DEF SetToSeq
<1>2. SetToSeq({x}) \in [1..1 -> {x}]
  <2>1. Cardinality({x}) = 1
    BY FS_Singleton
  <2>2. [i \in 1..1 |-> x] \in [1..1 -> {x}] /\ IsInjective([i \in 1..1 |-> x])
    BY DEF IsInjective
  <2> QED BY <2>1, <2>2 DEF SetToSeq
<1>3. SetToSeq({x}) \in Seq(S) /\ Len(SetToSeq({x})) = 1
  <2>1. SetToSeq({x}) \in [1..1 -> S]
    BY <1>2
  <2>2. SetToSeq({x}) \in Seq(S)
    BY <2>1, SeqDef
  <2>3. Len(SetToSeq({x})) \in Nat /\ 1..Len(SetToSeq({x})) = 1..1
    BY <2>1, <2>2, LenProperties
  <2>4. \A n \in Nat : 1..n = 1..1 => n = 1
    <3>1. \A n \in Nat : 1 \in 1..n /\ 2 \notin 1..n => n = 1
      OBVIOUS
    <3> QED BY <3>1
  <2> QED BY <2>2, <2>3, <2>4
<1> QED BY <1>1, <1>2, <1>3

\* Every name has at most one job, of a kind that publishes as it should.
LEMMA OneJobForAName ==
  ASSUME NEW s, NEW name, NEW r, NEW j \in JobsFor(s, name, r)
  PROVE  /\ JobsFor(s, name, r) = {j}
         /\ Scaled(j) /\ Local(j, name, r)
         /\ j \in [region : {r, UsEast1},
                   measures : {"pages", "once", "refresh", "nau"},
                   metric : {"networkInterfaces", "totalEksClusters", "oidcProviders", "none", "vpcNAU"},
                   scale : {0, 1, 100}]
<1>1. \/ j = NetworkInterfaceJob(r) \/ j = ListClusterJob(r) \/ j = IamRoleJob(r)
      \/ j = Gp3StorageJob(r) \/ j = VPCNAUJob(r)
      \/ j = OIDCProviderJob(UsEast1) /\ name = "oidcProviders"
  BY DEF JobsFor, Ec2Jobs, EksJobs, IamJobs, EbsJobs, VpcJobs
<1>2. JobsFor(s, name, r) = {j}
  BY DEF JobsFor, Ec2Jobs, EksJobs, IamJobs, EbsJobs, VpcJobs
<1>3. Scaled(j) /\ Local(j, name, r)
  BY <1>1
  DEF Scaled, Local, NetworkInterfaceJob, ListClusterJob, IamRoleJob, Gp3StorageJob, VPCNAUJob, OIDCProviderJob
<1>4. j \in [region : {r, UsEast1},
             measures : {"pages", "once", "refresh", "nau"},
             metric : {"networkInterfaces", "totalEksClusters", "oidcProviders", "none", "vpcNAU"},
             scale : {0, 1, 100}]
  BY <1>1
  DEF NetworkInterfaceJob, ListClusterJob, IamRoleJob, Gp3StorageJob, VPCNAUJob, OIDCProviderJob
<1> QED BY <1>2, <1>3, <1>4

\* A name that validates is matched, but for gp3storage.
LEMMA ValidNameHasJob ==
  ASSUME NEW s \in DOMAIN ValidNames, NEW name \in ValidNames[s] \ {"gp3storage"}, NEW r
  PROVE  JobsFor(s, name, r) # {}
<1>1. s \in {"ec2", "eks", "iam", "ebs", "vpc"}
  BY DEF ValidNames
<1>2. CASE s = "ec2"
  BY <1>2 DEF ValidNames, JobsFor, Ec2Jobs
<1>3. CASE s = "eks"
  BY <1>3 DEF ValidNames, JobsFor, EksJobs
<1>4. CASE s = "iam"
  BY <1>4 DEF ValidNames, JobsFor, IamJobs
<1>5. CASE s = "ebs"
  BY <1>5 DEF ValidNames
<1>6. CASE s = "vpc"
  BY <1>6 DEF ValidNames, JobsFor, VpcJobs
<1> QED BY <1>1, <1>2, <1>3, <1>4, <1>5, <1>6

\* What the configuration's lists are made of.
LEMMA Lists ==
  ASSUME cfg \in Configs
  PROVE  /\ cfg.regions \in Seq(AllRegions) /\ RegionCount \in Nat
         /\ DOMAIN cfg.regions = 1..RegionCount /\ AllRegions = {Region(i) : i \in 1..RegionCount}
         /\ \A s \in DOMAIN cfg.services :
              cfg.services[s] \in Seq(AllNames) /\ ToSet(cfg.services[s]) \subseteq AllNames
<1>1. cfg.regions \in Seq(AllRegions)
  BY QuotaJobsAssumption DEF AllRegions
<1>2. RegionCount \in Nat /\ DOMAIN cfg.regions = 1..RegionCount
  BY <1>1, LenProperties DEF RegionCount
<1>3. AllRegions = {Region(i) : i \in 1..RegionCount}
  BY <1>2 DEF AllRegions, Region, ToSet
<1>4. ASSUME NEW s \in DOMAIN cfg.services
      PROVE  cfg.services[s] \in Seq(AllNames) /\ ToSet(cfg.services[s]) \subseteq AllNames
  <2>1. cfg.services[s] \in Seq(ToSet(cfg.services[s])) /\ ToSet(cfg.services[s]) \subseteq AllNames
    BY QuotaJobsAssumption DEF AllNames
  <2> QED BY <2>1
<1> QED BY <1>1, <1>2, <1>3, <1>4

\* The record AddJob is given for a job of the name at hand.
NewRecord(j) == [job |-> j, at |-> ri, service |-> service, name |-> Head(names), outcome |-> "queued"]

\* AddConfiguredJob appends the name's job, if it has one, and nothing else.
LEMMA JobAdded ==
  ASSUME TypeOK, ListTypes, AddConfiguredJob
  PROVE  /\ jobs' \in Seq(RecordType) /\ names' \in Seq(AllNames)
         /\ \A k \in DOMAIN jobs : k \in DOMAIN jobs' /\ jobs'[k] = jobs[k]
         /\ \A k \in DOMAIN jobs' \ DOMAIN jobs :
              \E j \in JobsFor(service, Head(names), Region(ri)) : jobs'[k] = NewRecord(j)
         /\ JobsFor(service, Head(names), Region(ri)) # {} =>
              \E k \in DOMAIN jobs' : /\ jobs'[k].at = ri /\ jobs'[k].service = service
                                      /\ jobs'[k].name = Head(names)
<1> DEFINE J == JobsFor(service, Head(names), Region(ri))
<1>1. /\ names # <<>> /\ Head(names) \in AllNames /\ service \in DOMAIN cfg.services
      /\ ri \in 1..RegionCount /\ Region(ri) \in AllRegions /\ names' \in Seq(AllNames)
  <2>1. names # <<>> /\ names \in Seq(AllNames) /\ names' = Tail(names)
    BY DEF AddConfiguredJob, ListTypes
  <2>2. ri \in 1..RegionCount /\ Region(ri) \in AllRegions
    BY <2>1, Lists DEF TypeOK, ListTypes
  <2> QED BY <2>1, <2>2, HeadThenTail DEF ListTypes
<1>2. jobs \in Seq(RecordType) /\ Len(jobs) \in Nat /\ DOMAIN jobs = 1..Len(jobs)
  BY LenProperties DEF ListTypes
<1>3. jobs' = jobs \o SetToSeq({NewRecord(j) : j \in J})
  BY DEF AddConfiguredJob, NewRecord
<1>4. CASE J = {}
  <2>1. {NewRecord(j) : j \in J} = {}
    BY <1>4
  <2>2. SetToSeq({}) = <<>>
    BY SequenceOfFew
  <2>3. jobs' = jobs
    BY <1>2, <1>3, <2>1, <2>2, ConcatEmptySeq
  <2> QED BY <1>1, <1>2, <1>4, <2>3
<1>5. ASSUME NEW j \in J
      PROVE  /\ jobs' \in Seq(RecordType) /\ DOMAIN jobs' = 1..(Len(jobs) + 1)
             /\ \A k \in DOMAIN jobs : jobs'[k] = jobs[k]
             /\ jobs'[Len(jobs) + 1] = NewRecord(j)
  <2> DEFINE q == SetToSeq({NewRecord(j)})
  <2>1. NewRecord(j) \in RecordType
    <3>1. j \in JobType
      BY <1>1, <1>5, OneJobForAName DEF JobType
    <3> QED BY <1>1, <3>1 DEF NewRecord, RecordType, Outcomes
  <2>2. q \in Seq(RecordType) /\ Len(q) = 1 /\ q[1] = NewRecord(j)
    BY <2>1, SequenceOfFew
  <2>3. jobs' = jobs \o q
    <3>1. J = {j}
      BY <1>5, OneJobForAName
    <3> QED BY <1>3, <3>1
  <2> HIDE DEF q
  <2>4. /\ jobs \o q \in Seq(RecordType) /\ Len(jobs \o q) = Len(jobs) + 1
        /\ \A k \in 1..(Len(jobs) + 1) : (jobs \o q)[k] = IF k <= Len(jobs) THEN jobs[k] ELSE q[k - Len(jobs)]
    BY <1>2, <2>2, ConcatProperties
  <2>5. DOMAIN (jobs \o q) = 1..(Len(jobs) + 1)
    BY <2>4, LenProperties
  <2>6. (jobs \o q)[Len(jobs) + 1] = q[1]
    BY <1>2, <2>4
  <2>7. \A k \in DOMAIN jobs : (jobs \o q)[k] = jobs[k]
    BY <1>2, <2>4
  <2> QED BY <2>2, <2>3, <2>4, <2>5, <2>6, <2>7
<1>6. ASSUME NEW j \in J
      PROVE  /\ DOMAIN jobs \subseteq DOMAIN jobs' /\ DOMAIN jobs' \ DOMAIN jobs = {Len(jobs) + 1}
  BY <1>2, <1>5
<1>7. CASE J # {}
  <2>1. PICK j \in J : TRUE
    BY <1>7
  <2>2. /\ NewRecord(j).at = ri /\ NewRecord(j).service = service /\ NewRecord(j).name = Head(names)
    BY DEF NewRecord
  <2>3. Len(jobs) + 1 \in DOMAIN jobs'
    BY <1>6, <2>1
  <2> QED BY <1>1, <1>5, <1>6, <2>1, <2>2, <2>3
<1> QED BY <1>4, <1>7

\* What a job that ends changes: its outcome.
LEMMA JobEnds ==
  ASSUME TypeOK, ListTypes, cur # 0, NEW outcome \in Outcomes, Finish(outcome)
  PROVE  /\ jobs' \in Seq(RecordType) /\ DOMAIN jobs' = DOMAIN jobs /\ Len(jobs') = Len(jobs)
         /\ cur \in DOMAIN jobs
         /\ \A k \in DOMAIN jobs :
              /\ jobs'[k].job = jobs[k].job /\ jobs'[k].at = jobs[k].at
              /\ jobs'[k].service = jobs[k].service /\ jobs'[k].name = jobs[k].name
              /\ k # cur => jobs'[k].outcome = jobs[k].outcome
         /\ jobs'[cur].outcome = outcome
<1>1. jobs \in Seq(RecordType) /\ Len(jobs) \in Nat /\ DOMAIN jobs = 1..Len(jobs) /\ cur \in 1..Len(jobs)
  BY LenProperties DEF ListTypes, TypeOK
<1>2. jobs' = [jobs EXCEPT ![cur] = [jobs[cur] EXCEPT !.outcome = outcome]]
  BY DEF Finish
<1>3. jobs[cur] \in RecordType
  BY <1>1
<1>4. [jobs[cur] EXCEPT !.outcome = outcome] \in RecordType
  BY <1>3 DEF RecordType
<1>5. jobs' \in Seq(RecordType) /\ Len(jobs') = Len(jobs)
  BY <1>1, <1>2, <1>4, ExceptSeq
<1>6. DOMAIN jobs' = DOMAIN jobs
  BY <1>2
<1>7. \A k \in DOMAIN jobs : jobs'[k] = IF k = cur THEN [jobs[cur] EXCEPT !.outcome = outcome] ELSE jobs[k]
  BY <1>1, <1>2
<1>8. /\ [jobs[cur] EXCEPT !.outcome = outcome].job = jobs[cur].job
      /\ [jobs[cur] EXCEPT !.outcome = outcome].at = jobs[cur].at
      /\ [jobs[cur] EXCEPT !.outcome = outcome].service = jobs[cur].service
      /\ [jobs[cur] EXCEPT !.outcome = outcome].name = jobs[cur].name
      /\ [jobs[cur] EXCEPT !.outcome = outcome].outcome = outcome
  BY <1>3 DEF RecordType
<1> QED BY <1>1, <1>5, <1>6, <1>7, <1>8

\* What a step of the worker changes: its counter, or the outcome of its job.
LEMMA WorkerMoves ==
  ASSUME Sending, Execute
  PROVE  /\ Alive /\ UNCHANGED <<cfg, pc, place, maps, closed>>
         /\ \/ UNCHANGED jobs
            \/ /\ cur # 0
               /\ \E outcome \in Outcomes \ {"queued"} :
                    /\ Finish(outcome)
                    /\ outcome = "unrouted" => Job.region \notin DOMAIN chanOf
         /\ UNCHANGED published \/ Send
<1>1. CASE Dispatched
  <2>1. (IF Job.region \in DOMAIN chanOf THEN "published" ELSE "unrouted") \in Outcomes \ {"queued"}
    BY DEF Outcomes
  <2>2. cur # 0
    BY <1>1 DEF Dispatched, Sending
  <2> QED BY <1>1, <2>1, <2>2 DEF Dispatched
<1>2. CASE Refresh \/ ExecuteFails
  BY <1>2 DEF Refresh, ExecuteFails, Working, Outcomes
<1>3. CASE TakeJob \/ ListPage \/ Measure \/ GetServiceQuota \/ Send \/ NoChannel
  BY <1>3 DEF TakeJob, ListPage, Measure, GetServiceQuota, Send, NoChannel, Working
<1> QED BY <1>1, <1>2, <1>3 DEF Execute

\* The configuration is read once.
LEMMA ConfigStays ==
  ASSUME Sending, [Next]_vars
  PROVE  /\ cfg' = cfg /\ RecordType' = RecordType /\ AllNames' = AllNames /\ AllRegions' = AllRegions
         /\ RegionCount' = RegionCount /\ \A i : Region(i)' = Region(i)
<1>1. cfg' = cfg
  BY WorkerMoves
  DEF Next, vars, HandleRequest, loadServiceConfig, ensureLogGroup, initMetricBatchers, VisitService,
      AddConfiguredJob, NextRegion, HandleEvent, Fatal
<1> QED BY <1>1 DEF RecordType, JobType, AllNames, AllRegions, RegionCount, Region

-----------------------------------------------------------------------------
(* Types.                                                                  *)

\* The initial values have their types.
LEMMA InitTypes == Init => TypeOK /\ ListTypes
<1> SUFFICES ASSUME Init PROVE TypeOK /\ ListTypes
  OBVIOUS
<1>1. cfg \in Configs /\ RegionCount \in Nat
  BY Lists DEF Init
<1>2. jobs \in Seq(RecordType) /\ names \in Seq(AllNames) /\ Len(jobs) = 0
  BY EmptySeq DEF Init
<1>3. 1 \in 1..(RegionCount + 1) /\ 0 \in 0..0 /\ 0 \in 0..Have /\ DOMAIN jobs = {} /\ DOMAIN chanOf = {}
  BY <1>1, QuotaJobsAssumption DEF Init
<1> QED BY <1>1, <1>2, <1>3 DEF Init, TypeOK, ListTypes

\* The handler's steps keep the types.
LEMMA RequestTypes ==
  ASSUME TypeOK, ListTypes, Early, MapsAgree, Sending, [Next]_vars, HandleRequest
  PROVE  TypeOK' /\ ListTypes'
<1>0. /\ cfg' = cfg /\ RecordType' = RecordType /\ AllNames' = AllNames /\ RegionCount' = RegionCount
      /\ RegionCount \in Nat /\ DOMAIN cfg.regions = 1..RegionCount /\ ToSet(cfg.regions) = AllRegions
      /\ \A i \in 1..RegionCount : Region(i) \in AllRegions
  BY ConfigStays, Lists DEF TypeOK, AllRegions
<1>1. CASE loadServiceConfig \/ ensureLogGroup \/ Fatal
  BY <1>0, <1>1 DEF loadServiceConfig, ensureLogGroup, Fatal, TypeOK, ListTypes, place, maps, worker
<1>2. CASE initMetricBatchers
  <2>1. UNCHANGED <<cfg, names, service, jobs, cur, counted, sending, unsent, closed>> /\ ri' \in 1..(RegionCount + 1)
        /\ services' \subseteq DOMAIN cfg.services /\ pc' \in {"batchers", "build"}
    BY <1>0, <1>2 DEF initMetricBatchers, worker, TypeOK
  <2>2. DOMAIN batcherOf' = DOMAIN chanOf' /\ DOMAIN chanOf' \subseteq AllRegions
    BY <1>0, <1>2 DEF initMetricBatchers, Store, maps, TypeOK
  <2>3. names = <<>>
    BY <1>2 DEF initMetricBatchers, Early
  <2> QED BY <1>0, <2>1, <2>2, <2>3 DEF TypeOK, ListTypes
<1>3. CASE VisitService
  <2>1. /\ services' \subseteq services /\ service' \in services /\ names' = cfg.services[service']
        /\ ri <= RegionCount /\ UNCHANGED <<cfg, pc, ri, maps, jobs, worker, published, closed>>
    BY <1>3 DEF VisitService
  <2>2. names' \in Seq(AllNames) /\ service' \in DOMAIN cfg.services
    BY <2>1, Lists DEF TypeOK
  <2> QED BY <1>0, <2>1, <2>2 DEF TypeOK, ListTypes, maps, worker
<1>4. CASE AddConfiguredJob
  <2>1. UNCHANGED <<cfg, pc, ri, services, service, maps, worker, closed>> /\ names # <<>>
    BY <1>4 DEF AddConfiguredJob
  <2>2. jobs' \in Seq(RecordType) /\ names' \in Seq(AllNames) /\ DOMAIN jobs \subseteq DOMAIN jobs'
    BY <1>4, JobAdded
  <2>3. cur' \in 0..Len(jobs')
    <3>1. Len(jobs) \in Nat /\ Len(jobs') \in Nat /\ 1..Len(jobs) \subseteq 1..Len(jobs')
      BY <2>2, LenProperties DEF ListTypes
    <3>2. cur = 0 \/ cur \in 1..Len(jobs)
      BY <3>1 DEF TypeOK
    <3> QED BY <2>1, <3>1, <3>2 DEF worker
  <2>4. \A k \in DOMAIN jobs' : jobs'[k].outcome \in Outcomes
    <3>1. \A k \in DOMAIN jobs' : jobs'[k] \in RecordType
      BY <2>2, LenProperties
    <3> QED BY <3>1 DEF RecordType
  <2> QED BY <1>0, <2>1, <2>2, <2>3, <2>4 DEF TypeOK, ListTypes, maps, worker, Outcomes
<1>5. CASE NextRegion
  <2>1. ri' \in 1..(RegionCount + 1) /\ services' \subseteq DOMAIN cfg.services /\ names = <<>>
        /\ pc' \in {"build", "handle"} /\ UNCHANGED <<cfg, service, names, maps, jobs, worker, closed>>
    BY <1>0, <1>5 DEF NextRegion, TypeOK
  <2> QED BY <1>0, <2>1 DEF TypeOK, ListTypes, maps, worker
<1>6. CASE HandleEvent
  <2>1. closed' \subseteq 1..RegionCount /\ pc' = "done"
        /\ UNCHANGED <<cfg, place, maps, jobs, worker>>
    BY <1>6 DEF HandleEvent, MapsAgree
  <2> QED BY <1>0, <2>1 DEF TypeOK, ListTypes, place, maps, worker
<1> QED BY <1>1, <1>2, <1>3, <1>4, <1>5, <1>6 DEF HandleRequest

\* The worker's steps keep the types.
LEMMA WorkerTypes ==
  ASSUME TypeOK, ListTypes, Sending, [Next]_vars, Execute
  PROVE  TypeOK' /\ ListTypes'
<1>0. /\ RecordType' = RecordType /\ AllNames' = AllNames /\ RegionCount' = RegionCount
      /\ UNCHANGED <<cfg, pc, ri, services, service, names, batcherOf, chanOf, closed>>
  BY ConfigStays, WorkerMoves DEF place, maps
<1>1. /\ jobs' \in Seq(RecordType) /\ Len(jobs') = Len(jobs)
      /\ \A k \in DOMAIN jobs' : jobs'[k].outcome \in Outcomes
  <2>1. jobs' \in Seq(RecordType) /\ Len(jobs') = Len(jobs)
    BY WorkerMoves, JobEnds DEF ListTypes
  <2>2. \A k \in DOMAIN jobs' : jobs'[k] \in RecordType
    BY <2>1, LenProperties
  <2> QED BY <2>1, <2>2 DEF RecordType
<1>2. cur' \in 0..Len(jobs) /\ counted' \in 0..Have
  <2>1. Len(jobs) \in Nat /\ DOMAIN jobs = 1..Len(jobs) /\ Have \in Nat /\ PageSize \in Nat
    BY LenProperties, QuotaJobsAssumption DEF ListTypes
  <2>2. CASE TakeJob
    BY <2>1, <2>2 DEF TakeJob, TypeOK
  <2>3. CASE ListPage
    BY <2>1, <2>3 DEF ListPage, TypeOK
  <2>4. CASE Measure
    BY <2>1, <2>4 DEF Measure, TypeOK
  <2>5. CASE Refresh \/ ExecuteFails \/ Dispatched
    BY <2>1, <2>5 DEF Refresh, ExecuteFails, Dispatched, Finish
  <2>6. CASE GetServiceQuota \/ Send \/ NoChannel
    BY <2>1, <2>6 DEF GetServiceQuota, Send, NoChannel, TypeOK
  <2> QED BY <2>2, <2>3, <2>4, <2>5, <2>6 DEF Execute
<1>3. sending' \in BOOLEAN /\ unsent' \subseteq VpcIds \cup {"none"}
  <2>1. CASE TakeJob \/ ListPage \/ Measure
    BY <2>1 DEF TakeJob, ListPage, Measure, TypeOK
  <2>2. CASE Refresh \/ ExecuteFails \/ Dispatched
    BY <2>2 DEF Refresh, ExecuteFails, Dispatched, Finish
  <2>3. CASE GetServiceQuota
    BY <2>3 DEF GetServiceQuota, Targets
  <2>4. CASE Send \/ NoChannel
    BY <2>4 DEF Send, NoChannel, TypeOK
  <2> QED BY <2>1, <2>2, <2>3, <2>4 DEF Execute
<1> QED BY <1>0, <1>1, <1>2, <1>3 DEF TypeOK, ListTypes, Outcomes

\* Every step keeps the types.
LEMMA TypesStep ==
  ASSUME TypeOK, ListTypes, Early, MapsAgree, Sending, [Next]_vars
  PROVE  TypeOK' /\ ListTypes'
<1>1. CASE UNCHANGED vars
  <2>1. RecordType' = RecordType /\ AllNames' = AllNames /\ RegionCount' = RegionCount
    BY ConfigStays
  <2> QED BY <1>1, <2>1 DEF vars, place, maps, worker, TypeOK, ListTypes
<1> QED BY <1>1, RequestTypes, WorkerTypes DEF Next

-----------------------------------------------------------------------------
(* The order of the handler's phases.                                      *)

\* Jobs, names and metrics begin with the build phase.
LEMMA EarlyStep ==
  ASSUME TypeOK, Early, Sending, [Next]_vars
  PROVE  Early'
<1>1. CASE UNCHANGED vars
  BY <1>1 DEF vars, place, Early, Valid
<1>2. CASE HandleRequest
  BY <1>2
  DEF HandleRequest, loadServiceConfig, ensureLogGroup, initMetricBatchers, VisitService,
      AddConfiguredJob, NextRegion, HandleEvent, Fatal, place, Early, Valid
<1>3. CASE Execute
  <2>1. pc \in {"build", "handle"} /\ UNCHANGED <<pc, cfg>>
    BY <1>3, WorkerMoves DEF Alive
  <2> QED BY <2>1 DEF Early, Valid
<1> QED BY <1>1, <1>2, <1>3 DEF Next

\* Storing a place for a region keeps the other regions' places.
LEMMA StoreFacts ==
  ASSUME NEW f, NEW k, NEW v
  PROVE  /\ DOMAIN Store(f, k, v) = DOMAIN f \cup {k}
         /\ \A x \in DOMAIN Store(f, k, v) : Store(f, k, v)[x] = IF x = k THEN v ELSE f[x]
  BY DEF Store

\* Both maps are stored to together, for one region after the other.
LEMMA MapsAgreeStep ==
  ASSUME TypeOK, Early, MapsAgree, Sending, [Next]_vars
  PROVE  MapsAgree'
<1>0. /\ RegionCount' = RegionCount /\ AllRegions' = AllRegions /\ \A i : Region(i)' = Region(i)
      /\ RegionCount \in Nat /\ AllRegions = {Region(i) : i \in 1..RegionCount}
  BY ConfigStays, Lists DEF TypeOK
<1>1. CASE UNCHANGED <<pc, ri, batcherOf, chanOf>>
  BY <1>0, <1>1 DEF MapsAgree
<1>2. CASE loadServiceConfig \/ ensureLogGroup \/ Fatal
  <2>1. UNCHANGED <<ri, batcherOf, chanOf>> /\ pc' \in {"ensure", "batchers", "fatal"}
        /\ (pc' = "batchers" => ri = 1)
    BY <1>2 DEF loadServiceConfig, ensureLogGroup, Fatal, place, maps, Early
  <2> QED BY <1>0, <2>1 DEF MapsAgree
<1>3. CASE initMetricBatchers
  <2>1. CASE ri <= RegionCount
    <3>1. /\ pc = "batchers" /\ pc' = pc /\ ri' = ri + 1 /\ ri \in 1..RegionCount
          /\ batcherOf' = Store(batcherOf, Region(ri), ri) /\ chanOf' = Store(chanOf, Region(ri), ri)
      BY <1>0, <1>3, <2>1 DEF initMetricBatchers, TypeOK
    <3>2. batcherOf' = chanOf'
      BY <3>1 DEF MapsAgree
    <3>3. \A r \in DOMAIN chanOf' : chanOf'[r] \in 1..RegionCount
      <4> SUFFICES ASSUME NEW r \in DOMAIN Store(chanOf, Region(ri), ri)
                   PROVE  Store(chanOf, Region(ri), ri)[r] \in 1..RegionCount
        BY <3>1
      <4>1. r \in DOMAIN chanOf \/ r = Region(ri)
        BY DEF Store
      <4>2. Store(chanOf, Region(ri), ri)[r] = IF r = Region(ri) THEN ri ELSE chanOf[r]
        BY DEF Store
      <4> QED BY <3>1, <4>1, <4>2 DEF MapsAgree
    <3>4. \A i \in 1..RegionCount : i < ri' => Region(i) \in DOMAIN chanOf'
      <4> SUFFICES ASSUME NEW i \in 1..RegionCount, i < ri + 1
                   PROVE  Region(i) \in DOMAIN chanOf \cup {Region(ri)}
        BY <3>1, StoreFacts
      <4>1. i < ri \/ i = ri
        BY <3>1
      <4> QED BY <3>1, <4>1 DEF MapsAgree
    <3> QED BY <1>0, <3>1, <3>2, <3>3, <3>4 DEF MapsAgree
  <2>2. CASE ri > RegionCount
    <3>1. pc = "batchers" /\ pc' = "build" /\ UNCHANGED <<batcherOf, chanOf>>
      BY <1>0, <1>3, <2>2 DEF initMetricBatchers, maps, TypeOK
    <3>2. \A i \in 1..RegionCount : Region(i) \in DOMAIN chanOf
      BY <1>0, <2>2, <3>1 DEF MapsAgree, TypeOK
    <3>3. DOMAIN chanOf = AllRegions
      BY <1>0, <3>2 DEF TypeOK, AllRegions
    <3> QED BY <1>0, <3>1, <3>3 DEF MapsAgree
  <2> QED BY <1>0, <2>1, <2>2 DEF TypeOK
<1>4. CASE VisitService \/ AddConfiguredJob \/ NextRegion \/ HandleEvent
  <2>1. UNCHANGED <<batcherOf, chanOf>> /\ pc \in {"build", "handle"} /\ pc' \in {"build", "handle", "done"}
    BY <1>4 DEF VisitService, AddConfiguredJob, NextRegion, HandleEvent, maps
  <2> QED BY <1>0, <2>1 DEF MapsAgree
<1>5. CASE UNCHANGED vars \/ Execute
  BY <1>1, <1>5, WorkerMoves DEF vars, place, maps
<1> QED BY <1>2, <1>3, <1>4, <1>5 DEF Next, HandleRequest

\* Only the return ends the invocation, and nothing moves after it.
LEMMA FinishedStep ==
  ASSUME TypeOK, Finished, Sending, [Next]_vars
  PROVE  Finished'
<1>1. CASE UNCHANGED vars
  BY <1>1 DEF vars, maps, Finished
<1>2. CASE HandleEvent
  BY <1>2 DEF HandleEvent, maps, Finished
<1>3. CASE Execute
  <2>1. pc # "done" /\ pc' = pc
    BY <1>3, WorkerMoves DEF Alive
  <2> QED BY <2>1 DEF Finished
<1>4. CASE HandleRequest /\ ~HandleEvent
  <2>1. pc' # "done"
    BY <1>4
    DEF HandleRequest, loadServiceConfig, ensureLogGroup, initMetricBatchers, VisitService,
        AddConfiguredJob, NextRegion, Fatal
  <2> QED BY <2>1 DEF Finished
<1> QED BY <1>1, <1>2, <1>3, <1>4 DEF Next

-----------------------------------------------------------------------------
(* The jobs and their metrics.                                             *)

\* A step of the handler that adds no job touches no job and no metric.
LEMMA HandlerMoves ==
  ASSUME HandleRequest \/ UNCHANGED vars
  PROVE  /\ UNCHANGED published /\ (UNCHANGED jobs \/ AddConfiguredJob)
         /\ \/ UNCHANGED chanOf
            \/ pc = "batchers"
  BY DEF HandleRequest, loadServiceConfig, ensureLogGroup, initMetricBatchers, VisitService,
         AddConfiguredJob, NextRegion, HandleEvent, Fatal, maps, vars

\* Jobs are added with the scale and region of their kind, and keep them.
LEMMA JobsShapedStep ==
  ASSUME TypeOK, ListTypes, JobsShaped, Sending, [Next]_vars
  PROVE  JobsShaped'
<1>0. \A i : Region(i)' = Region(i)
  BY ConfigStays
<1>1. CASE UNCHANGED jobs
  BY <1>0, <1>1 DEF JobsShaped
<1>2. CASE AddConfiguredJob
  <2> SUFFICES ASSUME NEW k \in DOMAIN jobs'
               PROVE  Scaled(jobs'[k].job) /\ Local(jobs'[k].job, jobs'[k].name, Region(jobs'[k].at))
    BY <1>0 DEF JobsShaped
  <2>1. CASE k \in DOMAIN jobs
    BY <1>2, <2>1, JobAdded DEF JobsShaped
  <2>2. CASE k \notin DOMAIN jobs
    <3>1. PICK j \in JobsFor(service, Head(names), Region(ri)) : jobs'[k] = NewRecord(j)
      BY <1>2, <2>2, JobAdded
    <3>2. jobs'[k].job = j /\ jobs'[k].name = Head(names) /\ jobs'[k].at = ri
      BY <3>1 DEF NewRecord
    <3>3. Scaled(j) /\ Local(j, Head(names), Region(ri))
      BY <3>1, OneJobForAName
    <3> QED BY <3>2, <3>3
  <2> QED BY <2>1, <2>2
<1>3. ASSUME cur # 0, NEW outcome \in Outcomes, Finish(outcome)
      PROVE  JobsShaped'
  BY <1>0, <1>3, JobEnds DEF JobsShaped
<1> QED BY <1>1, <1>2, <1>3, HandlerMoves, WorkerMoves DEF Next

\* Metrics go to a channel of the map; without one the job is not for a region
\* of the list.
LEMMA RoutedStep ==
  ASSUME TypeOK, ListTypes, Early, MapsAgree, Routed, Sending, [Next]_vars
  PROVE  Routed'
<1>0. AllRegions' = AllRegions
  BY ConfigStays
<1>1. CASE HandleRequest \/ UNCHANGED vars
  <2>1. \A p \in published' : \E r \in DOMAIN chanOf' : p.to = chanOf'[r]
    <3>1. UNCHANGED published /\ (published # {} => UNCHANGED chanOf)
      BY <1>1, HandlerMoves DEF Early
    <3> QED BY <3>1 DEF Routed
  <2>2. \A k \in DOMAIN jobs' : jobs'[k].outcome = "unrouted" => jobs'[k].job.region \notin AllRegions
    <3>1. CASE UNCHANGED jobs
      BY <3>1 DEF Routed
    <3>2. CASE AddConfiguredJob
      <4> SUFFICES ASSUME NEW k \in DOMAIN jobs', jobs'[k].outcome = "unrouted"
                   PROVE  jobs'[k].job.region \notin AllRegions
        OBVIOUS
      <4>1. k \in DOMAIN jobs
        <5>1. \A j : NewRecord(j).outcome = "queued"
          BY DEF NewRecord
        <5> QED BY <3>2, <5>1, JobAdded
      <4> QED BY <3>2, <4>1, JobAdded DEF Routed
    <3> QED BY <1>1, <3>1, <3>2, HandlerMoves
  <2> QED BY <1>0, <2>1, <2>2 DEF Routed
<1>2. CASE Execute
  <2>1. UNCHANGED chanOf /\ DOMAIN chanOf = AllRegions
    BY <1>2, WorkerMoves DEF maps, Alive, MapsAgree
  <2>2. \A p \in published' : \E r \in DOMAIN chanOf : p.to = chanOf[r]
    <3>1. CASE UNCHANGED published
      BY <3>1 DEF Routed
    <3>2. CASE Send
      BY <3>2 DEF Send, Routed
    <3> QED BY <1>2, <3>1, <3>2, WorkerMoves
  <2>3. \A k \in DOMAIN jobs' : jobs'[k].outcome = "unrouted" => jobs'[k].job.region \notin AllRegions
    <3>1. CASE UNCHANGED jobs
      BY <3>1 DEF Routed
    <3>2. ASSUME cur # 0, NEW outcome \in Outcomes, Finish(outcome),
                 outcome = "unrouted" => Job.region \notin DOMAIN chanOf
          PROVE  \A k \in DOMAIN jobs' : jobs'[k].outcome = "unrouted" => jobs'[k].job.region \notin AllRegions
      BY <2>1, <3>2, JobEnds DEF Routed, Job
    <3> QED BY <1>2, <3>1, <3>2, WorkerMoves
  <2> QED BY <1>0, <2>1, <2>2, <2>3 DEF Routed
<1> QED BY <1>1, <1>2 DEF Next

\* A published value is the whole count, scaled.
LEMMA CompleteCountsStep ==
  ASSUME TypeOK, ListTypes, JobsShaped, Sending, CompleteCounts, [Next]_vars
  PROVE  CompleteCounts'
<1>1. CASE UNCHANGED published
  BY <1>1 DEF CompleteCounts
<1>2. CASE Send
  <2>1. /\ cur # 0 /\ Job.measures # "refresh" /\ counted = Have
        /\ \A p \in published' \ published : \E v \in unsent : p.m = Metric(v)
    BY <1>2 DEF Send, Sending
  <2>2. Scaled(Job)
    <3>1. cur \in DOMAIN jobs
      BY <2>1, LenProperties DEF ListTypes, TypeOK
    <3> QED BY <3>1 DEF JobsShaped, Job
  <2>3. \A v : Metric(v).value = Have * (IF Metric(v).metric = "vpcNAU" THEN 1 ELSE 100)
    BY <2>1, <2>2 DEF Metric, Scaled
  <2> QED BY <2>1, <2>3 DEF CompleteCounts
<1> QED BY <1>1, <1>2, HandlerMoves, WorkerMoves DEF Next

\* What was sent stays sent.
LEMMA SentStays ==
  ASSUME Sending, [Next]_vars, NEW k, NEW v, Sent(k, v)
  PROVE  Sent(k, v)'
<1>1. published \subseteq published'
  BY HandlerMoves, WorkerMoves DEF Next, Send
<1> QED BY <1>1 DEF Sent

\* A metric leaves the list of those to send only on its channel, if there is
\* a channel.
LEMMA SendingStep ==
  ASSUME TypeOK, ListTypes, Early, Sending, [Next]_vars
  PROVE  Sending'
<1>1. CASE HandleRequest \/ UNCHANGED vars
  <2>1. UNCHANGED worker /\ (pc = "batchers" => ~sending)
    <3>1. pc = "batchers" => Len(jobs) = 0
      BY EmptySeq DEF Early
    <3> QED BY <1>1, <3>1
            DEF HandleRequest, loadServiceConfig, ensureLogGroup, initMetricBatchers, VisitService,
                AddConfiguredJob, NextRegion, HandleEvent, Fatal, vars, TypeOK, Sending
  <2>2. ASSUME sending PROVE UNCHANGED chanOf /\ cur \in DOMAIN jobs /\ Job' = Job
    <3>1. UNCHANGED chanOf
      BY <1>1, <2>1, <2>2, HandlerMoves
    <3>2. cur \in DOMAIN jobs
      BY <2>2, LenProperties DEF Sending, ListTypes, TypeOK
    <3>3. jobs'[cur] = jobs[cur]
      BY <1>1, <3>2, HandlerMoves, JobAdded
    <3> QED BY <2>1, <3>1, <3>2, <3>3 DEF worker, Job
  <2> QED BY <2>1, <2>2, SentStays DEF worker, Sending, Targets
<1>2. CASE TakeJob \/ ListPage \/ Measure
  BY <1>2 DEF TakeJob, ListPage, Measure, Working, Sending
<1>3. CASE Refresh \/ ExecuteFails \/ Dispatched
  BY <1>3 DEF Refresh, ExecuteFails, Dispatched, Finish, Sending
<1>4. CASE GetServiceQuota
  BY <1>4 DEF GetServiceQuota, Working, Sending, Job, maps
<1>5. CASE Send \/ NoChannel
  <2>1. /\ sending /\ UNCHANGED <<jobs, cur, counted, chanOf>> /\ Job' = Job
        /\ Send => Job.region \in DOMAIN chanOf /\ \E v \in unsent : unsent' = unsent \ {v} /\ Sent(cur, v)'
        /\ NoChannel => Job.region \notin DOMAIN chanOf
    BY <1>5 DEF Send, NoChannel, maps, Job, Sent, Metric
  <2>2. ASSUME Job.region \in DOMAIN chanOf, NEW v \in Targets(Job) \ unsent'
        PROVE  Sent(cur, v)'
    <3>1. CASE v \in unsent
      <4>1. Send
        BY <1>5, <2>1, <2>2
      <4>2. PICK u \in unsent : unsent' = unsent \ {u} /\ Sent(cur, u)'
        BY <2>1, <4>1
      <4>3. v = u
        BY <2>2, <3>1, <4>2
      <4> QED BY <2>1, <4>2, <4>3 DEF Sent
    <3>2. CASE v \notin unsent
      <4>1. Sent(cur, v)
        BY <2>1, <2>2, <3>2 DEF Sending
      <4>2. published \subseteq published'
        BY <1>5 DEF Send, NoChannel
      <4> QED BY <2>1, <4>1, <4>2 DEF Sent
    <3> QED BY <3>1, <3>2
  <2>3. /\ cur # 0 /\ counted = Have /\ Job.measures # "refresh"
    BY <2>1 DEF Sending
  <2>4. Targets(Job)' = Targets(Job)
    BY <2>1 DEF Targets
  <2> QED BY <2>1, <2>2, <2>3, <2>4 DEF Sending
<1> QED BY <1>1, <1>2, <1>3, <1>4, <1>5 DEF Next, Execute

\* A job is only done with when all its metrics are sent.
LEMMA AllSentStep ==
  ASSUME TypeOK, ListTypes, Sending, AllSent, [Next]_vars
  PROVE  AllSent'
<1> SUFFICES ASSUME NEW k \in DOMAIN jobs', jobs'[k].outcome = "published",
                    NEW v \in Targets(jobs'[k].job)
             PROVE  Sent(k, v)'
  BY DEF AllSent, Targets
<1>1. CASE UNCHANGED jobs
  BY <1>1, SentStays DEF AllSent
<1>2. CASE AddConfiguredJob
  <2>1. k \in DOMAIN jobs
    <3>1. \A j : NewRecord(j).outcome = "queued"
      BY DEF NewRecord
    <3> QED BY <1>2, <3>1, JobAdded
  <2> QED BY <1>2, <2>1, JobAdded, SentStays DEF AllSent
<1>3. CASE Refresh \/ ExecuteFails
  <2>1. \E o \in Outcomes \ {"published"} : cur # 0 /\ Finish(o)
    BY <1>3 DEF Refresh, ExecuteFails, Working, Outcomes
  <2>2. k \in DOMAIN jobs /\ k # cur /\ jobs'[k].job = jobs[k].job /\ jobs[k].outcome = "published"
    BY <2>1, JobEnds
  <2> QED BY <2>2, SentStays DEF AllSent
<1>4. CASE Dispatched
  <2>1. /\ cur # 0 /\ unsent = {} /\ sending
        /\ Finish(IF Job.region \in DOMAIN chanOf THEN "published" ELSE "unrouted")
    BY <1>4 DEF Dispatched, Sending
  <2>2. \E o \in Outcomes : Finish(o) /\ (o = "published" => Job.region \in DOMAIN chanOf)
    BY <2>1 DEF Outcomes
  <2>3. k \in DOMAIN jobs /\ jobs'[k].job = jobs[k].job
        /\ (k # cur => jobs[k].outcome = "published")
        /\ (k = cur => Job.region \in DOMAIN chanOf)
    BY <2>1, <2>2, JobEnds
  <2>4. CASE k = cur
    BY <2>1, <2>3, <2>4, SentStays DEF Sending, Job
  <2> QED BY <2>3, <2>4, SentStays DEF AllSent
<1>5. CASE TakeJob \/ ListPage \/ Measure \/ GetServiceQuota \/ Send \/ NoChannel
  BY <1>1, <1>5 DEF TakeJob, ListPage, Measure, GetServiceQuota, Send, NoChannel
<1> QED BY <1>1, <1>2, <1>3, <1>4, <1>5, HandlerMoves DEF Next, Execute

\* A job once added keeps its place, service and name.
LEMMA JobsKept ==
  ASSUME TypeOK, ListTypes, Sending, [Next]_vars, NEW i, NEW s, NEW name, HasJob(i, s, name)
  PROVE  HasJob(i, s, name)'
<1>1. CASE UNCHANGED jobs
  BY <1>1 DEF HasJob
<1>2. CASE AddConfiguredJob
  BY <1>2, JobAdded DEF HasJob
<1>3. ASSUME cur # 0, NEW outcome \in Outcomes, Finish(outcome)
      PROVE  HasJob(i, s, name)'
  BY <1>3, JobEnds DEF HasJob
<1> QED BY <1>1, <1>2, <1>3, HandlerMoves, WorkerMoves DEF Next

\* What the next step of the loops owes for one name of one region.
Owed(i, s, name) ==
  /\ i < ri => HasJob(i, s, name)
  /\ i = ri => s \in services \/ (s = service /\ name \in ToSet(names)) \/ HasJob(i, s, name)

\* In the build phase a name stays owed until its job is added.
LEMMA OwedStep ==
  ASSUME TypeOK, ListTypes, Early, Sending, [Next]_vars, pc = "build", HandleRequest,
         NEW i \in 1..RegionCount, NEW s \in DOMAIN cfg.services, NEW name \in AllNames,
         Due(s, name), Owed(i, s, name)
  PROVE  pc' = "fatal" \/ Owed(i, s, name)'
<1>0. /\ RegionCount \in Nat /\ ri \in 1..(RegionCount + 1)
      /\ (HasJob(i, s, name) => HasJob(i, s, name)')
  BY JobsKept, Lists DEF TypeOK
<1>1. CASE Fatal
  BY <1>1 DEF Fatal
<1>2. CASE VisitService
  <2>1. names = <<>> /\ ri' = ri /\ service' \in services /\ services' = services \ {service'}
        /\ names' = cfg.services[service']
    BY <1>2 DEF VisitService
  <2>2. ToSet(names) = {}
    BY <2>1, EmptySeq, ElementsEmpty
  <2>3. s \in services => s \in services' \/ (s = service' /\ name \in ToSet(names'))
    BY <2>1 DEF Due
  <2> QED BY <1>0, <2>1, <2>2, <2>3 DEF Owed
<1>3. CASE AddConfiguredJob
  <2>1. names # <<>> /\ names' = Tail(names) /\ UNCHANGED <<ri, services, service>>
    BY <1>3 DEF AddConfiguredJob
  <2>2. ToSet(names) = {Head(names)} \cup ToSet(Tail(names))
    BY <2>1, ElementsHeadTail DEF ListTypes
  <2>3. ASSUME i = ri, s = service, name = Head(names)
        PROVE  HasJob(i, s, name)'
    <3>1. name \in ValidNames[s] \ {"gp3storage"} /\ s \in DOMAIN ValidNames
      BY DEF Due, Early, Valid
    <3>2. JobsFor(service, Head(names), Region(ri)) # {}
      BY <2>3, <3>1, ValidNameHasJob
    <3> QED BY <1>3, <2>3, <3>2, JobAdded DEF HasJob
  <2> QED BY <1>0, <2>1, <2>2, <2>3 DEF Owed
<1>4. CASE NextRegion
  <2>1. ToSet(names) = {}
    <3>1. names = <<>>
      BY <1>4 DEF NextRegion
    <3> QED BY <3>1, EmptySeq, ElementsEmpty
  <2>2. CASE ri <= RegionCount
    <3>1. ri' = ri + 1 /\ services = {} /\ services' = DOMAIN cfg.services
      BY <1>0, <1>4, <2>2 DEF NextRegion
    <3>2. i < ri' => i < ri \/ i = ri
      BY <1>0, <3>1
    <3> QED BY <1>0, <2>1, <3>1, <3>2 DEF Owed
  <2>3. CASE ri > RegionCount
    <3>1. ri' = ri
      BY <1>0, <1>4, <2>3 DEF NextRegion
    <3> QED BY <1>0, <2>3, <3>1 DEF Owed
  <2> QED BY <1>0, <2>2, <2>3
<1> QED BY <1>1, <1>2, <1>3, <1>4
        DEF HandleRequest, loadServiceConfig, ensureLogGroup, initMetricBatchers, HandleEvent

\* No step loses a name that is owed a job.
LEMMA AddedStep ==
  ASSUME TypeOK, ListTypes, Early, Added, Sending, [Next]_vars
  PROVE  Added'
<1>0. cfg' = cfg /\ RegionCount' = RegionCount /\ AllNames' = AllNames /\ RegionCount \in Nat
  BY ConfigStays, Lists DEF TypeOK
<1>1. \A s, name : Due(s, name)' <=> Due(s, name)
  BY <1>0 DEF Due
<1>2. pc' \in {"handle", "done"} => ri' > RegionCount
  <2>1. CASE UNCHANGED vars \/ Execute
    BY <2>1, WorkerMoves DEF vars, place, Added
  <2>2. CASE HandleRequest
    BY <2>2
    DEF HandleRequest, loadServiceConfig, ensureLogGroup, initMetricBatchers, VisitService,
        AddConfiguredJob, NextRegion, HandleEvent, Fatal, place, Added
  <2> QED BY <2>1, <2>2 DEF Next
<1>3. ASSUME pc' \in {"build", "handle", "done"},
             NEW i \in 1..RegionCount, NEW s \in DOMAIN cfg.services, NEW name \in AllNames, Due(s, name)
      PROVE  Owed(i, s, name)'
  <2>1. CASE pc \in {"build", "handle", "done"} /\ UNCHANGED place
    <3>1. Owed(i, s, name)
      BY <1>3, <2>1 DEF Added, Owed
    <3> QED BY <2>1, <3>1, JobsKept DEF place, Owed
  <2>2. CASE pc = "build" /\ HandleRequest
    <3>1. Owed(i, s, name)
      BY <1>3, <2>2 DEF Added, Owed
    <3> QED BY <1>3, <2>2, <3>1, OwedStep
  <2>3. CASE pc = "batchers" /\ HandleRequest
    <3>1. ri' = 1 /\ services' = DOMAIN cfg.services
      BY <1>3, <2>3
      DEF HandleRequest, loadServiceConfig, ensureLogGroup, initMetricBatchers, VisitService,
          AddConfiguredJob, NextRegion, HandleEvent, Fatal
    <3> QED BY <1>3, <3>1 DEF Owed
  <2>4. CASE UNCHANGED vars \/ Execute
    BY <1>3, <2>1, <2>4, WorkerMoves DEF vars, Alive
  <2>5. CASE HandleRequest /\ pc \notin {"build", "batchers"}
    BY <1>3, <2>1, <2>5
    DEF HandleRequest, loadServiceConfig, ensureLogGroup, initMetricBatchers, VisitService,
        AddConfiguredJob, NextRegion, HandleEvent, Fatal
  <2> QED BY <2>2, <2>3, <2>4, <2>5 DEF Next
<1> QED BY <1>0, <1>1, <1>2, <1>3 DEF Added, Owed

-----------------------------------------------------------------------------
(* The theorems.                                                           *)

\* The invariant holds initially.
LEMMA InitInv == Init => QuotaInv
<1> SUFFICES ASSUME Init PROVE QuotaInv
  OBVIOUS
<1>1. TypeOK /\ ListTypes
  BY InitTypes
<1>2. JobsShaped /\ Early /\ Added /\ Finished /\ CompleteCounts
  BY DEF Init, JobsShaped, Early, Added, Finished, CompleteCounts
<1>3. MapsAgree /\ Routed /\ Sending /\ AllSent
  BY DEF Init, MapsAgree, Routed, Sending, AllSent
<1> QED BY <1>1, <1>2, <1>3 DEF QuotaInv

\* Every step keeps the invariant.
LEMMA InvStep == QuotaInv /\ [Next]_vars => QuotaInv'
<1> SUFFICES ASSUME QuotaInv, [Next]_vars PROVE QuotaInv'
  OBVIOUS
<1>1. TypeOK' /\ ListTypes' /\ Early' /\ MapsAgree' /\ Finished'
  BY TypesStep, EarlyStep, MapsAgreeStep, FinishedStep DEF QuotaInv
<1>2. JobsShaped' /\ Routed' /\ CompleteCounts' /\ Added'
  BY JobsShapedStep, RoutedStep, CompleteCountsStep, AddedStep DEF QuotaInv
<1>3. Sending' /\ AllSent'
  BY SendingStep, AllSentStep DEF QuotaInv
<1> QED BY <1>1, <1>2, <1>3 DEF QuotaInv

\* The invariant holds in every reachable state.
LEMMA QuotaInvariant == Spec => []QuotaInv
  BY InitInv, InvStep, PTL DEF Spec

\* Every variable keeps its type, and the maps of batchers and of channels
\* always have the same regions (main.go, initMetricBatchers).
THEOREM QuotaTypes == Spec => []TypeOK
<1>1. QuotaInv => TypeOK
  BY DEF QuotaInv
<1> QED BY <1>1, QuotaInvariant, PTL

\* No part of a listing is ever published, for every number of resources and
\* every page size (Execute of the jobs).
THEOREM CountsAreComplete == Spec => []CompleteCounts
<1>1. QuotaInv => CompleteCounts
  BY DEF QuotaInv
<1> QED BY <1>1, QuotaInvariant, PTL

\* What the invariant says of an invocation that has returned.
LEMMA MeasuredAtTheEnd == QuotaInv => MeasuredAsConfigured
<1> SUFFICES ASSUME QuotaInv, pc = "done",
                    NEW i \in DOMAIN cfg.regions,
                    NEW s \in DOMAIN cfg.services \cap DOMAIN ValidNames,
                    NEW name \in ToSet(cfg.services[s]) \ {"gp3storage"}
             PROVE  \E j \in DOMAIN jobs :
                      /\ jobs[j].at = i /\ jobs[j].service = s /\ jobs[j].name = name
                      /\ jobs[j].job.region = Region(i) \/ name = "oidcProviders"
                      /\ \/ jobs[j].outcome \in {"failed", "refreshed"}
                         \/ /\ jobs[j].outcome = "published"
                            /\ \A v \in Targets(jobs[j].job) :
                                 \E p \in published : p.m.by = j /\ p.m.vpc = v /\ p.to \in closed
                         \/ /\ jobs[j].outcome = "unrouted"
                            /\ name = "oidcProviders" /\ UsEast1 \notin ToSet(cfg.regions)
  BY DEF MeasuredAsConfigured
<1>1. i \in 1..RegionCount /\ RegionCount \in Nat /\ name \in AllNames /\ Region(i) \in AllRegions
  BY Lists DEF QuotaInv, TypeOK
<1>2. i < ri
  BY <1>1 DEF QuotaInv, Added, TypeOK
<1>3. PICK j \in DOMAIN jobs : jobs[j].at = i /\ jobs[j].service = s /\ jobs[j].name = name
  BY <1>1, <1>2 DEF QuotaInv, Added, Due, HasJob
<1>4. Local(jobs[j].job, name, Region(i))
  BY <1>3 DEF QuotaInv, JobsShaped
<1>5. jobs[j].outcome \in {"failed", "refreshed", "unrouted", "published"}
  BY DEF QuotaInv, Finished, TypeOK
<1>6. \A p \in published : p.to \in closed
  BY DEF QuotaInv, Routed, MapsAgree, Finished
<1>7. jobs[j].outcome = "unrouted" => name = "oidcProviders" /\ UsEast1 \notin ToSet(cfg.regions)
  BY <1>1, <1>4 DEF QuotaInv, Routed, Local, AllRegions
<1>8. ASSUME jobs[j].outcome = "published", NEW v \in Targets(jobs[j].job)
      PROVE  \E p \in published : p.m.by = j /\ p.m.vpc = v /\ p.to \in closed
  BY <1>6, <1>8 DEF QuotaInv, AllSent, Sent
<1> QED BY <1>3, <1>4, <1>5, <1>7, <1>8 DEF Local

\* An invocation that nobody cancels and that returns has measured what its configuration names, in
\* every region, for every configuration (main.go, buildJobManager and
\* initMetricBatchers; handlers/resourcequota.go, HandleEvent).
THEOREM ConfigurationIsMeasured == Spec => []MeasuredAsConfigured
  BY MeasuredAtTheEnd, QuotaInvariant, PTL

=============================================================================
