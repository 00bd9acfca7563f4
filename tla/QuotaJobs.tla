------------------------------ MODULE QuotaJobs ------------------------------
(***************************************************************************)
(* One invocation of cmd/resourcequota seen from its configuration: which  *)
(* jobs it builds, what each measures and where its metrics go.            *)
(*                                                                         *)
(* The service configuration is validated, a batcher is made for every     *)
(* region of the list, a job for every region and metric name, and the     *)
(* workers measure while jobs are still being added.  How workers,         *)
(* channels and batchers run in parallel is in JobManager, BatchProcessor  *)
(* and ResourceQuota; jobs share nothing, so here one worker runs them.    *)
(* A call to AWS may fail at any point.                                    *)
(*                                                                         *)
(* The invocation is one that nobody cancels.  Under a done context AddJob *)
(* drops its job and a worker leaves between two metrics of one job: that  *)
(* is in JobManager and ResourceQuota.                                     *)
(***************************************************************************)
EXTENDS Integers, Sequences, SequencesExt

CONSTANTS Configs,    \* configurations: a list of regions and, for each service
                      \* that is named, its list of metric names
          UsEast1,
          Have,       \* the resources of each kind a region has
          PageSize,
          VpcIds      \* a region's VPCs

ASSUME QuotaJobsAssumption ==
  /\ \A c \in Configs :
       /\ c.regions \in Seq(ToSet(c.regions))
       /\ \A s \in DOMAIN c.services : c.services[s] \in Seq(ToSet(c.services[s]))
  /\ Have \in Nat /\ PageSize \in Nat \ {0}

VARIABLES
  cfg,
  pc,          \* where HandleRequest is
  ri,          \* the region it is at
  services,    \* the services not yet visited for this region
  service, names,        \* the one being visited, and the rest of its metrics
  batcherOf, chanOf,     \* the two maps: each region's batcher and input channel,
                         \* as the place in the list it was made for
  jobs,        \* the jobs added, with the metric configured and the outcome
  cur, counted,          \* the job the worker is at, and its count so far
  sending, unsent,       \* whether it sends the job's metrics; those still to send
  published,   \* the metrics sent on a channel
  closed       \* the batchers the handler has closed and waited for

place == <<ri, services, service, names>>
maps == <<batcherOf, chanOf>>
worker == <<cur, counted, sending, unsent>>
vars == <<cfg, pc, place, maps, jobs, worker, published, closed>>

Region(i) == cfg.regions[i]
RegionCount == Len(cfg.regions)

-----------------------------------------------------------------------------
(* Validation.                                                             *)

\* The names each service may have; other services are only warned about.
ValidNames == [ec2 |-> {"networkInterfaces"},
               eks |-> {"listClusters"},
               iam |-> {"iamRoles", "oidcProviders"},
               ebs |-> {"gp3storage"},
               vpc |-> {"nau"}]

Valid(c) ==
  \A s \in DOMAIN c.services \cap DOMAIN ValidNames : ToSet(c.services[s]) \subseteq ValidNames[s]

-----------------------------------------------------------------------------
(* Jobs: how each measures, under what name and scale it publishes, and    *)
(* the region whose channel it reports to.                                 *)

NetworkInterfaceJob(r) ==
  [region |-> r, measures |-> "pages", metric |-> "networkInterfaces", scale |-> 100]
ListClusterJob(r) ==
  [region |-> r, measures |-> "pages", metric |-> "totalEksClusters", scale |-> 100]

\* It reports for the region of its Service Quotas client.
OIDCProviderJob(quotaRegion) ==
  [region |-> quotaRegion, measures |-> "once", metric |-> "oidcProviders", scale |-> 100]

\* These two make Trusted Advisor refresh a check and have no metric.
IamRoleJob(r) == [region |-> r, measures |-> "refresh", metric |-> "none", scale |-> 0]
Gp3StorageJob(r) == [region |-> r, measures |-> "refresh", metric |-> "none", scale |-> 0]

\* A metric for each VPC, of units over quota.
VPCNAUJob(r) == [region |-> r, measures |-> "nau", metric |-> "vpcNAU", scale |-> 1]

\* The cases of buildJobManager: the jobs for one name of a service's list.
Ec2Jobs(name, r) == IF name = "networkInterfaces" THEN {NetworkInterfaceJob(r)} ELSE {}
EksJobs(name, r) == IF name = "listClusters" THEN {ListClusterJob(r)} ELSE {}
IamJobs(name, r) == CASE name = "oidcProviders" -> {OIDCProviderJob(UsEast1)}
                      [] name = "iamRoles" -> {IamRoleJob(r)}
                      [] OTHER -> {}
EbsJobs(name, r) == IF name = "gp3Storage" THEN {Gp3StorageJob(r)} ELSE {}
VpcJobs(name, r) == IF name = "nau" THEN {VPCNAUJob(r)} ELSE {}

JobsFor(s, name, r) ==
  CASE s = "ec2" -> Ec2Jobs(name, r)
    [] s = "eks" -> EksJobs(name, r)
    [] s = "iam" -> IamJobs(name, r)
    [] s = "ebs" -> EbsJobs(name, r)
    [] s = "vpc" -> VpcJobs(name, r)
    [] OTHER -> {}

-----------------------------------------------------------------------------
(* HandleRequest.                                                          *)

Init ==
  /\ cfg \in Configs /\ pc = "load"
  /\ ri = 1 /\ services = {} /\ service = "none" /\ names = <<>>
  /\ batcherOf = <<>> /\ chanOf = <<>>
  /\ jobs = <<>> /\ cur = 0 /\ counted = 0 /\ sending = FALSE /\ unsent = {}
  /\ published = {} /\ closed = {}

\* Every failure of the setup ends the process: of the file, of a client or of
\* a batcher, and of the clients of a job, while other jobs are under way.
Fatal ==
  /\ \/ pc \in {"load", "ensure"} \/ (pc = "batchers" /\ ri <= RegionCount)
     \/ pc = "build" /\ names # <<>> /\ JobsFor(service, Head(names), Region(ri)) # {}
  /\ pc' = "fatal"
  /\ UNCHANGED <<cfg, place, maps, jobs, worker, published, closed>>

loadServiceConfig ==
  /\ pc = "load" /\ Valid(cfg)
  /\ pc' = "ensure"
  /\ UNCHANGED <<cfg, place, maps, jobs, worker, published, closed>>

\* The log group and stream of every region are there (module LogSetup).
ensureLogGroup ==
  /\ pc = "ensure"
  /\ pc' = "batchers"
  /\ UNCHANGED <<cfg, place, maps, jobs, worker, published, closed>>

\* Store: the entry of a key is replaced.
Store(f, k, v) == [x \in DOMAIN f \cup {k} |-> IF x = k THEN v ELSE f[x]]

\* Mutant: the channel of a region is only stored the first time.
initMetricBatchersKeepsChannel ==
  /\ pc = "batchers"
  /\ \/ /\ ri <= RegionCount
        /\ batcherOf' = Store(batcherOf, Region(ri), ri)
        /\ chanOf' = IF Region(ri) \in DOMAIN chanOf THEN chanOf ELSE Store(chanOf, Region(ri), ri)
        /\ ri' = ri + 1 /\ UNCHANGED <<pc, services>>
     \/ /\ ri > RegionCount
        /\ pc' = "build" /\ ri' = 1 /\ services' = DOMAIN cfg.services
        /\ UNCHANGED maps
  /\ UNCHANGED <<cfg, service, names, jobs, worker, published, closed>>

initMetricBatchers ==
  /\ pc = "batchers"
  /\ \/ /\ ri <= RegionCount
        /\ batcherOf' = Store(batcherOf, Region(ri), ri)
        /\ chanOf' = Store(chanOf, Region(ri), ri)
        /\ ri' = ri + 1 /\ UNCHANGED <<pc, services>>
     \/ /\ ri > RegionCount
        /\ pc' = "build" /\ ri' = 1 /\ services' = DOMAIN cfg.services
        /\ UNCHANGED maps
  /\ UNCHANGED <<cfg, service, names, jobs, worker, published, closed>>

\* The services of the configuration are visited in any order.
VisitService ==
  /\ pc = "build" /\ names = <<>> /\ ri <= RegionCount
  /\ \E s \in services :
       /\ services' = services \ {s}
       /\ service' = s /\ names' = cfg.services[s]
  /\ UNCHANGED <<cfg, pc, ri, maps, jobs, worker, published, closed>>

\* AddJob for the next name of the service.
AddConfiguredJob ==
  /\ pc = "build" /\ names # <<>>
  /\ jobs' = jobs \o SetToSeq({[job |-> j, at |-> ri, service |-> service,
                                name |-> Head(names), outcome |-> "queued"] :
                                 j \in JobsFor(service, Head(names), Region(ri))})
  /\ names' = Tail(names)
  /\ UNCHANGED <<cfg, pc, ri, services, service, maps, worker, published, closed>>

\* Mutant: the loop ends one region late.
NextRegionOneMore ==
  /\ pc = "build" /\ names = <<>>
  /\ services = {} \/ ri > RegionCount
  /\ ri' = ri + 1 /\ services' = DOMAIN cfg.services
  /\ pc' = IF ri > RegionCount THEN "handle" ELSE pc
  /\ UNCHANGED <<cfg, service, names, maps, jobs, worker, published, closed>>

NextRegion ==
  /\ pc = "build" /\ names = <<>>
  /\ \/ /\ ri <= RegionCount /\ services = {}
        /\ ri' = ri + 1 /\ services' = DOMAIN cfg.services /\ UNCHANGED pc
     \/ /\ ri > RegionCount
        /\ pc' = "handle" /\ UNCHANGED <<ri, services>>
  /\ UNCHANGED <<cfg, service, names, maps, jobs, worker, published, closed>>

\* HandleEvent: the job queue is closed and drained, then the batchers of the
\* map are closed and waited for.
HandleEvent ==
  /\ pc = "handle" /\ cur = 0
  /\ \A j \in DOMAIN jobs : jobs[j].outcome # "queued"
  /\ closed' = {batcherOf[r] : r \in DOMAIN batcherOf}
  /\ pc' = "done"
  /\ UNCHANGED <<cfg, place, maps, jobs, worker, published>>

-----------------------------------------------------------------------------
(* Execute and dispatch.                                                   *)

Alive == pc \in {"build", "handle"}
Working == Alive /\ cur # 0 /\ ~sending
Job == jobs[cur].job
Finish(outcome) == /\ jobs' = [jobs EXCEPT ![cur].outcome = outcome]
                   /\ cur' = 0 /\ counted' = 0 /\ sending' = FALSE /\ unsent' = {}

TakeJob ==
  /\ Alive /\ cur = 0
  /\ \E j \in DOMAIN jobs :
       /\ jobs[j].outcome = "queued"
       /\ \A k \in 1..(j - 1) : jobs[k].outcome # "queued"
       /\ cur' = j
  /\ UNCHANGED <<cfg, pc, place, maps, jobs, counted, sending, unsent, published, closed>>

\* One page of the paginated listings.
ListPage ==
  /\ Working /\ Job.measures = "pages" /\ counted < Have
  /\ \E n \in 1..PageSize : n <= Have - counted /\ counted' = counted + n
  /\ UNCHANGED <<cfg, pc, place, maps, jobs, cur, sending, unsent, published, closed>>

\* The other jobs make one call, or one calculation, for the whole of it.
Measure ==
  /\ Working /\ Job.measures \in {"once", "nau"} /\ counted < Have
  /\ counted' = Have
  /\ UNCHANGED <<cfg, pc, place, maps, jobs, cur, sending, unsent, published, closed>>

Refresh ==
  /\ Working /\ Job.measures = "refresh"
  /\ Finish("refreshed")
  /\ UNCHANGED <<cfg, pc, place, maps, published, closed>>

\* The error of any call ends the job without metrics, and is logged.
ExecuteFails ==
  /\ Working
  /\ Finish("failed")
  /\ UNCHANGED <<cfg, pc, place, maps, published, closed>>

\* What Execute returns metrics for: the region, or each of its VPCs.
Targets(job) == IF job.measures = "nau" THEN VpcIds ELSE {"none"}

\* A value stands for its numerator over the quota.
Metric(v) == [by |-> cur, metric |-> Job.metric, region |-> Job.region, vpc |-> v,
              value |-> counted * Job.scale]

\* Mutant: a page that fails is taken for the last one.
GetServiceQuotaEarly ==
  /\ Working /\ Job.measures # "refresh"
  /\ sending' = TRUE /\ unsent' = Targets(Job)
  /\ UNCHANGED <<cfg, pc, place, maps, jobs, cur, counted, published, closed>>

\* The quota is read, and Execute returns the metrics.
GetServiceQuota ==
  /\ Working /\ Job.measures # "refresh" /\ counted = Have
  /\ sending' = TRUE /\ unsent' = Targets(Job)
  /\ UNCHANGED <<cfg, pc, place, maps, jobs, cur, counted, published, closed>>

\* They go to the channel of the job's region one by one; the order of the VPC
\* ids, on which nothing depends, is left open.
Send ==
  /\ Alive /\ sending /\ Job.region \in DOMAIN chanOf
  /\ \E v \in unsent :
       /\ unsent' = unsent \ {v}
       /\ published' = published \cup {[m |-> Metric(v), to |-> chanOf[Job.region]]}
  /\ UNCHANGED <<cfg, pc, place, maps, jobs, cur, counted, sending, closed>>

\* Each metric that finds no channel is logged.
NoChannel ==
  /\ Alive /\ sending /\ Job.region \notin DOMAIN chanOf
  /\ \E v \in unsent : unsent' = unsent \ {v}
  /\ UNCHANGED <<cfg, pc, place, maps, jobs, cur, counted, sending, published, closed>>

Dispatched ==
  /\ Alive /\ sending /\ unsent = {}
  /\ Finish(IF Job.region \in DOMAIN chanOf THEN "published" ELSE "unrouted")
  /\ UNCHANGED <<cfg, pc, place, maps, published, closed>>

Execute == \/ TakeJob \/ ListPage \/ Measure \/ Refresh \/ ExecuteFails
           \/ GetServiceQuota \/ Send \/ NoChannel \/ Dispatched

HandleRequest ==
  \/ loadServiceConfig \/ ensureLogGroup \/ initMetricBatchers
  \/ VisitService \/ AddConfiguredJob \/ NextRegion \/ HandleEvent \/ Fatal

Next == HandleRequest \/ Execute
Spec == Init /\ [][Next]_vars

-----------------------------------------------------------------------------
(* Properties.                                                             *)

\* Types; the two maps have the same regions, and the worker is at a job that
\* was added.
TypeOK ==
  /\ cfg \in Configs
  /\ pc \in {"load", "ensure", "batchers", "build", "handle", "done", "fatal"}
  /\ ri \in 1..(RegionCount + 1) /\ services \subseteq DOMAIN cfg.services
  /\ DOMAIN batcherOf = DOMAIN chanOf /\ DOMAIN chanOf \subseteq ToSet(cfg.regions)
  /\ cur \in 0..Len(jobs) /\ counted \in 0..Have
  /\ sending \in BOOLEAN /\ unsent \subseteq VpcIds \cup {"none"}
  /\ \A j \in DOMAIN jobs :
       jobs[j].outcome \in {"queued", "failed", "refreshed", "unrouted", "published"}
  /\ closed \subseteq DOMAIN cfg.regions

\* "publishing a utilization metric": an invocation that was not cancelled and
\* returns has, for every region of the list and every metric name of a known
\* service, run a job in that region whose error was logged, whose check was
\* refreshed, or each of whose metrics, one for every VPC in the case of NAU,
\* is in a batcher the handler has closed; although a region listed twice has
\* its batcher and its channel replaced.  Two exceptions: the name gp3storage,
\* which validates and is never matched, and OIDC providers, whose metrics
\* nobody receives unless us-east-1 is configured (logged).
MeasuredAsConfigured ==
  pc = "done" =>
    \A i \in DOMAIN cfg.regions, s \in DOMAIN cfg.services \cap DOMAIN ValidNames :
      \A name \in ToSet(cfg.services[s]) \ {"gp3storage"} :
        \E j \in DOMAIN jobs :
          /\ jobs[j].at = i /\ jobs[j].service = s /\ jobs[j].name = name
          /\ jobs[j].job.region = Region(i) \/ name = "oidcProviders"
          /\ \/ jobs[j].outcome \in {"failed", "refreshed"}
             \/ /\ jobs[j].outcome = "published"
                /\ \A v \in Targets(jobs[j].job) :
                     \E p \in published : p.m.by = j /\ p.m.vpc = v /\ p.to \in closed
             \/ /\ jobs[j].outcome = "unrouted"
                /\ name = "oidcProviders" /\ UsEast1 \notin ToSet(cfg.regions)

\* "publishing a utilization metric (%)": every value is 100 times the whole
\* count over the quota, so a failure in the middle of a listing never lets a
\* part of it out.  The exception is the NAU metric, which carries the unit
\* Percent and is the fraction.
CompleteCounts ==
  \A p \in published : p.m.value = Have * (IF p.m.metric = "vpcNAU" THEN 1 ELSE 100)
=============================================================================
