------------------------------- MODULE LogSetup -------------------------------
(***************************************************************************)
(* EnsureGroupAndStreamAcrossRegions (internal/awsclients/cwlclient): the  *)
(* functions and the extension each make sure, at their start, that the    *)
(* log group they share and a log stream of their own exist in every       *)
(* region, all at the same time and against the same CloudWatch Logs.      *)
(*                                                                         *)
(* CloudWatch Logs is external.  A group is created by a request that      *)
(* takes a while and may fail; a second request meanwhile is aborted.  A   *)
(* listing may be older than the last creation.  Nothing is deleted.  No   *)
(* two processes use one stream name, so a stream's creation is one step   *)
(* and nobody else's request aborts it.  Left out is a retry of the SDK    *)
(* that meets its own first request under way: its OperationAborted is     *)
(* taken for success as well (cwlclient.go:133-136), and the stream is not *)
(* there if the first request fails after all.                             *)
(***************************************************************************)
EXTENDS Integers, Sequences, SequencesExt

CONSTANTS Procs,
          Extensions,   \* the processes that run cmd/emf-extension
          HasEnv,       \* those that see AWS_LAMBDA_LOG_STREAM_NAME
          RegionList,   \* the configured regions, in order
          MaxPages,     \* bound on the pages of a listing
          MaxRestarts   \* bound on restarts of each process

Regions == ToSet(RegionList)

ASSUME LogSetupAssumption ==
  /\ Extensions \subseteq Procs /\ HasEnv \subseteq Procs
  /\ RegionList \in Seq(Regions) /\ RegionList # <<>>
  /\ MaxPages \in Nat \ {0} /\ MaxRestarts \in Nat

VARIABLES
  group,     \* each region's log group: "absent", "creating", "exists"
  streams,   \* the log streams of each region
  pc,        \* where each process is
  at,        \* the index of its region
  page,      \* the page of its listing
  restarts,
  aborted,   \* it was told OperationAborted for this region's group
  why        \* what made it fail: "none", "aws", "race"

awsVars == <<group, streams>>
procVars == <<pc, at, page, aborted, why>>
vars == <<awsVars, procVars, restarts>>

\* utils.MakeStreamName: the environment's name, or one made of host and time
\* that no other call returns.  k is the number of the call in this process.
MakeStreamName(p, k) == IF p \in HasEnv THEN <<p, 0, 0>> ELSE <<p, restarts[p], k>>

\* The stream that is ensured, and the one the process later writes to: the
\* extension asks for the name again when it makes its flusher.
EnsuredStream(p) == MakeStreamName(p, 1)
WriteStream(p) == MakeStreamName(p, IF p \in Extensions THEN 2 ELSE 1)

Init ==
  /\ group = [r \in Regions |-> "absent"] /\ streams = [r \in Regions |-> {}]
  /\ pc = [p \in Procs |-> "client"]
  /\ at = [p \in Procs |-> 1] /\ page = [p \in Procs |-> 1]
  /\ aborted = [p \in Procs |-> FALSE] /\ why = [p \in Procs |-> "none"]
  /\ restarts = [p \in Procs |-> 0]

Here(p) == RegionList[at[p]]

\* The process goes on at "to", with the first page of a listing.
Goto(p, to) == /\ pc' = [pc EXCEPT ![p] = to]
               /\ page' = [page EXCEPT ![p] = 1]
               /\ UNCHANGED <<at, aborted, why>>

\* An error is returned through all three functions and ends the process.
Fail(p, cause) == /\ pc' = [pc EXCEPT ![p] = "failed"]
                  /\ why' = [why EXCEPT ![p] = cause]
                  /\ UNCHANGED <<at, page, aborted>>

\* Mutant: one region too many.
NextRegionPastEnd(p) ==
  /\ at' = [at EXCEPT ![p] = @ + 1]
  /\ pc' = [pc EXCEPT ![p] = IF at[p] > Len(RegionList) THEN "ready" ELSE "client"]
  /\ aborted' = [aborted EXCEPT ![p] = FALSE]
  /\ UNCHANGED <<page, why>>

NextRegion(p) ==
  /\ \/ /\ at[p] = Len(RegionList)
        /\ pc' = [pc EXCEPT ![p] = "ready"]
        /\ UNCHANGED at
     \/ /\ at[p] < Len(RegionList)
        /\ pc' = [pc EXCEPT ![p] = "client"]
        /\ at' = [at EXCEPT ![p] = @ + 1]
  /\ aborted' = [aborted EXCEPT ![p] = FALSE]
  /\ UNCHANGED <<page, why>>

NewClient(p) ==
  /\ pc[p] = "client"
  /\ Goto(p, "describeGroups") \/ Fail(p, "aws")
  /\ UNCHANGED <<awsVars, restarts>>

\* Mutant: the token of the last page leads back to the first.
PageStartsOver(p, present, found, notFound) ==
  \/ Fail(p, "aws")
  \/ present /\ found
  \/ /\ page' = [page EXCEPT ![p] = (@ % MaxPages) + 1]
     /\ UNCHANGED <<pc, at, aborted, why>>
  \/ notFound

\* One page of a listing: it fails, has the name, is followed by another, or
\* is the last and the name was on none.
Page(p, present, found, notFound) ==
  \/ Fail(p, "aws")
  \/ present /\ found
  \/ /\ page[p] < MaxPages
     /\ page' = [page EXCEPT ![p] = @ + 1]
     /\ UNCHANGED <<pc, at, aborted, why>>
  \/ notFound

DescribeLogGroups(p) ==
  /\ pc[p] = "describeGroups"
  /\ Page(p, group[Here(p)] = "exists", Goto(p, "describeStreams"), Goto(p, "createGroup"))
  /\ UNCHANGED <<awsVars, restarts>>

\* Mutant: ResourceAlreadyExistsException is an error like any other.
CreateLogGroupStrict(p) ==
  /\ pc[p] = "createGroup"
  /\ \/ /\ group[Here(p)] = "absent"
        /\ group' = [group EXCEPT ![Here(p)] = "creating"]
        /\ Goto(p, "creating")
     \/ /\ group[Here(p)] = "exists"
        /\ Fail(p, "race") /\ UNCHANGED group
     \/ /\ group[Here(p)] = "creating"
        /\ pc' = [pc EXCEPT ![p] = "describeStreams"]
        /\ aborted' = [aborted EXCEPT ![p] = TRUE]
        /\ UNCHANGED <<group, at, page, why>>
     \/ Fail(p, "aws") /\ UNCHANGED group
  /\ UNCHANGED <<streams, restarts>>

\* The request is taken, or answered at once: the group is there, or another
\* request is creating it; both answers are taken for success.
CreateLogGroup(p) ==
  /\ pc[p] = "createGroup"
  /\ \/ /\ group[Here(p)] = "absent"
        /\ group' = [group EXCEPT ![Here(p)] = "creating"]
        /\ Goto(p, "creating")
     \/ /\ group[Here(p)] = "exists"
        /\ Goto(p, "describeStreams") /\ UNCHANGED group
     \/ /\ group[Here(p)] = "creating"
        /\ pc' = [pc EXCEPT ![p] = "describeStreams"]
        /\ aborted' = [aborted EXCEPT ![p] = TRUE]
        /\ UNCHANGED <<group, at, page, why>>
     \/ Fail(p, "aws") /\ UNCHANGED group
  /\ UNCHANGED <<streams, restarts>>

\* The request of a waiting process ends: the group is there, or not; an
\* answer may also be lost on its way.
GroupCreated(p) ==
  /\ pc[p] = "creating"
  /\ \/ group' = [group EXCEPT ![Here(p)] = "exists"] /\ Goto(p, "describeStreams")
     \/ \E s \in {"exists", "absent"} :
          group' = [group EXCEPT ![Here(p)] = s] /\ Fail(p, "aws")
  /\ UNCHANGED <<streams, restarts>>

\* So does the request of a process that was killed.
OrphanRequestEnds(r) ==
  /\ group[r] = "creating"
  /\ \A p \in Procs : ~(pc[p] = "creating" /\ Here(p) = r)
  /\ \E s \in {"exists", "absent"} : group' = [group EXCEPT ![r] = s]
  /\ UNCHANGED <<streams, procVars, restarts>>

\* The streams of a group that is not there cannot be listed.
DescribeLogStreams(p) ==
  /\ pc[p] = "describeStreams"
  /\ \/ group[Here(p)] # "exists" /\ Fail(p, "race")
     \/ /\ group[Here(p)] = "exists"
        /\ Page(p, EnsuredStream(p) \in streams[Here(p)], NextRegion(p), Goto(p, "createStream"))
  /\ UNCHANGED <<awsVars, restarts>>

\* Mutant: the stream is taken for granted once its group is there.
CreateLogStreamSkipped(p) ==
  /\ pc[p] = "createStream"
  /\ NextRegion(p)
  /\ UNCHANGED <<awsVars, restarts>>

\* A stream of that name may be there, from an earlier start or by a retry of
\* the SDK; the answer may be lost.
CreateLogStream(p) ==
  /\ pc[p] = "createStream"
  /\ \/ /\ streams' = [streams EXCEPT ![Here(p)] = @ \cup {EnsuredStream(p)}]
        /\ NextRegion(p) \/ Fail(p, "aws")
     \/ Fail(p, "aws") /\ UNCHANGED streams
  /\ UNCHANGED <<group, restarts>>

EnsureGroupAndStream(p) ==
  \/ NewClient(p)
  \/ DescribeLogGroups(p) \/ CreateLogGroup(p) \/ GroupCreated(p)
  \/ DescribeLogStreams(p) \/ CreateLogStream(p)

\* The init timeout, the exit after an error, or the next invocation of the
\* resource-quota function: the process starts over, CloudWatch Logs stays.
Restart(p) ==
  /\ restarts[p] < MaxRestarts
  /\ restarts' = [restarts EXCEPT ![p] = @ + 1]
  /\ pc' = [pc EXCEPT ![p] = "client"]
  /\ at' = [at EXCEPT ![p] = 1] /\ page' = [page EXCEPT ![p] = 1]
  /\ aborted' = [aborted EXCEPT ![p] = FALSE] /\ why' = [why EXCEPT ![p] = "none"]
  /\ UNCHANGED awsVars

Next == \/ \E p \in Procs : EnsureGroupAndStream(p) \/ Restart(p)
        \/ \E r \in Regions : OrphanRequestEnds(r)

Spec == Init /\ [][Next]_vars

\* Every call of the SDK returns.
LiveSpec == Spec /\ \A p \in Procs : WF_vars(EnsureGroupAndStream(p))

-----------------------------------------------------------------------------
(* Properties.                                                             *)

\* Types; a process is always at one of the configured regions.
TypeOK ==
  /\ group \in [Regions -> {"absent", "creating", "exists"}]
  /\ DOMAIN streams = Regions
  /\ pc \in [Procs -> {"client", "describeGroups", "createGroup", "creating",
                       "describeStreams", "createStream", "ready", "failed"}]
  /\ at \in [Procs -> DOMAIN RegionList] /\ page \in [Procs -> 1..MaxPages]
  /\ restarts \in [Procs -> 0..MaxRestarts]
  /\ aborted \in [Procs -> BOOLEAN] /\ why \in [Procs -> {"none", "aws", "race"}]

\* A process that has passed its setup finds, in every region, the group and
\* the stream it will write to, although an aborted creation counts as a
\* success on the way.  The extension without a name from its environment is
\* the exception: the name it writes to is not the one it ensured.
StreamsReady ==
  \A p \in Procs : pc[p] = "ready" =>
     \A r \in Regions :
        /\ group[r] = "exists"
        /\ EnsuredStream(p) \in streams[r]
        /\ WriteStream(p) \in streams[r] \/ p \in Extensions \ HasEnv

\* Racing for the same group ends a process in one case only: its creation
\* was aborted and the group was not there yet when it asked for the streams.
\* A group or a stream that appears under its hands never does.
FailsOnlyIfAborted ==
  \A p \in Procs : pc[p] = "failed" /\ why[p] = "race" => aborted[p]

\* Every start of a process ends its setup, however the others interfere.
SetupEnds ==
  \A p \in Procs : pc[p] = "client" ~> pc[p] \in {"ready", "failed"}
=============================================================================
