---------------------------- MODULE LogSetup_proofs ----------------------------
(***************************************************************************)
(* Theorems about LogSetup, for every number of processes and regions and  *)
(* every length of the listings.                                           *)
(***************************************************************************)
EXTENDS LogSetup, TLAPS

-----------------------------------------------------------------------------
(* The inductive invariant.                                                *)

\* One request at a time creates a region's group.
OneCreator ==
  /\ \A p \in Procs : pc[p] = "creating" => group[Here(p)] = "creating"
  /\ \A p, q \in Procs : pc[p] = "creating" /\ pc[q] = "creating" /\ Here(p) = Here(q) => p = q

Done(p, r) == group[r] = "exists" /\ EnsuredStream(p) \in streams[r]

\* The regions a process has behind it are done, and what it knows of the
\* group of the region it is at.
DoneSoFar ==
  \A p \in Procs :
     /\ \A i \in 1..(at[p] - 1) : Done(p, RegionList[i])
     /\ pc[p] = "ready" => \A r \in Regions : Done(p, r)
     /\ pc[p] = "createStream" => group[Here(p)] = "exists"
     /\ pc[p] = "describeStreams" => group[Here(p)] = "exists" \/ aborted[p]

SetupInv == TypeOK /\ OneCreator /\ DoneSoFar /\ FailsOnlyIfAborted

-----------------------------------------------------------------------------
(* Regions and types.                                                      *)

\* The regions, by their place in the list.
LEMMA RegionPlaces ==
  /\ Len(RegionList) \in Nat \ {0} /\ DOMAIN RegionList = 1..Len(RegionList)
  /\ \A i \in DOMAIN RegionList : RegionList[i] \in Regions
  /\ \A r \in Regions : \E i \in DOMAIN RegionList : r = RegionList[i]
  BY LogSetupAssumption DEF Regions, ToSet

\* The invariant holds initially.
LEMMA InitSetup == Init => SetupInv
<1> SUFFICES ASSUME Init PROVE SetupInv
  OBVIOUS
<1>1. TypeOK
  <2>1. /\ group \in [Regions -> {"absent", "creating", "exists"}] /\ DOMAIN streams = Regions
        /\ pc \in [Procs -> {"client", "describeGroups", "createGroup", "creating",
                             "describeStreams", "createStream", "ready", "failed"}]
    BY DEF Init
  <2>2. at \in [Procs -> DOMAIN RegionList] /\ page \in [Procs -> 1..MaxPages]
    BY RegionPlaces, LogSetupAssumption DEF Init
  <2>3. /\ restarts \in [Procs -> 0..MaxRestarts]
        /\ aborted \in [Procs -> BOOLEAN] /\ why \in [Procs -> {"none", "aws", "race"}]
    BY LogSetupAssumption DEF Init
  <2> QED BY <2>1, <2>2, <2>3 DEF TypeOK
<1>2. OneCreator /\ DoneSoFar /\ FailsOnlyIfAborted
  BY DEF Init, OneCreator, DoneSoFar, FailsOnlyIfAborted
<1> QED BY <1>1, <1>2 DEF SetupInv

\* Going on, failing and the next region keep the types.
LEMMA MovesTyped ==
  ASSUME TypeOK, NEW p \in Procs, restarts' = restarts,
         group' \in [Regions -> {"absent", "creating", "exists"}], DOMAIN streams' = Regions
  PROVE  /\ \A to \in {"describeGroups", "createGroup", "creating", "describeStreams", "createStream"} :
              Goto(p, to) => TypeOK'
         /\ \A cause \in {"aws", "race"} : Fail(p, cause) => TypeOK'
         /\ NextRegion(p) => TypeOK'
<1>1. ASSUME NEW to \in {"describeGroups", "createGroup", "creating", "describeStreams", "createStream"},
             Goto(p, to)
      PROVE  TypeOK'
  BY <1>1, LogSetupAssumption DEF TypeOK, Goto
<1>2. ASSUME NEW cause \in {"aws", "race"}, Fail(p, cause)
      PROVE  TypeOK'
  BY <1>2 DEF TypeOK, Fail
<1>3. ASSUME NextRegion(p)
      PROVE  TypeOK'
  <2>1. at' \in [Procs -> DOMAIN RegionList]
    BY <1>3, RegionPlaces DEF TypeOK, NextRegion
  <2> QED BY <1>3, <2>1 DEF TypeOK, NextRegion
<1> QED BY <1>1, <1>2, <1>3

\* Every step keeps the types.
LEMMA TypesStep ==
  ASSUME TypeOK, [Next]_vars
  PROVE  TypeOK'
<1>1. ASSUME NEW p \in Procs, NewClient(p)
      PROVE  TypeOK'
  BY <1>1, MovesTyped DEF NewClient, awsVars, TypeOK
<1>2. ASSUME NEW p \in Procs, page' = [page EXCEPT ![p] = @ + 1], page[p] < MaxPages,
             UNCHANGED <<pc, at, aborted, why, awsVars, restarts>>
      PROVE  TypeOK'
  BY <1>2, LogSetupAssumption DEF TypeOK, awsVars
<1>3. ASSUME NEW p \in Procs, DescribeLogGroups(p)
      PROVE  TypeOK'
  BY <1>2, <1>3, MovesTyped DEF DescribeLogGroups, Page, awsVars, TypeOK
<1>4. ASSUME NEW p \in Procs, CreateLogGroup(p)
      PROVE  TypeOK'
  <2>1. group' \in [Regions -> {"absent", "creating", "exists"}] /\ DOMAIN streams' = Regions
    BY <1>4 DEF CreateLogGroup, TypeOK
  <2>2. CASE pc' = [pc EXCEPT ![p] = "describeStreams"] /\ aborted' = [aborted EXCEPT ![p] = TRUE]
             /\ UNCHANGED <<group, at, page, why>>
    BY <1>4, <2>1, <2>2 DEF CreateLogGroup, TypeOK
  <2> QED BY <1>4, <2>1, <2>2, MovesTyped DEF CreateLogGroup
<1>5. ASSUME NEW p \in Procs, GroupCreated(p)
      PROVE  TypeOK'
  <2>1. group' \in [Regions -> {"absent", "creating", "exists"}] /\ DOMAIN streams' = Regions
    BY <1>5 DEF GroupCreated, TypeOK
  <2> QED BY <1>5, <2>1, MovesTyped DEF GroupCreated
<1>6. ASSUME NEW p \in Procs, DescribeLogStreams(p)
      PROVE  TypeOK'
  BY <1>2, <1>6, MovesTyped DEF DescribeLogStreams, Page, awsVars, TypeOK
<1>7. ASSUME NEW p \in Procs, CreateLogStream(p)
      PROVE  TypeOK'
  <2>1. group' \in [Regions -> {"absent", "creating", "exists"}] /\ DOMAIN streams' = Regions
    BY <1>7 DEF CreateLogStream, TypeOK
  <2> QED BY <1>7, <2>1, MovesTyped DEF CreateLogStream
<1>8. ASSUME NEW p \in Procs, Restart(p)
      PROVE  TypeOK'
  <2>1. at' \in [Procs -> DOMAIN RegionList] /\ restarts' \in [Procs -> 0..MaxRestarts]
        /\ page' \in [Procs -> 1..MaxPages]
    BY <1>8, RegionPlaces, LogSetupAssumption DEF Restart, TypeOK
  <2> QED BY <1>8, <2>1 DEF Restart, TypeOK, awsVars
<1>9. ASSUME NEW r \in Regions, OrphanRequestEnds(r)
      PROVE  TypeOK'
  BY <1>9 DEF OrphanRequestEnds, TypeOK, procVars
<1>10. CASE UNCHANGED vars
  BY <1>10 DEF vars, awsVars, procVars, TypeOK
<1> QED BY <1>1, <1>3, <1>4, <1>5, <1>6, <1>7, <1>8, <1>9, <1>10 DEF Next, EnsureGroupAndStream

-----------------------------------------------------------------------------
(* Processes do not disturb each other.                                    *)

\* A step of one process leaves the others where they are.
LEMMA OthersStay ==
  ASSUME TypeOK, NEW p \in Procs, EnsureGroupAndStream(p) \/ Restart(p), NEW q \in Procs, q # p
  PROVE  /\ pc'[q] = pc[q] /\ at'[q] = at[q] /\ aborted'[q] = aborted[q]
         /\ why'[q] = why[q] /\ restarts'[q] = restarts[q]
<1>1. CASE NewClient(p) \/ Restart(p)
  BY <1>1 DEF TypeOK, NewClient, Goto, Fail, Restart
<1>2. CASE DescribeLogGroups(p)
  BY <1>2 DEF TypeOK, DescribeLogGroups, Page, Goto, Fail
<1>3. CASE CreateLogGroup(p) \/ GroupCreated(p)
  BY <1>3 DEF TypeOK, CreateLogGroup, GroupCreated, Goto, Fail
<1>4. CASE DescribeLogStreams(p)
  BY <1>4 DEF TypeOK, DescribeLogStreams, Page, Goto, Fail, NextRegion
<1>5. CASE CreateLogStream(p)
  BY <1>5 DEF TypeOK, CreateLogStream, Fail, NextRegion
<1> QED BY <1>1, <1>2, <1>3, <1>4, <1>5 DEF EnsureGroupAndStream

\* The region a process is at is one of the list.
LEMMA HereIsRegion ==
  ASSUME TypeOK, NEW p \in Procs
  PROVE  Here(p) \in Regions /\ at[p] \in 1..Len(RegionList)
  BY RegionPlaces DEF TypeOK, Here

\* A group that is there stays, and so do the streams.
LEMMA NothingDeleted ==
  ASSUME TypeOK, OneCreator, [Next]_vars, NEW r \in Regions
  PROVE  (group[r] = "exists" => group'[r] = "exists") /\ streams[r] \subseteq streams'[r]
<1>1. ASSUME NEW p \in Procs, CreateLogGroup(p) \/ GroupCreated(p)
      PROVE  (group[r] = "exists" => group'[r] = "exists") /\ streams[r] \subseteq streams'[r]
  BY <1>1 DEF CreateLogGroup, GroupCreated, OneCreator, TypeOK
<1>2. ASSUME NEW p \in Procs, CreateLogStream(p)
      PROVE  (group[r] = "exists" => group'[r] = "exists") /\ streams[r] \subseteq streams'[r]
  BY <1>2 DEF CreateLogStream, TypeOK
<1>3. ASSUME NEW s \in Regions, OrphanRequestEnds(s)
      PROVE  (group[r] = "exists" => group'[r] = "exists") /\ streams[r] \subseteq streams'[r]
  BY <1>3 DEF OrphanRequestEnds, TypeOK
<1>4. CASE UNCHANGED awsVars
  BY <1>4 DEF awsVars
<1>5. CASE Next
  BY <1>1, <1>2, <1>3, <1>4, <1>5
  DEF Next, EnsureGroupAndStream, NewClient, DescribeLogGroups, DescribeLogStreams, Restart
<1> QED BY <1>4, <1>5 DEF vars

-----------------------------------------------------------------------------
(* Creating a group.                                                       *)

\* Every step keeps one creator for each region.
LEMMA OneCreatorStep ==
  ASSUME TypeOK, OneCreator, [Next]_vars
  PROVE  OneCreator'
<1>1. ASSUME \A q \in Procs : pc'[q] = "creating" => pc[q] = "creating" /\ at'[q] = at[q],
             \A q \in Procs : pc'[q] = "creating" => group'[Here(q)] = group[Here(q)]
      PROVE  OneCreator'
  BY <1>1 DEF OneCreator, Here
<1>2. ASSUME NEW p \in Procs, EnsureGroupAndStream(p) \/ Restart(p), pc'[p] # "creating",
             \A r \in Regions : r # Here(p) \/ pc[p] # "creating" => group'[r] = group[r]
      PROVE  OneCreator'
  <2>1. \A q \in Procs : pc'[q] = "creating" => q # p /\ pc[q] = "creating" /\ at'[q] = at[q]
    BY <1>2, OthersStay
  <2>2. \A q \in Procs : pc'[q] = "creating" => Here(q) # Here(p) \/ pc[p] # "creating"
    BY <2>1 DEF OneCreator
  <2> QED BY <1>1, <1>2, <2>1, <2>2, HereIsRegion
<1>3. ASSUME NEW p \in Procs, GroupCreated(p) \/ Restart(p)
      PROVE  OneCreator'
  <2>1. pc'[p] # "creating"
    BY <1>3 DEF GroupCreated, Restart, Goto, Fail, TypeOK
  <2>2. \A r \in Regions : r # Here(p) \/ pc[p] # "creating" => group'[r] = group[r]
    BY <1>3 DEF GroupCreated, Restart, TypeOK, awsVars
  <2> QED BY <1>2, <1>3, <2>1, <2>2 DEF EnsureGroupAndStream
<1>4. ASSUME NEW p \in Procs, NewClient(p) \/ DescribeLogGroups(p) \/ DescribeLogStreams(p) \/ CreateLogStream(p)
      PROVE  OneCreator'
  <2>1. pc'[p] # "creating"
    <3>1. CASE NewClient(p)
      BY <3>1 DEF NewClient, Goto, Fail, TypeOK
    <3>2. CASE DescribeLogGroups(p)
      BY <3>2 DEF DescribeLogGroups, Page, Goto, Fail, TypeOK
    <3>3. CASE DescribeLogStreams(p)
      BY <3>3 DEF DescribeLogStreams, Page, Goto, Fail, NextRegion, TypeOK
    <3>4. CASE CreateLogStream(p)
      BY <3>4 DEF CreateLogStream, Fail, NextRegion, TypeOK
    <3> QED BY <1>4, <3>1, <3>2, <3>3, <3>4
  <2>2. group' = group
    BY <1>4 DEF NewClient, DescribeLogGroups, DescribeLogStreams, CreateLogStream, awsVars
  <2> QED BY <1>2, <1>4, <2>1, <2>2 DEF EnsureGroupAndStream
<1>5. ASSUME NEW p \in Procs, CreateLogGroup(p)
      PROVE  OneCreator'
  <2>1. CASE group' = group
    <3>1. pc'[p] # "creating"
      BY <1>5, <2>1, HereIsRegion DEF CreateLogGroup, Goto, Fail, TypeOK
    <3> QED BY <1>2, <1>5, <2>1, <3>1 DEF EnsureGroupAndStream
  <2>2. CASE /\ group[Here(p)] = "absent" /\ group' = [group EXCEPT ![Here(p)] = "creating"]
             /\ Goto(p, "creating")
    <3>1. \A q \in Procs : q # p => pc'[q] = pc[q] /\ at'[q] = at[q]
      BY <1>5, OthersStay DEF EnsureGroupAndStream
    <3>2. at'[p] = at[p] /\ group'[Here(p)] = "creating"
      BY <2>2, HereIsRegion DEF Goto, TypeOK
    <3>3. \A q \in Procs : q # p /\ pc[q] = "creating" => Here(q) # Here(p) /\ group'[Here(q)] = "creating"
      BY <2>2, HereIsRegion DEF OneCreator, TypeOK
    <3> QED BY <3>1, <3>2, <3>3 DEF OneCreator, Here
  <2> QED BY <1>5, <2>1, <2>2 DEF CreateLogGroup
<1>6. ASSUME NEW r \in Regions, OrphanRequestEnds(r)
      PROVE  OneCreator'
  <2>1. \A q \in Procs : pc[q] = "creating" => Here(q) # r /\ group'[Here(q)] = group[Here(q)]
    BY <1>6, HereIsRegion DEF OrphanRequestEnds, TypeOK
  <2> QED BY <1>1, <1>6, <2>1 DEF OrphanRequestEnds, procVars
<1>7. CASE UNCHANGED vars
  BY <1>1, <1>7 DEF vars, awsVars, procVars
<1> QED BY <1>3, <1>4, <1>5, <1>6, <1>7 DEF Next, EnsureGroupAndStream

-----------------------------------------------------------------------------
(* What a process has behind it.                                           *)

\* What holds of one process.
Behind(p) ==
  /\ \A i \in 1..(at[p] - 1) : Done(p, RegionList[i])
  /\ pc[p] = "ready" => \A r \in Regions : Done(p, r)
  /\ pc[p] = "createStream" => group[Here(p)] = "exists"
  /\ pc[p] = "describeStreams" => group[Here(p)] = "exists" \/ aborted[p]
  /\ pc[p] = "failed" /\ why[p] = "race" => aborted[p]

\* A process that does not step keeps it, and so does one that fails for an
\* AWS error, lists another page or has no group to look at yet.
LEMMA BehindStays ==
  ASSUME TypeOK, OneCreator, [Next]_vars, NEW p \in Procs, Behind(p),
         at'[p] = at[p], restarts'[p] = restarts[p],
         \/ pc'[p] = pc[p] /\ aborted'[p] = aborted[p] /\ why'[p] = why[p]
         \/ pc'[p] = "failed" /\ (why'[p] = "race" => aborted'[p])
         \/ pc'[p] \in {"describeGroups", "createGroup", "creating"}
         \/ pc'[p] = "createStream" /\ group'[Here(p)] = "exists"
         \/ pc'[p] = "describeStreams" /\ (group'[Here(p)] = "exists" \/ aborted'[p])
  PROVE  Behind(p)'
<1>1. Here(p)' = Here(p) /\ Here(p) \in Regions /\ EnsuredStream(p)' = EnsuredStream(p)
  BY HereIsRegion DEF Here, EnsuredStream, MakeStreamName
<1>2. \A r \in Regions : Done(p, r) => Done(p, r)'
  BY <1>1, NothingDeleted DEF Done
<1>3. \A i \in 1..(at[p] - 1) : RegionList[i] \in Regions
  BY HereIsRegion, RegionPlaces
<1> QED BY <1>1, <1>2, <1>3, NothingDeleted DEF Behind

\* Going to the next region adds the one that is done.
LEMMA BehindNext ==
  ASSUME TypeOK, OneCreator, [Next]_vars, NEW p \in Procs, Behind(p), NextRegion(p),
         restarts' = restarts,
         group'[Here(p)] = "exists", EnsuredStream(p) \in streams'[Here(p)]
  PROVE  Behind(p)'
<1>1. EnsuredStream(p)' = EnsuredStream(p) /\ at[p] \in 1..Len(RegionList)
  BY HereIsRegion DEF EnsuredStream, MakeStreamName
<1>2. \A i \in 1..(at[p] - 1) : Done(p, RegionList[i])'
  BY <1>1, NothingDeleted, RegionPlaces DEF Behind, Done
<1>3. \A i \in 1..at[p] : Done(p, RegionList[i])'
  <2> SUFFICES ASSUME NEW i \in 1..at[p] PROVE Done(p, RegionList[i])'
    OBVIOUS
  <2>1. CASE i = at[p]
    BY <1>1, <2>1 DEF Done, Here
  <2>2. CASE i # at[p]
    BY <1>1, <1>2, <2>2
  <2> QED BY <2>1, <2>2
<1>4. CASE at[p] = Len(RegionList) /\ pc' = [pc EXCEPT ![p] = "ready"] /\ at' = at
  <2>1. \A r \in Regions : Done(p, r)'
    BY <1>3, <1>4, RegionPlaces
  <2> QED BY <1>2, <1>4, <2>1 DEF Behind, TypeOK
<1>5. CASE pc' = [pc EXCEPT ![p] = "client"] /\ at' = [at EXCEPT ![p] = @ + 1]
  <2>1. at'[p] = at[p] + 1 /\ pc'[p] = "client"
    BY <1>5 DEF TypeOK
  <2>2. 1..(at'[p] - 1) = 1..at[p]
    BY <1>1, <2>1
  <2> QED BY <1>3, <2>1, <2>2 DEF Behind
<1> QED BY <1>4, <1>5 DEF NextRegion

\* The same for a step that goes on, fails or looks at another page.
LEMMA BehindMoves ==
  ASSUME TypeOK, OneCreator, [Next]_vars, NEW p \in Procs, Behind(p), restarts' = restarts
  PROVE  /\ Fail(p, "aws") => Behind(p)'
         /\ \A to \in {"describeGroups", "createGroup", "creating"} : Goto(p, to) => Behind(p)'
         /\ Goto(p, "createStream") /\ group'[Here(p)] = "exists" => Behind(p)'
         /\ Goto(p, "describeStreams") /\ group'[Here(p)] = "exists" => Behind(p)'
         /\ UNCHANGED <<pc, at, aborted, why>> => Behind(p)'
<1>1. ASSUME Fail(p, "aws")
      PROVE  Behind(p)'
  BY <1>1, BehindStays DEF Fail, TypeOK
<1>2. ASSUME NEW to \in {"describeGroups", "createGroup", "creating"}, Goto(p, to)
      PROVE  Behind(p)'
  BY <1>2, BehindStays DEF Goto, TypeOK
<1>3. ASSUME Goto(p, "createStream") \/ Goto(p, "describeStreams"), group'[Here(p)] = "exists"
      PROVE  Behind(p)'
  BY <1>3, BehindStays DEF Goto, TypeOK
<1>4. ASSUME UNCHANGED <<pc, at, aborted, why>>
      PROVE  Behind(p)'
  BY <1>4, BehindStays
<1> QED BY <1>1, <1>2, <1>3, <1>4

\* A step of the process itself keeps what it has behind it.
LEMMA OwnStep ==
  ASSUME TypeOK, OneCreator, [Next]_vars, NEW p \in Procs, Behind(p),
         EnsureGroupAndStream(p) \/ Restart(p)
  PROVE  Behind(p)'
<1>0. Here(p) \in Regions
  BY HereIsRegion
<1>1. CASE NewClient(p)
  BY <1>1, BehindMoves DEF NewClient
<1>2. CASE DescribeLogGroups(p)
  BY <1>2, BehindMoves DEF DescribeLogGroups, Page, awsVars
<1>3. CASE CreateLogGroup(p)
  <2>1. CASE pc' = [pc EXCEPT ![p] = "describeStreams"] /\ aborted' = [aborted EXCEPT ![p] = TRUE]
             /\ UNCHANGED <<group, at, page, why>>
    <3>1. /\ pc'[p] = "describeStreams" /\ aborted'[p] /\ at'[p] = at[p]
          /\ restarts'[p] = restarts[p]
      BY <1>3, <2>1 DEF CreateLogGroup, TypeOK
    <3> QED BY <3>1, BehindStays
  <2> QED BY <1>3, <2>1, BehindMoves DEF CreateLogGroup
<1>4. CASE GroupCreated(p)
  <2>1. group' = [group EXCEPT ![Here(p)] = "exists"] => group'[Here(p)] = "exists"
    BY <1>0 DEF TypeOK
  <2> QED BY <1>4, <2>1, BehindMoves DEF GroupCreated
<1>5. CASE DescribeLogStreams(p)
  <2>1. CASE group[Here(p)] # "exists" /\ Fail(p, "race")
    <3>1. aborted[p]
      BY <1>5, <2>1 DEF DescribeLogStreams, Behind
    <3>2. pc'[p] = "failed" /\ aborted'[p] /\ at'[p] = at[p] /\ restarts'[p] = restarts[p]
      BY <1>5, <2>1, <3>1 DEF DescribeLogStreams, Fail, TypeOK
    <3> QED BY <3>2, BehindStays
  <2>2. CASE group[Here(p)] = "exists" /\ EnsuredStream(p) \in streams[Here(p)] /\ NextRegion(p)
    BY <1>5, <2>2, BehindNext DEF DescribeLogStreams, awsVars
  <2> QED BY <1>5, <2>1, <2>2, BehindMoves DEF DescribeLogStreams, Page, awsVars
<1>6. CASE CreateLogStream(p)
  <2>1. CASE /\ streams' = [streams EXCEPT ![Here(p)] = @ \cup {EnsuredStream(p)}]
             /\ NextRegion(p)
    <3>1. EnsuredStream(p) \in streams'[Here(p)]
      BY <1>0, <2>1 DEF TypeOK
    <3>2. group'[Here(p)] = "exists" /\ restarts' = restarts
      BY <1>6 DEF CreateLogStream, Behind
    <3> QED BY <2>1, <3>1, <3>2, BehindNext
  <2> QED BY <1>6, <2>1, BehindMoves DEF CreateLogStream
<1>7. CASE Restart(p)
  <2>1. at'[p] = 1 /\ pc'[p] = "client"
    BY <1>7 DEF Restart, TypeOK
  <2> QED BY <2>1 DEF Behind
<1> QED BY <1>1, <1>2, <1>3, <1>4, <1>5, <1>6, <1>7 DEF EnsureGroupAndStream

\* Every step keeps what the processes have behind them.
LEMMA BehindStep ==
  ASSUME TypeOK, OneCreator, [Next]_vars, \A p \in Procs : Behind(p)
  PROVE  \A p \in Procs : Behind(p)'
<1> TAKE p \in Procs
<1>1. ASSUME NEW q \in Procs, EnsureGroupAndStream(q) \/ Restart(q)
      PROVE  Behind(p)'
  <2>1. CASE q = p
    BY <1>1, <2>1, OwnStep
  <2>2. CASE q # p
    BY <1>1, <2>2, OthersStay, BehindStays
  <2> QED BY <2>1, <2>2
<1>2. CASE UNCHANGED <<procVars, restarts>>
  BY <1>2, BehindStays DEF procVars
<1> QED BY <1>1, <1>2 DEF Next, vars, OrphanRequestEnds

-----------------------------------------------------------------------------
(* The invariant and what follows from it.                                 *)

\* The two parts of the invariant that speak of every process.
LEMMA BehindMeans == (\A p \in Procs : Behind(p)) <=> DoneSoFar /\ FailsOnlyIfAborted
  BY DEF Behind, DoneSoFar, FailsOnlyIfAborted

\* Every step keeps the invariant.
LEMMA SetupStep == SetupInv /\ [Next]_vars => SetupInv'
<1> SUFFICES ASSUME SetupInv, [Next]_vars PROVE SetupInv'
  OBVIOUS
<1>1. \A p \in Procs : Behind(p)
  BY BehindMeans DEF SetupInv
<1>2. \A p \in Procs : Behind(p)'
  BY <1>1, BehindStep DEF SetupInv
<1>3. (DoneSoFar /\ FailsOnlyIfAborted)'
  BY <1>2 DEF Behind, DoneSoFar, FailsOnlyIfAborted
<1> QED BY <1>3, TypesStep, OneCreatorStep DEF SetupInv

\* The invariant holds in every reachable state.
LEMMA SetupInvariant == Spec => []SetupInv
<1> QED BY InitSetup, SetupStep, PTL DEF Spec

\* The types hold, and a process is always at one of the configured regions.
THEOREM SetupTypes == Spec => []TypeOK
<1>1. SetupInv => TypeOK
  BY DEF SetupInv
<1> QED BY <1>1, SetupInvariant, PTL

\* A process that has passed its setup finds the group and the stream it will
\* write to in every region, however many others set up the same group; only
\* an extension without the stream name in its environment may not.
THEOREM ReadyMeansReady == Spec => []StreamsReady
<1>1. SetupInv => StreamsReady
  <2> SUFFICES ASSUME SetupInv, NEW p \in Procs, pc[p] = "ready", NEW r \in Regions
               PROVE  /\ group[r] = "exists" /\ EnsuredStream(p) \in streams[r]
                      /\ WriteStream(p) \in streams[r] \/ p \in Extensions \ HasEnv
    BY DEF StreamsReady
  <2>1. group[r] = "exists" /\ EnsuredStream(p) \in streams[r]
    BY DEF SetupInv, DoneSoFar, Done
  <2>2. p \notin Extensions \/ p \in HasEnv => WriteStream(p) = EnsuredStream(p)
    BY DEF WriteStream, EnsuredStream, MakeStreamName
  <2> QED BY <2>1, <2>2
<1> QED BY <1>1, SetupInvariant, PTL

\* Racing for the group ends a process only when its own creation was aborted
\* and the group was not yet there when it asked for the streams.
THEOREM RaceEndsOnlyAborted == Spec => []FailsOnlyIfAborted
<1>1. SetupInv => FailsOnlyIfAborted
  BY DEF SetupInv
<1> QED BY <1>1, SetupInvariant, PTL
===============================================================================
