---------------------------- MODULE NauCalculator ----------------------------
(***************************************************************************)
(* CalculateVPCNAU (internal/nau): the network address units of every VPC  *)
(* of a region, summed over some ten listings of a live account, VPC after *)
(* VPC, while resources come and go.                                       *)
(*                                                                         *)
(* The account is external.  A paginated listing returns, page by page,    *)
(* what is present when the page is made, nothing twice, and does not end  *)
(* before it has returned what was there all along.  A call that is not    *)
(* paginated returns at most OneShot items.  Any call may fail.            *)
(***************************************************************************)
EXTENDS Integers, FiniteSets, FiniteSetsExt

CONSTANTS Inventory,   \* the resources that may exist, records with an id, a
                       \* kind, the kind's own fields and what they depend on
          Initially,   \* those there at the start
          PageSize, OneShot,
          MaxChanges   \* bound on creations and deletions during a calculation

ASSUME NauAssumption ==
  /\ IsFiniteSet(Inventory) /\ Initially \subseteq Inventory
  /\ PageSize \in Nat \ {0} /\ OneShot \in Nat \ {0} /\ MaxChanges \in Nat

OfKind(kind, S) == {x \in S : x.kind = kind}
Ids(S) == {x.id : x \in S}
In(v, S) == {x \in S : x.vpc = v}

\* An account of AWS: ids are unique, what is there has what it needs, and a
\* mount target is one of a file system in a subnet.
ASSUME AccountAssumption ==
  /\ \A x, y \in Inventory : x.id = y.id => x = y
  /\ \A x \in Initially : x.needs \subseteq Ids(Initially)
  /\ \A x \in OfKind("mount", Inventory) :
       {x.fs, x.subnet} \subseteq x.needs /\ x.fs \in Ids(OfKind("fs", Inventory))
  /\ \A x \in OfKind("eni", Inventory) :
       /\ x.type \in {"eni", "lambda", "efa", "branch"}
       /\ x.private \in Nat /\ x.public \in Nat /\ x.ipv6 \in Nat /\ x.prefixes \in Nat
  /\ \A x \in OfKind("endpoint", Inventory) : x.subnets \in Nat /\ x.tables \in Nat
  /\ \A x \in OfKind("lb", Inventory) : x.zones \in Nat

VARIABLES
  present,     \* the account now,
  always,      \* what has been there since the calculation began,
  ever,        \* and what has been there at any time since
  changes,
  pc, vpc,     \* the call to make next, and for which VPC
  vpcPager, pager, fsPager,   \* the paginators in use
  vpcTodo, fsTodo, fs,        \* the rest of a page that is being worked on
  subnets,     \* the ids of the VPC's subnets
  total,       \* the units of the VPC so far
  out,         \* the result: VPCs with their units
  cut          \* the VPCs for which an unpaginated call left something out

account == <<present, always, ever, changes>>
calculator == <<pc, vpc, vpcPager, pager, fsPager, vpcTodo, fsTodo, fs, subnets, total, out, cut>>
vars == <<account, calculator>>

-----------------------------------------------------------------------------
(* Units.                                                                  *)

\* NewWeightTable.
Weight == [address |-> 1, eni |-> 1, prefix |-> 1, loadBalancer |-> 6, endpoint |-> 6,
           attachment |-> 6, lambda |-> 6, nat |-> 6, mountTarget |-> 6, efa |-> 1, branch |-> 1]

\* An interface of a function counts as a whole, any other with its addresses.
InterfaceUnits(e) ==
  IF e.type = "lambda" THEN Weight.lambda
  ELSE Weight[e.type]
       + (e.private + e.public + e.ipv6) * Weight.address + e.prefixes * Weight.prefix

\* One zone for each subnet, or else for each route table, or else one.
EndpointZones(e) ==
  CASE e.subnets > 0 -> e.subnets
    [] e.subnets = 0 /\ e.tables > 0 -> e.tables
    [] OTHER -> 1

UnitsOf(x) ==
  CASE x.kind = "eni" -> InterfaceUnits(x)
    [] x.kind = "nat" -> Weight.nat
    [] x.kind = "endpoint" -> EndpointZones(x) * Weight.endpoint
    [] x.kind = "lb" -> x.zones * Weight.loadBalancer
    [] x.kind = "attachment" -> Weight.attachment
    [] x.kind = "mount" -> Weight.mountTarget
Units(S) == MapThenSumSet(UnitsOf, S)

-----------------------------------------------------------------------------
(* Calls.                                                                  *)

\* The filter vpc-id of a request.
OfThisVpc(kind) == In(vpc, OfKind(kind, Inventory))

NewPager == [seen |-> {}, more |-> TRUE]

\* The pages a paginator may return next, of the resources it is asked for, each
\* with the paginator afterwards.
NextPage(p, asked) ==
  LET fresh == (present \cap asked) \ p.seen
      due == always \cap asked
      pages == {S \in SUBSET fresh : Cardinality(S) <= PageSize}
      Page(S, m) == [items |-> S, pager |-> [seen |-> p.seen \cup S, more |-> m]]
  IN {Page(S, TRUE) : S \in pages \ {{}}}
     \cup {Page(S, FALSE) : S \in {S \in pages : due \subseteq p.seen \cup S}}

\* What one call without pagination may return.
Once(kind) ==
  LET all == In(vpc, OfKind(kind, present))
  IN {S \in SUBSET all : S = all \/ (Cardinality(S) = OneShot /\ Cardinality(all) > OneShot)}
MarkCut(kind, S) ==
  cut' = IF S = In(vpc, OfKind(kind, present)) THEN cut ELSE cut \cup {vpc}

\* Mutant: an error is remembered as the result of the VPC and the loop goes on.
CallFailsOnlyVpc ==
  /\ pc \notin {"vpcs", "done", "failed"}
  /\ out' = [v \in DOMAIN out \cup {vpc} |-> IF v = vpc THEN -1 ELSE out[v]]
  /\ pc' = "vpcs"
  /\ UNCHANGED <<account, vpc, vpcPager, pager, fsPager, vpcTodo, fsTodo, fs, subnets, total, cut>>

\* A call fails: the calculation ends with an error and without a result.
CallFails ==
  /\ pc \notin {"vpcs", "done", "failed"} \/ (pc = "vpcs" /\ vpcTodo = {} /\ vpcPager.more)
  /\ pc' = "failed"
  /\ UNCHANGED <<account, vpc, vpcPager, pager, fsPager, vpcTodo, fsTodo, fs, subnets, total, out, cut>>

\* The paginated sums: each page adds the units of the items that are counted.
SumPages(stage, asked, counted, next) ==
  /\ pc = stage
  /\ \E page \in NextPage(pager, asked) :
       /\ total' = total + Units(page.items \cap counted)
       /\ \/ page.pager.more /\ pager' = page.pager /\ UNCHANGED pc
          \/ ~page.pager.more /\ pager' = NewPager /\ pc' = next
  /\ UNCHANGED <<account, vpc, vpcPager, fsPager, vpcTodo, fsTodo, fs, subnets, out, cut>>

-----------------------------------------------------------------------------
(* CalculateVPCNAU.                                                        *)

Init ==
  /\ present = Initially /\ always = Initially /\ ever = Initially /\ changes = 0
  /\ pc = "vpcs" /\ vpc = "none" /\ fs = "none"
  /\ vpcPager = NewPager /\ pager = NewPager /\ fsPager = NewPager
  /\ vpcTodo = {} /\ fsTodo = {} /\ subnets = {}
  /\ total = 0 /\ out = <<>> /\ cut = {}

ListVpcs ==
  /\ pc = "vpcs" /\ vpcTodo = {} /\ vpcPager.more
  /\ \E page \in NextPage(vpcPager, OfKind("vpc", Inventory)) :
       vpcTodo' = Ids(page.items) /\ vpcPager' = page.pager
  /\ UNCHANGED <<account, pc, vpc, pager, fsPager, fsTodo, fs, subnets, total, out, cut>>

\* Mutant: the sum of the previous VPC is still in it.
NextVpcKeepsTotal ==
  /\ pc = "vpcs"
  /\ \E v \in vpcTodo : vpc' = v /\ vpcTodo' = vpcTodo \ {v}
  /\ pc' = "eni" /\ UNCHANGED total
  /\ UNCHANGED <<account, vpcPager, pager, fsPager, fsTodo, fs, subnets, out, cut>>

NextVpc ==
  /\ pc = "vpcs"
  /\ \E v \in vpcTodo : vpc' = v /\ vpcTodo' = vpcTodo \ {v}
  /\ pc' = "eni" /\ total' = 0
  /\ UNCHANGED <<account, vpcPager, pager, fsPager, fsTodo, fs, subnets, out, cut>>

calculateENINau == SumPages("eni", OfThisVpc("eni"), OfThisVpc("eni"), "nat")

\* The two calls that are not paginated.
SumOnce(kind, next) ==
  /\ pc = kind
  /\ \E S \in Once(kind) : total' = total + Units(S) /\ MarkCut(kind, S)
  /\ pc' = next
  /\ UNCHANGED <<account, vpc, vpcPager, pager, fsPager, vpcTodo, fsTodo, fs, subnets, out>>

calculateNATGatewayNau == SumOnce("nat", "endpoint")
calculateVPCEndpointsNau == SumOnce("endpoint", "lb")

\* Load balancers are listed for the region; the others are skipped.
calculateLoadBalancersNau ==
  SumPages("lb", OfKind("lb", Inventory), OfThisVpc("lb"), "attachment")

calculateTransitGatewayVpcAttachmentsNau ==
  SumPages("attachment", OfThisVpc("attachment"), OfThisVpc("attachment"), "subnet")

\* calculateEFSMountTargetsInVpcNau: the subnets, then each file system of the
\* region with its mount targets.
DescribeSubnets ==
  /\ pc = "subnet"
  /\ \E S \in Once("subnet") : subnets' = Ids(S) /\ MarkCut("subnet", S)
  /\ pc' = "fs" /\ fsPager' = NewPager
  /\ UNCHANGED <<account, vpc, vpcPager, pager, vpcTodo, fsTodo, fs, total, out>>

ListFileSystems ==
  /\ pc = "fs" /\ fsTodo = {} /\ fsPager.more
  /\ \E page \in NextPage(fsPager, OfKind("fs", Inventory)) :
       fsTodo' = Ids(page.items) /\ fsPager' = page.pager
  /\ UNCHANGED <<account, pc, vpc, vpcPager, pager, vpcTodo, fs, subnets, total, out, cut>>

NextFileSystem ==
  /\ pc = "fs"
  /\ \E f \in fsTodo : fs' = f /\ fsTodo' = fsTodo \ {f}
  /\ pc' = "mount"
  /\ UNCHANGED <<account, vpc, vpcPager, pager, fsPager, vpcTodo, subnets, total, out, cut>>

\* A file system that is gone has no listing: the call fails.
ListMountTargets ==
  /\ fs \in Ids(present)
  /\ LET targets == OfKind("mount", Inventory)
     IN SumPages("mount", {x \in targets : x.fs = fs}, {x \in targets : x.subnet \in subnets}, "fs")

\* The file systems are through: the VPC has its result.
VpcDone ==
  /\ pc = "fs" /\ fsTodo = {} /\ ~fsPager.more
  /\ out' = [v \in DOMAIN out \cup {vpc} |-> IF v = vpc THEN total ELSE out[v]]
  /\ pc' = "vpcs" /\ vpc' = "none" /\ fs' = "none" /\ subnets' = {}
  /\ UNCHANGED <<account, vpcPager, pager, fsPager, vpcTodo, fsTodo, total, cut>>

Return ==
  /\ pc = "vpcs" /\ vpcTodo = {} /\ ~vpcPager.more
  /\ pc' = "done"
  /\ UNCHANGED <<account, vpc, vpcPager, pager, fsPager, vpcTodo, fsTodo, fs, subnets, total, out, cut>>

CalculateVPCNAU ==
  \/ ListVpcs \/ NextVpc
  \/ calculateENINau \/ calculateNATGatewayNau \/ calculateVPCEndpointsNau
  \/ calculateLoadBalancersNau \/ calculateTransitGatewayVpcAttachmentsNau
  \/ DescribeSubnets \/ ListFileSystems \/ NextFileSystem \/ ListMountTargets \/ VpcDone
  \/ CallFails \/ Return

\* A resource comes when what it needs is there, and goes when nothing needs it.
Change ==
  /\ changes < MaxChanges /\ pc \notin {"done", "failed"}
  /\ changes' = changes + 1
  /\ \/ \E x \in Inventory \ present :
          /\ x.needs \subseteq Ids(present)
          /\ present' = present \cup {x} /\ ever' = ever \cup {x} /\ UNCHANGED always
     \/ \E x \in present :
          /\ \A y \in present : x.id \notin y.needs
          /\ present' = present \ {x} /\ always' = always \ {x} /\ UNCHANGED ever
  /\ UNCHANGED calculator

Next == CalculateVPCNAU \/ Change

Spec == Init /\ [][Next]_vars

-----------------------------------------------------------------------------
(* Properties.                                                             *)

\* Types; what is waited for and what is present stay within the account.
TypeOK ==
  /\ always \subseteq present /\ present \subseteq ever /\ ever \subseteq Inventory
  /\ changes \in 0..MaxChanges
  /\ pc \in {"vpcs", "eni", "nat", "endpoint", "lb", "attachment", "subnet", "fs",
             "mount", "done", "failed"}
  /\ DOMAIN out \subseteq Ids(OfKind("vpc", ever)) /\ cut \subseteq Ids(OfKind("vpc", ever))
  /\ vpcTodo \cup subnets \cup fsTodo \subseteq Ids(ever)
  /\ total \in Nat /\ \A v \in DOMAIN out : out[v] \in Nat

\* The units of VPC v among the resources S; a mount target belongs to the VPC
\* of its subnet.
NauOf(v, S) ==
  Units({x \in S : x.kind \in {"eni", "nat", "endpoint", "lb", "attachment"} /\ x.vpc = v}
        \cup {x \in OfKind("mount", S) : x.subnet \in Ids(In(v, OfKind("subnet", ever)))})

\* "the total NAU units for every VPC in the region": a VPC that was there all
\* along has a result, which counts every resource that was there all along and
\* none that was not there at some time, in whatever order things came and went
\* between the calls.  Only a call whose further pages nobody asks for may leave
\* something out, and only of a VPC that has more than it returns.
EveryVpcCounted ==
  pc = "done" =>
    /\ Ids(OfKind("vpc", always)) \subseteq DOMAIN out
    /\ \A v \in DOMAIN out :
         /\ out[v] <= NauOf(v, ever)
         /\ v \in cut \/ NauOf(v, always) <= out[v]
         /\ v \in cut => \E kind \in {"nat", "endpoint", "subnet"} :
                           Cardinality(In(v, OfKind(kind, ever))) > OneShot
=============================================================================
