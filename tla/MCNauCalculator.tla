--------------------------- MODULE MCNauCalculator ---------------------------
(***************************************************************************)
(* Two VPCs that share the region's load balancer and file system          *)
(* listings.  West has two NAT gateways, one more than a call returns.     *)
(***************************************************************************)
EXTENDS NauCalculator

vpcs == {[id |-> v, kind |-> "vpc", needs |-> {}] : v \in {"east", "west"}}
pod == [id |-> "pod", kind |-> "eni", vpc |-> "east", needs |-> {"east"}, type |-> "branch",
        private |-> 2, public |-> 1, ipv6 |-> 1, prefixes |-> 1]
lambda == [id |-> "lambda", kind |-> "eni", vpc |-> "east", needs |-> {"east"}, type |-> "lambda",
           private |-> 1, public |-> 0, ipv6 |-> 0, prefixes |-> 0]
nats == {[id |-> n, kind |-> "nat", vpc |-> "west", needs |-> {"west"}] : n \in {"nat1", "nat2"}}
endpoint == [id |-> "gateway", kind |-> "endpoint", vpc |-> "west", needs |-> {"west"},
             subnets |-> 0, tables |-> 2]
balancer == [id |-> "nlb", kind |-> "lb", vpc |-> "west", needs |-> {"west"}, zones |-> 2]
attachment == [id |-> "tgw", kind |-> "attachment", vpc |-> "west", needs |-> {"west"}]
subnet == [id |-> "subnet", kind |-> "subnet", vpc |-> "east", needs |-> {"east"}]
files == [id |-> "files", kind |-> "fs", needs |-> {}]
mount == [id |-> "mount", kind |-> "mount", fs |-> "files", subnet |-> "subnet",
          needs |-> {"files", "subnet"}]

MCInventory == vpcs \cup nats
               \cup {pod, lambda, endpoint, balancer, attachment, subnet, files, mount}
MCInitially == MCInventory \ {lambda, endpoint}
=============================================================================
