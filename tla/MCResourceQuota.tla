--------------------------- MODULE MCResourceQuota ---------------------------
(***************************************************************************)
(* Two configured regions with a job for each, one whose metric cannot be  *)
(* mapped, and a job whose region has no channel: the OIDC job reports for *)
(* us-east-1 whatever is configured.                                       *)
(***************************************************************************)
EXTENDS RegionStream

CONSTANTS w1, w2, eni, eks, oidc, west, north, useast

MCWorkers == {w1, w2}
MCJobs == {eni, eks, oidc}
MCRegions == {west, north, useast}
MCConfigured == {west, north}
MCRegionOf == eni :> west @@ eks :> north @@ oidc :> useast
MCMetricsOf == eni :> 1 @@ eks :> 1 @@ oidc :> 1
MCUnmappable == {<<eni, 1>>}
=============================================================================
