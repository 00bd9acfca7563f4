---------------------------- MODULE MCJobManager ----------------------------
(***************************************************************************)
(* Two workers, three jobs: two metrics and one metric for the configured  *)
(* region, and one metric for a region without a channel.                  *)
(***************************************************************************)
EXTENDS JobManager

CONSTANTS w1, w2, twoMetrics, oneMetric, elsewhere, home, away

MCWorkers == {w1, w2}
MCJobs == {twoMetrics, oneMetric, elsewhere}
MCRegions == {home, away}
MCConfigured == {home}
MCRegionOf == twoMetrics :> home @@ oneMetric :> home @@ elsewhere :> away
MCMetricsOf == twoMetrics :> 2 @@ oneMetric :> 1 @@ elsewhere :> 1
=============================================================================
