-------------------------- MODULE MCFileBatcherStop --------------------------
(***************************************************************************)
(* Two events of different size for one region, a byte limit that the long *)
(* one reaches alone and overflows behind the short one, and a file in     *)
(* which an earlier process left the long one.                             *)
(***************************************************************************)
EXTENDS CTFileBatcher

CONSTANTS short, long, east

MCEvents == {short, long}
MCRegions == {east}
MCRegionOf == [e \in MCEvents |-> east]
MCRecSize == short :> 1 @@ long :> 2
MCLeft == [r \in MCRegions |-> <<long>>]
=============================================================================
