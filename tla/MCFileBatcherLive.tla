-------------------------- MODULE MCFileBatcherLive --------------------------
(***************************************************************************)
(* The program's configuration: nobody calls Stop or cancels.  One region  *)
(* (no flush touches another region's file or counters), three events of   *)
(* one byte, a file in which an earlier process may have left a torn line, *)
(* and opens and truncations that fail now and then.                       *)
(***************************************************************************)
EXTENDS CTFileBatcher

CONSTANTS e1, e2, e3, east

MCEvents == {e1, e2, e3}
MCRegions == {east}
MCRegionOf == [e \in MCEvents |-> east]
MCRecSize == [e \in MCEvents |-> 1]
MCLeft == [r \in MCRegions |-> <<Torn>>]
=============================================================================
