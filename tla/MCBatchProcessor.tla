-------------------------- MODULE MCBatchProcessor --------------------------
(***************************************************************************)
(* Two producers and four items: two that fit one batch together, one that *)
(* is too large for any batch and one that MapFunc rejects.                *)
(***************************************************************************)
EXTENDS BatchProcessor

CONSTANTS p1, p2, small, medium, large, bad

MCProducers == {p1, p2}
MCItems == {small, medium, large, bad}
MCMappable == {small, medium, large}
MCSize == small :> 1 @@ medium :> 2 @@ large :> 5 @@ bad :> 1
=============================================================================
