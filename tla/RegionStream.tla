----------------------------- MODULE RegionStream -----------------------------
(***************************************************************************)
(* The batcher of one region of the resource-quota function, seen by its   *)
(* workers: inside the invocation it keeps the promise of BatchStream, as  *)
(* the detailed processor of BatchProcessor does alone.                    *)
(***************************************************************************)
EXTENDS ResourceQuota

CONSTANT Region   \* any region that has a batcher

ASSUME RegionAssumption == Region \in Configured

\* What the batcher has received and not yet handed to FlushFunc.
Held == IF bpc[Region] \in {"flushing", "finalFlush"} THEN <<>> ELSE batch[Region]

Stream == INSTANCE BatchStream WITH
            Items <- Metric, MaxBatchSize <- 0, queue <- Held \o ch[Region],
            delivered <- handed[Region], cancelled <- done,
            stopped <- (bpc[Region] = "exited")

\* What workers put on the region's channel reaches FlushFunc once and in
\* order, or is reported as unmappable; the batcher leaves metrics behind only
\* when the context is done.
BatcherSpec == Stream!Spec
=============================================================================
