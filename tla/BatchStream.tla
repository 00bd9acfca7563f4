----------------------------- MODULE BatchStream -----------------------------
(***************************************************************************)
(* What a batch processor promises to the code that feeds it, with none of *)
(* its channel, ticker, select loop or byte counting.                      *)
(*                                                                         *)
(* Accepted items wait in one queue.  A delivery hands a nonempty prefix   *)
(* of the queue to the flush function, so every item is handed over at     *)
(* most once and in the order it was accepted; an item that cannot be      *)
(* converted leaves the queue from wherever it stands.  The processor may  *)
(* stop with items left in the queue only if its context was cancelled.    *)
(***************************************************************************)
EXTENDS Integers, Sequences, SequencesExt

CONSTANTS Items,         \* what may be added
          MaxBatchSize   \* items per delivery, 0 for no limit

VARIABLES queue,      \* accepted, neither delivered nor rejected, oldest first
          delivered,  \* every item handed to the flush function, in order
          cancelled,  \* the context is done
          stopped     \* the processing goroutine has returned

svars == <<queue, delivered, cancelled, stopped>>

Init == /\ queue = <<>>
        /\ delivered = <<>>
        /\ cancelled = FALSE
        /\ stopped = FALSE

Accept(i) == /\ stopped => cancelled
             /\ queue' = Append(queue, i)
             /\ UNCHANGED <<delivered, cancelled, stopped>>

Reject(k) == /\ ~stopped
             /\ queue' = RemoveAt(queue, k)
             /\ UNCHANGED <<delivered, cancelled, stopped>>

Deliver(n) == /\ ~stopped
              /\ MaxBatchSize > 0 => n <= MaxBatchSize
              /\ delivered' = delivered \o SubSeq(queue, 1, n)
              /\ queue' = SubSeq(queue, n + 1, Len(queue))
              /\ UNCHANGED <<cancelled, stopped>>

Cancel == /\ cancelled' = TRUE
          /\ UNCHANGED <<queue, delivered, stopped>>

Stop == /\ cancelled \/ queue = <<>>
        /\ stopped' = TRUE
        /\ UNCHANGED <<queue, delivered, cancelled>>

Next == \/ \E i \in Items : Accept(i)
        \/ \E k \in 1..Len(queue) : Reject(k) \/ Deliver(k)
        \/ Cancel
        \/ Stop

Spec == Init /\ [][Next]_svars
=============================================================================
