--------------------------- MODULE BatchProcessor ---------------------------
(***************************************************************************)
(* GenericBatchProcessor (internal/generics/batchprocessor): the bounded   *)
(* input channel, the goroutine that maps, batches and flushes, its ticker *)
(* and its context, the goroutines that Add and the one that calls Wait.   *)
(*                                                                         *)
(* The goroutine's select picks any ready case.  FlushFunc is a call over  *)
(* the network: other goroutines run between its call and its return.      *)
(* AfterFlush is nil in every processor the program builds.                *)
(***************************************************************************)
EXTENDS Integers, Sequences, SequencesExt

CONSTANTS Producers,        \* goroutines that call Add
          Items,            \* what they add, each at most once
          Mappable,         \* the items MapFunc converts without an error
          Size,             \* ItemSizer of the converted item
          ChannelCapacity,  \* 100 in the code
          MaxBatchSize,     \* 0: no limit
          MaxBatchBytes,    \* 0: no limit
          FlushInterval,    \* 0: no ticker
          None

ASSUME ConstantsAssumption ==
  /\ Mappable \subseteq Items
  /\ Size \in [Items -> Nat]
  /\ ChannelCapacity \in Nat \ {0}
  /\ MaxBatchSize \in Nat
  /\ MaxBatchBytes \in Nat
  /\ FlushInterval \in Nat
  /\ None \notin Items

VARIABLES
  in,            \* the channel's buffer
  closed,        \* Wait has closed the channel
  done,          \* ctx.Done() is closed
  tick,          \* the ticker's channel holds a tick
  adding,        \* adding[p]: the item p's Add is sending, or None
  pc,            \* where the goroutine is
  resume,        \* where it goes when FlushFunc returns
  item,          \* the converted item it holds, or None
  batch,
  currentBytes,
  \* history
  sent,          \* every item put on the channel, in order
  received,      \* every item taken from it
  mapped,        \* the received items MapFunc converted
  handed,        \* every item of a batch given to FlushFunc
  shipped,       \* the items of the batches FlushFunc accepted
  logged         \* the items an ERROR line was written for

inputVars == <<in, closed, adding, sent>>
loopVars  == <<pc, resume, item, batch, currentBytes>>
histVars  == <<received, mapped, handed, shipped, logged>>
vars == <<inputVars, done, tick, loopVars, histVars>>

Init ==
  /\ in = <<>> /\ closed = FALSE /\ done = FALSE /\ tick = FALSE
  /\ adding = [p \in Producers |-> None]
  /\ pc = "select" /\ resume = "select" /\ item = None
  /\ batch = <<>> /\ currentBytes = 0
  /\ sent = <<>> /\ received = <<>> /\ mapped = <<>> /\ handed = <<>>
  /\ shipped = {} /\ logged = {}

Offered == ToSet(sent) \cup {adding[p] : p \in Producers}

-----------------------------------------------------------------------------
(* The callers.                                                            *)

\* A caller never adds once it has called Wait: HandleEvent waits for the
\* job workers, the only senders, before it closes the channel.
AddCall(p, i) ==
  /\ ~closed /\ adding[p] = None /\ i \notin Offered
  /\ adding' = [adding EXCEPT ![p] = i]
  /\ UNCHANGED <<in, closed, sent, done, tick, loopVars, histVars>>

\* Mutant: a channel that does not block when it is full.
AddSendUnbounded(p) ==
  /\ adding[p] # None
  /\ in' = Append(in, adding[p])
  /\ sent' = Append(sent, adding[p])
  /\ adding' = [adding EXCEPT ![p] = None]
  /\ UNCHANGED <<closed, done, tick, loopVars, histVars>>

\* p.in <- item, which blocks while the buffer is full.
AddSend(p) ==
  /\ adding[p] # None
  /\ Len(in) < ChannelCapacity
  /\ in' = Append(in, adding[p])
  /\ sent' = Append(sent, adding[p])
  /\ adding' = [adding EXCEPT ![p] = None]
  /\ UNCHANGED <<closed, done, tick, loopVars, histVars>>

Wait ==
  /\ ~closed
  /\ \A p \in Producers : adding[p] = None
  /\ closed' = TRUE
  /\ UNCHANGED <<in, adding, sent, done, tick, loopVars, histVars>>

Cancel ==
  /\ ~done
  /\ done' = TRUE
  /\ UNCHANGED <<inputVars, tick, loopVars, histVars>>

\* The ticker's channel holds one tick; a tick that finds it full is lost.
\* The goroutine stops the ticker when it returns.
Tick ==
  /\ FlushInterval > 0 /\ ~tick /\ pc # "exited"
  /\ tick' = TRUE
  /\ UNCHANGED <<inputVars, done, loopVars, histVars>>

-----------------------------------------------------------------------------
(* The goroutine.                                                          *)

\* flush(): nothing to do for an empty batch, otherwise FlushFunc is called.
FlushThen(next) ==
  \/ /\ batch = <<>>
     /\ pc' = next
     /\ UNCHANGED <<resume, handed>>
  \/ /\ batch # <<>>
     /\ pc' = "flushing"
     /\ resume' = next
     /\ handed' = handed \o batch

\* Mutant: the batch survives a failed flush.
FlushReturnsKeepsFailed(ok) ==
  /\ pc = "flushing"
  /\ \/ /\ ok /\ ~done
        /\ shipped' = shipped \cup ToSet(batch)
        /\ batch' = <<>> /\ currentBytes' = 0
        /\ UNCHANGED logged
     \/ /\ ~ok
        /\ logged' = logged \cup ToSet(batch)
        /\ UNCHANGED <<shipped, batch, currentBytes>>
  /\ pc' = resume
  /\ UNCHANGED <<inputVars, done, tick, resume, item, received, mapped, handed>>

\* FlushFunc returns: an error is only logged, and the batch is reset either
\* way.  A request issued under a cancelled context fails; one that succeeds
\* while the context is being cancelled is ordered before the cancellation.
FlushReturns(ok) ==
  /\ pc = "flushing"
  /\ \/ /\ ok /\ ~done
        /\ shipped' = shipped \cup ToSet(batch)
        /\ UNCHANGED logged
     \/ /\ ~ok
        /\ logged' = logged \cup ToSet(batch)
        /\ UNCHANGED shipped
  /\ batch' = <<>>
  /\ currentBytes' = 0
  /\ pc' = resume
  /\ UNCHANGED <<inputVars, done, tick, resume, item, received, mapped, handed>>

\* Mutant: no final flush when the context is done.
SelectDoneNoFlush ==
  /\ pc = "select" /\ done
  /\ pc' = "exited"
  /\ UNCHANGED <<inputVars, done, tick, resume, item, batch, currentBytes, histVars>>

SelectDone ==
  /\ pc = "select" /\ done
  /\ FlushThen("exited")
  /\ UNCHANGED <<inputVars, done, tick, item, batch, currentBytes,
                 received, mapped, shipped, logged>>

\* Mutant: a closed channel ends the loop before it is drained.
SelectClosedEarly ==
  /\ pc = "select" /\ closed
  /\ FlushThen("exited")
  /\ UNCHANGED <<inputVars, done, tick, item, batch, currentBytes,
                 received, mapped, shipped, logged>>

\* Mutant: a closed channel is flushed for, but the loop goes on.
SelectClosedContinues ==
  /\ pc = "select" /\ closed /\ in = <<>>
  /\ FlushThen("select")
  /\ UNCHANGED <<inputVars, done, tick, item, batch, currentBytes,
                 received, mapped, shipped, logged>>

SelectClosed ==
  /\ pc = "select" /\ closed /\ in = <<>>
  /\ FlushThen("exited")
  /\ UNCHANGED <<inputVars, done, tick, item, batch, currentBytes,
                 received, mapped, shipped, logged>>

\* Mutant: the tick is taken, nothing is flushed.
SelectTickNoFlush ==
  /\ pc = "select" /\ tick
  /\ tick' = FALSE
  /\ UNCHANGED <<inputVars, done, loopVars, histVars>>

SelectTick ==
  /\ pc = "select" /\ tick
  /\ tick' = FALSE
  /\ FlushThen("select")
  /\ UNCHANGED <<inputVars, done, item, batch, currentBytes,
                 received, mapped, shipped, logged>>

\* The received item goes through MapFunc; an item that cannot be converted
\* is logged and the loop continues.
SelectItem ==
  /\ pc = "select" /\ in # <<>>
  /\ in' = Tail(in)
  /\ received' = Append(received, Head(in))
  /\ \/ /\ Head(in) \in Mappable
        /\ item' = Head(in)
        /\ mapped' = Append(mapped, Head(in))
        /\ pc' = "mapped"
        /\ UNCHANGED logged
     \/ /\ Head(in) \notin Mappable
        /\ logged' = logged \cup {Head(in)}
        /\ UNCHANGED <<item, mapped, pc>>
  /\ UNCHANGED <<closed, adding, sent, done, tick, resume, batch,
                 currentBytes, handed, shipped>>

OverflowsIgnoresItem == MaxBatchBytes > 0 /\ currentBytes >= MaxBatchBytes   \* mutant

\* 2) the byte limit is checked before the item joins the batch.
Overflows == MaxBatchBytes > 0 /\ currentBytes + Size[item] > MaxBatchBytes

PreAddCheck ==
  /\ pc = "mapped"
  /\ \/ /\ Overflows
        /\ FlushThen("accumulate")
     \/ /\ ~Overflows
        /\ pc' = "accumulate"
        /\ UNCHANGED <<resume, handed>>
  /\ UNCHANGED <<inputVars, done, tick, item, batch, currentBytes,
                 received, mapped, shipped, logged>>

\* 3) and 4): the item joins, and a full batch is flushed.
Full(b) == MaxBatchSize > 0 /\ Len(b) >= MaxBatchSize

Accumulate ==
  /\ pc = "accumulate"
  /\ batch' = Append(batch, item)
  /\ currentBytes' = currentBytes + Size[item]
  /\ item' = None
  /\ \/ /\ Full(batch')
        /\ pc' = "flushing"
        /\ resume' = "select"
        /\ handed' = handed \o batch'
     \/ /\ ~Full(batch')
        /\ pc' = "select"
        /\ UNCHANGED <<resume, handed>>
  /\ UNCHANGED <<inputVars, done, tick, received, mapped, shipped, logged>>

Loop == \/ SelectDone \/ SelectClosed \/ SelectTick \/ SelectItem
        \/ PreAddCheck \/ Accumulate
        \/ \E ok \in BOOLEAN : FlushReturns(ok)

Next == \/ \E p \in Producers : \/ \E i \in Items : AddCall(p, i)
                                \/ AddSend(p)
        \/ Wait \/ Cancel \/ Tick
        \/ Loop

Spec == Init /\ [][Next]_vars

\* The goroutine runs, FlushFunc returns, time passes.  Go's select picks
\* among the ready cases at random, so no case that is ready again and again
\* is passed over forever; a blocked sender is served when there is room.
Fairness ==
  /\ WF_vars(PreAddCheck) /\ WF_vars(Accumulate)
  /\ WF_vars(\E ok \in BOOLEAN : FlushReturns(ok))
  /\ SF_vars(SelectDone) /\ SF_vars(SelectClosed)
  /\ SF_vars(SelectTick) /\ SF_vars(SelectItem)
  /\ WF_vars(Tick)
  /\ \A p \in Producers : SF_vars(AddSend(p))

LiveSpec == Spec /\ Fairness

-----------------------------------------------------------------------------
(* Properties.                                                             *)

PCs == {"select", "mapped", "accumulate", "flushing", "exited"}

\* Types, and the size of the channel's buffer.
TypeOK ==
  /\ in \in Seq(Items) /\ Len(in) <= ChannelCapacity
  /\ closed \in BOOLEAN /\ done \in BOOLEAN /\ tick \in BOOLEAN
  /\ adding \in [Producers -> Items \cup {None}]
  /\ pc \in PCs /\ resume \in {"select", "accumulate", "exited"}
  /\ item \in Items \cup {None}
  /\ batch \in Seq(Items) /\ currentBytes \in Nat
  /\ sent \in Seq(Items) /\ received \in Seq(Items)
  /\ mapped \in Seq(Items) /\ handed \in Seq(Items)
  /\ shipped \subseteq Items /\ logged \subseteq Items

\* No batch given to FlushFunc is empty or has more than MaxBatchSize items,
\* and one of more than MaxBatchBytes bytes is a single item that is too large
\* by itself: the limits of a PutLogEvents call hold on every path to a flush.
FlushBounds ==
  pc = "flushing" =>
    /\ batch # <<>>
    /\ MaxBatchSize > 0 => Len(batch) <= MaxBatchSize
    /\ (MaxBatchBytes > 0 /\ Len(batch) > 1) => currentBytes <= MaxBatchBytes

\* The goroutine is on its way out, or gone.
Leaving == pc = "exited" \/ (pc = "flushing" /\ resume = "exited")

\* It has received an item that has not joined the batch yet.
HoldsItem == \/ pc \in {"mapped", "accumulate"}
             \/ (pc = "flushing" /\ resume = "accumulate")

\* What the loop relies on from one step to the next: the inductive part of
\* the properties above and below.
LoopShape ==
  /\ (item # None) <=> HoldsItem
  /\ pc = "flushing" => batch # <<>>
  /\ pc = "exited" => batch = <<>>

WithinLimits ==
  /\ MaxBatchSize > 0 =>
       /\ Len(batch) <= MaxBatchSize
       /\ pc # "flushing" => Len(batch) < MaxBatchSize
  /\ MaxBatchBytes > 0 =>
       /\ Len(batch) > 1 => currentBytes <= MaxBatchBytes
       /\ (pc = "accumulate" /\ batch # <<>>) =>
             currentBytes + Size[item] <= MaxBatchBytes

ExitReason ==
  /\ closed => \A p \in Producers : adding[p] = None
  /\ Leaving => done \/ (closed /\ in = <<>>)

LoopInv == LoopShape /\ WithinLimits /\ ExitReason

\* Converted items the goroutine holds and has not given to FlushFunc.
Held == (IF pc = "flushing" THEN <<>> ELSE batch)
        \o (IF item = None THEN <<>> ELSE <<item>>)

\* What was put on the channel was received or is still there, and what was
\* converted was handed to FlushFunc or is held: in order, nothing lost and
\* nothing twice, whichever flush path (bytes, count, tick, exit) was taken.
ChannelOrder == received \o in = sent
BatchOrder   == handed \o Held = mapped
InOrderOnce  == ChannelOrder /\ BatchOrder

\* A received item is shipped, or reported by an ERROR line, or still held:
\* never two of these.  When the goroutine has returned it holds nothing, and
\* unless the context was cancelled it has drained the channel, so Wait's
\* return means that everything added was shipped or reported.
Accounted ==
  /\ ToSet(received) = shipped \cup logged \cup ToSet(batch) \cup ({item} \ {None})
  /\ shipped \cap logged = {}
  /\ pc = "exited" => batch = <<>> /\ item = None /\ (done \/ in = <<>>)

\* The processor implements the stream a caller relies on.
Stream == INSTANCE BatchStream WITH
            queue <- Held \o in, delivered <- handed,
            cancelled <- done, stopped <- (pc = "exited")
StreamSpec == Stream!Spec

\* An item that Add was called with and that can be converted is handed to
\* FlushFunc without further input, unless cancelled: the goroutine goes on
\* receiving, so an Add that finds the channel full gets through, and the flush
\* interval bounds how long a batch that does not fill up waits.
AddedIsHanded ==
  \A i \in Mappable :
     (\E p \in Producers : adding[p] = i) \/ i \in ToSet(sent) ~> i \in ToSet(handed) \/ done

\* The loop ends once the channel is closed, whatever is still in it, so that
\* Wait returns; a cancelled one ends although ticks and input keep coming.
LoopEnds == closed \/ done ~> pc = "exited"
=============================================================================
