------------------------ MODULE BatchProcessor_proofs ------------------------
(***************************************************************************)
(* Theorems about BatchProcessor, for every number of producers, set of    *)
(* items, channel capacity and batch limit.                                *)
(***************************************************************************)
EXTENDS BatchProcessor, SequenceFacts, TLAPS

-----------------------------------------------------------------------------
(* Sequences of items: the library's facts, instantiated.                  *)

\* The empty sequence is a sequence of items.
LEMMA EmptyItems == <<>> \in Seq(Items) /\ Len(<<>>) = 0
  BY EmptySeq

\* Appending an item to a sequence of items: its type, length and elements.
LEMMA AppendItems ==
  ASSUME NEW s \in Seq(Items), NEW i \in Items
  PROVE  /\ Append(s, i) \in Seq(Items)
         /\ Len(Append(s, i)) = Len(s) + 1
         /\ Append(s, i) # <<>>
  BY AppendProperties

\* The concatenation of two sequences of items is one.
LEMMA ConcatItems ==
  ASSUME NEW s \in Seq(Items), NEW t \in Seq(Items)
  PROVE  s \o t \in Seq(Items)
  BY ConcatProperties

\* What receiving from a nonempty channel leaves, and what it takes.
LEMMA TailItems ==
  ASSUME NEW s \in Seq(Items), s # <<>>
  PROVE  /\ Head(s) \in Items
         /\ Tail(s) \in Seq(Items)
         /\ Len(Tail(s)) = Len(s) - 1
  BY HeadTailProperties

-----------------------------------------------------------------------------
(* The inductive invariant: TypeOK and LoopInv together.                   *)

Inv == TypeOK /\ LoopInv

\* The processor starts in the invariant: nothing held, nothing batched.
LEMMA InitInv == Init => Inv
<1> SUFFICES ASSUME Init PROVE Inv
  OBVIOUS
<1>1. TypeOK
  <2>1. adding \in [Producers -> Items \cup {None}] /\ item \in Items \cup {None}
    BY DEF Init
  <2>2. Len(in) <= ChannelCapacity
    BY EmptyItems, ConstantsAssumption DEF Init
  <2> QED
    BY <2>1, <2>2, EmptyItems DEF Init, TypeOK, PCs
<1>2. LoopInv
  BY EmptyItems, ConstantsAssumption DEF Init, LoopInv, LoopShape, WithinLimits, ExitReason, Leaving, HoldsItem
<1> QED BY <1>1, <1>2 DEF Inv

\* The call of Add keeps the invariant.
LEMMA AddCallInv ==
  ASSUME Inv, NEW p \in Producers, NEW i \in Items, AddCall(p, i)
  PROVE  Inv'
  BY ConstantsAssumption
  DEF Inv, TypeOK, LoopInv, LoopShape, WithinLimits, ExitReason, Leaving, HoldsItem, PCs, AddCall, loopVars, histVars

\* Add's send keeps the invariant, the capacity of the channel included.
LEMMA AddSendInv ==
  ASSUME Inv, NEW p \in Producers, AddSend(p)
  PROVE  Inv'
<1>1. adding[p] \in Items
  BY DEF Inv, TypeOK, AddSend
<1>2. /\ in' \in Seq(Items) /\ Len(in') <= ChannelCapacity
      /\ sent' \in Seq(Items)
  BY <1>1, AppendItems, ConstantsAssumption DEF Inv, TypeOK, AddSend
<1>3. ~closed
  BY DEF Inv, LoopInv, ExitReason, AddSend
<1>4. TypeOK'
  BY <1>2, ConstantsAssumption DEF Inv, TypeOK, PCs, AddSend, loopVars, histVars
<1>5. LoopShape' /\ WithinLimits'
  BY DEF Inv, LoopInv, LoopShape, WithinLimits, HoldsItem, AddSend, loopVars, histVars
<1>6. ExitReason'
  BY <1>3 DEF Inv, TypeOK, LoopInv, ExitReason, Leaving, AddSend, loopVars, histVars
<1> QED BY <1>4, <1>5, <1>6 DEF Inv, LoopInv

\* The callers, the context and the ticker keep the invariant.
LEMMA CallersInv ==
  ASSUME Inv, Wait \/ Cancel \/ Tick
  PROVE  Inv'
<1>1. TypeOK'
  BY DEF Inv, TypeOK, PCs, Wait, Cancel, Tick, inputVars, loopVars, histVars
<1>2. LoopInv'
  BY DEF Inv, TypeOK, LoopInv, LoopShape, WithinLimits, ExitReason, Leaving, HoldsItem, Wait, Cancel, Tick,
         inputVars, loopVars, histVars
<1> QED BY <1>1, <1>2 DEF Inv

\* A flush that returns, with or without an error, keeps the invariant.
LEMMA FlushReturnsInv ==
  ASSUME Inv, NEW ok \in BOOLEAN, FlushReturns(ok)
  PROVE  Inv'
<1>1. ToSet(batch) \subseteq Items
  BY DEF Inv, TypeOK, ToSet
<1>2. TypeOK'
  BY <1>1 DEF Inv, TypeOK, PCs, FlushReturns, inputVars
<1>3. LoopInv'
  BY ConstantsAssumption
  DEF Inv, TypeOK, LoopInv, LoopShape, WithinLimits, ExitReason, Leaving, HoldsItem, PCs, FlushReturns, inputVars
<1> QED BY <1>2, <1>3 DEF Inv

\* The two ways out of the loop keep the invariant.
LEMMA SelectExitInv ==
  ASSUME Inv, SelectDone \/ SelectClosed
  PROVE  Inv'
<1>1. handed' \in Seq(Items)
  BY ConcatItems
  DEF Inv, TypeOK, SelectDone, SelectClosed, FlushThen
<1>2. TypeOK'
  BY <1>1 DEF Inv, TypeOK, PCs, SelectDone, SelectClosed, FlushThen, inputVars
<1>3. LoopInv'
  <2>1. LoopShape'
    BY DEF Inv, TypeOK, LoopInv, LoopShape, HoldsItem, SelectDone, SelectClosed, FlushThen, inputVars
  <2>2. WithinLimits'
    BY ConstantsAssumption
    DEF Inv, TypeOK, LoopInv, LoopShape, WithinLimits, HoldsItem, SelectDone, SelectClosed, FlushThen, inputVars
  <2>3. ExitReason'
    BY DEF Inv, TypeOK, LoopInv, ExitReason, Leaving, SelectDone, SelectClosed, FlushThen, inputVars
  <2> QED BY <2>1, <2>2, <2>3 DEF LoopInv
<1> QED BY <1>2, <1>3 DEF Inv

\* A tick keeps the invariant.
LEMMA SelectTickInv ==
  ASSUME Inv, SelectTick
  PROVE  Inv'
<1>1. handed' \in Seq(Items)
  BY ConcatItems DEF Inv, TypeOK, SelectTick, FlushThen
<1>2. TypeOK'
  BY <1>1 DEF Inv, TypeOK, PCs, SelectTick, FlushThen, inputVars
<1>3. LoopInv'
  <2>1. LoopShape'
    BY DEF Inv, TypeOK, LoopInv, LoopShape, HoldsItem, SelectTick, FlushThen, inputVars
  <2>2. WithinLimits'
    BY ConstantsAssumption
    DEF Inv, TypeOK, LoopInv, LoopShape, WithinLimits, HoldsItem, SelectTick, FlushThen, inputVars
  <2>3. ExitReason'
    BY DEF Inv, TypeOK, LoopInv, ExitReason, Leaving, SelectTick, FlushThen, inputVars
  <2> QED BY <2>1, <2>2, <2>3 DEF LoopInv
<1> QED BY <1>2, <1>3 DEF Inv

\* Receiving and mapping an item keeps the invariant.
LEMMA SelectItemInv ==
  ASSUME Inv, SelectItem
  PROVE  Inv'
<1>1. Head(in) \in Items /\ Tail(in) \in Seq(Items) /\ Len(Tail(in)) = Len(in) - 1
  BY TailItems DEF Inv, TypeOK, SelectItem
<1>2. received' \in Seq(Items) /\ mapped' \in Seq(Items)
  BY <1>1, AppendItems DEF Inv, TypeOK, SelectItem
<1>3. TypeOK'
  BY <1>1, <1>2, ConstantsAssumption DEF Inv, TypeOK, PCs, SelectItem
<1>4. LoopInv'
  <2>1. LoopShape'
    <3>1. /\ pc = "select" /\ batch' = batch
          /\ \/ item' = Head(in) /\ pc' = "mapped"
             \/ item' = item /\ pc' = pc
      BY DEF SelectItem
    <3>2. Head(in) # None
      BY <1>1, ConstantsAssumption
    <3> QED BY <3>1, <3>2 DEF Inv, LoopInv, LoopShape, HoldsItem
  <2>2. WithinLimits'
    <3>1. UNCHANGED <<batch, currentBytes>> /\ pc = "select" /\ pc' \in {"mapped", "select"}
      BY DEF SelectItem
    <3> QED BY <3>1 DEF Inv, LoopInv, WithinLimits
  <2>3. ExitReason'
    BY <1>1 DEF Inv, TypeOK, LoopInv, ExitReason, Leaving, SelectItem
  <2> QED BY <2>1, <2>2, <2>3 DEF LoopInv
<1> QED BY <1>3, <1>4 DEF Inv

\* The byte check makes room for the item in hand.
LEMMA PreAddCheckInv ==
  ASSUME Inv, PreAddCheck
  PROVE  Inv'
<1>1. handed' \in Seq(Items)
  BY ConcatItems DEF Inv, TypeOK, PreAddCheck, FlushThen
<1>2. Size[item] \in Nat
  BY ConstantsAssumption DEF Inv, TypeOK, LoopInv, LoopShape, WithinLimits, ExitReason, Leaving, HoldsItem, PreAddCheck
<1>3. TypeOK'
  BY <1>1 DEF Inv, TypeOK, PCs, PreAddCheck, FlushThen, inputVars
<1>4. LoopInv'
  <2>1. LoopShape'
    BY DEF Inv, LoopInv, LoopShape, HoldsItem, PreAddCheck, FlushThen, inputVars
  <2>2. WithinLimits'
    <3>1. UNCHANGED <<batch, currentBytes, item>> /\ pc = "mapped"
      BY DEF PreAddCheck
    <3>2. /\ pc' \in {"accumulate", "flushing"}
          /\ (pc' = "accumulate" /\ batch # <<>>) => ~Overflows
      BY DEF PreAddCheck, FlushThen
    <3>3. MaxBatchBytes \in Nat /\ currentBytes \in Nat
      BY ConstantsAssumption DEF Inv, TypeOK
    <3> QED BY <1>2, <3>1, <3>2, <3>3 DEF Inv, LoopInv, WithinLimits, Overflows
  <2>3. ExitReason'
    BY DEF Inv, LoopInv, ExitReason, Leaving, PreAddCheck, FlushThen, inputVars
  <2> QED BY <2>1, <2>2, <2>3 DEF LoopInv
<1> QED BY <1>3, <1>4 DEF Inv

\* The item joins the batch within the limits, or the batch is flushed.
LEMMA AccumulateInv ==
  ASSUME Inv, Accumulate
  PROVE  Inv'
<1>1. item \in Items /\ Size[item] \in Nat
  BY ConstantsAssumption DEF Inv, TypeOK, LoopInv, LoopShape, WithinLimits, ExitReason, Leaving, HoldsItem, Accumulate
<1>2. batch' \in Seq(Items) /\ Len(batch') = Len(batch) + 1 /\ batch' # <<>>
  BY <1>1, AppendItems DEF Inv, TypeOK, Accumulate
<1>3. handed' \in Seq(Items)
  BY <1>2, ConcatItems DEF Inv, TypeOK, Accumulate
<1>4. TypeOK'
  <2>1. currentBytes' \in Nat
    BY <1>1 DEF Inv, TypeOK, Accumulate
  <2>2. item' = None /\ pc' \in {"flushing", "select"} /\ resume' \in {resume, "select"}
    BY DEF Accumulate
  <2> QED BY <1>2, <1>3, <2>1, <2>2 DEF Inv, TypeOK, PCs, Accumulate, inputVars
<1>5. LoopShape'
  BY <1>2 DEF LoopShape, HoldsItem, Accumulate
<1>6. WithinLimits'
  <2>1. Len(batch') > 1 => batch # <<>>
    BY <1>2, EmptyItems DEF Inv, TypeOK
  <2>2. /\ MaxBatchSize \in Nat /\ MaxBatchBytes \in Nat
        /\ currentBytes \in Nat /\ Len(batch) \in Nat
    BY ConstantsAssumption, LenProperties DEF Inv, TypeOK
  <2>3. /\ pc = "accumulate" /\ pc' \in {"flushing", "select"}
        /\ currentBytes' = currentBytes + Size[item]
        /\ MaxBatchSize > 0 => (pc' = "flushing" <=> Len(batch') >= MaxBatchSize)
    BY DEF Accumulate, Full
  <2>4. MaxBatchSize > 0 => /\ Len(batch') <= MaxBatchSize
                            /\ pc' # "flushing" => Len(batch') < MaxBatchSize
    BY <1>2, <2>2, <2>3 DEF Inv, LoopInv, WithinLimits
  <2>5. MaxBatchBytes > 0 /\ Len(batch') > 1 => currentBytes' <= MaxBatchBytes
    BY <2>1, <2>3 DEF Inv, LoopInv, WithinLimits
  <2> QED BY <2>3, <2>4, <2>5 DEF WithinLimits
<1>7. ExitReason'
  BY DEF Inv, LoopInv, ExitReason, Leaving, Accumulate, inputVars
<1> QED BY <1>4, <1>5, <1>6, <1>7 DEF Inv, LoopInv

\* Every step keeps the invariant.
LEMMA StepInv == Inv /\ [Next]_vars => Inv'
<1> SUFFICES ASSUME Inv, [Next]_vars PROVE Inv'
  OBVIOUS
<1>1. CASE Next
  BY <1>1, AddCallInv, AddSendInv, CallersInv, FlushReturnsInv, SelectExitInv,
     SelectTickInv, SelectItemInv, PreAddCheckInv, AccumulateInv DEF Next, Loop
<1>2. CASE UNCHANGED vars
  BY <1>2
  DEF Inv, TypeOK, LoopInv, LoopShape, WithinLimits, ExitReason, Leaving, HoldsItem, PCs, vars, inputVars, loopVars, histVars
<1> QED BY <1>1, <1>2

\* Every variable keeps its type and the channel its capacity.
THEOREM Typed == Spec => []TypeOK
<1>1. Inv => TypeOK
  BY DEF Inv
<1> QED BY InitInv, StepInv, <1>1, PTL DEF Spec

\* Every call of FlushFunc, on any path of the loop, is within the limits.
THEOREM FlushesAreBounded == Spec => []FlushBounds
<1>1. Inv => FlushBounds
  BY DEF Inv, LoopInv, LoopShape, WithinLimits, FlushBounds
<1> QED BY InitInv, StepInv, <1>1, PTL DEF Spec

-----------------------------------------------------------------------------
(* Order and exactly-once: the two concatenations of InOrderOnce.  Each    *)
(* step moves an element or a block across one \o, so the proof is the     *)
(* algebra of concatenation.                                               *)

\* The empty sequence is neutral.
LEMMA ConcatEmpty ==
  ASSUME NEW s \in Seq(Items)
  PROVE  s \o <<>> = s /\ <<>> \o s = s
  BY ConcatEmptySeq

\* Concatenation is associative.
LEMMA Associative ==
  ASSUME NEW s \in Seq(Items), NEW t \in Seq(Items), NEW u \in Seq(Items)
  PROVE  (s \o t) \o u = s \o (t \o u)
  BY ConcatAssociative

\* A sequence of one item.
LEMMA Singleton ==
  ASSUME NEW i \in Items
  PROVE  <<i>> \in Seq(Items)
  BY EmptyItems

\* Appending is concatenating a sequence of one.
LEMMA AppendAsConcat ==
  ASSUME NEW s \in Seq(Items), NEW i \in Items
  PROVE  Append(s, i) = s \o <<i>>
  BY AppendIsConcat

\* A nonempty sequence is its head followed by its tail.
LEMMA HeadTail ==
  ASSUME NEW s \in Seq(Items), s # <<>>
  PROVE  <<Head(s)>> \o Tail(s) = s
  BY HeadThenTail

\* The item in hand, as the tail of Held.
ItemInHand == IF item = None THEN <<>> ELSE <<item>>

\* The item in hand, as a sequence of at most one.
LEMMA ItemInHandType == Inv => ItemInHand \in Seq(Items)
  BY EmptyItems, Singleton DEF Inv, TypeOK, ItemInHand

\* Sends and receives keep the channel in order.
LEMMA ChannelOrderStep ==
  ASSUME Inv, ChannelOrder, [Next]_vars
  PROVE  ChannelOrder'
<1>1. ASSUME NEW p \in Producers, AddSend(p)
      PROVE  ChannelOrder'
  <2>1. adding[p] \in Items
    BY <1>1 DEF Inv, TypeOK, AddSend
  <2> DEFINE x == adding[p]
  <2>2. /\ Append(in, x) = in \o <<x>>
        /\ Append(sent, x) = sent \o <<x>>
    BY <2>1, AppendAsConcat DEF Inv, TypeOK
  <2>3. (received \o in) \o <<x>> = received \o (in \o <<x>>)
    <3> HIDE DEF x
    <3>1. received \in Seq(Items) /\ in \in Seq(Items) /\ <<x>> \in Seq(Items)
      BY <2>1, Singleton DEF Inv, TypeOK, x
    <3> QED BY <3>1, Associative
  <2>4. received' = received /\ in' = Append(in, x) /\ sent' = Append(sent, x)
    BY <1>1 DEF AddSend, histVars
  <2> QED
    BY <2>2, <2>3, <2>4 DEF ChannelOrder
<1>2. ASSUME SelectItem
      PROVE  ChannelOrder'
  <2>1. /\ in \in Seq(Items) /\ in # <<>> /\ received \in Seq(Items)
        /\ in' = Tail(in) /\ received' = Append(received, Head(in))
        /\ sent' = sent
    BY <1>2 DEF Inv, TypeOK, SelectItem
  <2>2. Head(in) \in Items /\ Tail(in) \in Seq(Items)
    BY <2>1, TailItems
  <2>3. Append(received, Head(in)) = received \o <<Head(in)>>
    BY <2>1, <2>2, AppendAsConcat
  <2>4. (received \o <<Head(in)>>) \o Tail(in) = received \o (<<Head(in)>> \o Tail(in))
    BY <2>1, <2>2, Singleton, Associative
  <2>5. <<Head(in)>> \o Tail(in) = in
    BY <2>1, HeadTail
  <2> QED
    BY <2>1, <2>3, <2>4, <2>5 DEF ChannelOrder
<1>3. ASSUME UNCHANGED <<in, sent, received>>
      PROVE  ChannelOrder'
  BY <1>3 DEF ChannelOrder
<1>4. CASE Next
  BY <1>1, <1>2, <1>3, <1>4
  DEF Next, Loop, AddCall, Wait, Cancel, Tick, SelectDone, SelectClosed,
      SelectTick, PreAddCheck, Accumulate, FlushReturns, inputVars, histVars
<1>5. CASE UNCHANGED vars
  BY <1>3, <1>5 DEF vars, inputVars, histVars
<1> QED BY <1>4, <1>5

\* A flush moves the whole batch from Held to handed.
LEMMA FlushThenOrder ==
  ASSUME Inv, BatchOrder, NEW next, next # "flushing", pc # "flushing",
         FlushThen(next), UNCHANGED <<item, batch, mapped>>
  PROVE  BatchOrder'
<1> DEFINE I == ItemInHand
<1>1. /\ I \in Seq(Items) /\ batch \in Seq(Items) /\ handed \in Seq(Items)
      /\ I' = I
  BY ItemInHandType DEF Inv, TypeOK, ItemInHand
<1>2. Held = batch \o I
  BY DEF Held, ItemInHand
<1>3. CASE batch = <<>>
  BY <1>1, <1>2, <1>3 DEF BatchOrder, Held, FlushThen
<1>4. CASE batch # <<>>
  <2>1. Held' = <<>> \o I /\ handed' = handed \o batch
    BY <1>1, <1>4 DEF Held, ItemInHand, FlushThen
  <2>2. <<>> \o I = I
    BY <1>1, ConcatEmpty
  <2>3. (handed \o batch) \o I = handed \o (batch \o I)
    BY <1>1, Associative
  <2> QED
    BY <1>2, <2>1, <2>2, <2>3 DEF BatchOrder
<1> QED BY <1>3, <1>4

\* A mapped item is held behind the batch; a rejected one changes nothing.
LEMMA SelectItemOrder ==
  ASSUME Inv, BatchOrder, SelectItem
  PROVE  BatchOrder'
<1> DEFINE x == Head(in)
<1>1. /\ x \in Items /\ batch \in Seq(Items) /\ handed \in Seq(Items)
      /\ mapped \in Seq(Items)
  BY TailItems DEF Inv, TypeOK, SelectItem
<1>2. CASE x \in Mappable
  <2>1. x # None
    BY <1>1, ConstantsAssumption
  <2>2. Held = batch
    BY <1>1, ConcatEmpty
    DEF Held, Inv, LoopInv, LoopShape, HoldsItem, SelectItem
  <2>3. Held' = batch \o <<x>> /\ handed' = handed /\ mapped' = Append(mapped, x)
    BY <1>2, <2>1 DEF Held, SelectItem
  <2>4. Append(mapped, x) = mapped \o <<x>>
    BY <1>1, AppendAsConcat
  <2>5. (handed \o batch) \o <<x>> = handed \o (batch \o <<x>>)
    BY <1>1, Singleton, Associative
  <2> QED
    BY <2>2, <2>3, <2>4, <2>5 DEF BatchOrder
<1>3. CASE x \notin Mappable
  BY <1>3 DEF SelectItem, BatchOrder, Held
<1> QED BY <1>2, <1>3

\* The item in hand becomes the last of the batch, handed over or not.
LEMMA AccumulateOrder ==
  ASSUME Inv, BatchOrder, Accumulate
  PROVE  BatchOrder'
<1>1. /\ item \in Items /\ item # None
      /\ batch \in Seq(Items) /\ handed \in Seq(Items)
  BY DEF Inv, TypeOK, LoopInv, LoopShape, HoldsItem, Accumulate
<1>2. batch' = Append(batch, item) /\ item' = None /\ mapped' = mapped
  BY DEF Accumulate
<1>3. Held = batch \o <<item>>
  BY <1>1 DEF Held, Accumulate
<1>4. batch' = Held /\ batch' \in Seq(Items)
  BY <1>1, <1>2, <1>3, AppendAsConcat, AppendItems
<1>5. CASE pc' = "flushing"
  <2>1. Held' = <<>> \o <<>> /\ handed' = handed \o batch'
    BY <1>2, <1>5 DEF Held, Accumulate
  <2>2. handed \o batch' \in Seq(Items)
    BY <1>1, <1>4, ConcatItems
  <2>3. <<>> \o <<>> = <<>> /\ (handed \o batch') \o <<>> = handed \o batch'
    BY <2>2, ConcatEmpty, EmptyItems
  <2> QED
    BY <1>2, <1>4, <2>1, <2>3 DEF BatchOrder
<1>6. CASE pc' # "flushing"
  <2>1. Held' = batch' \o <<>> /\ handed' = handed
    BY <1>2, <1>6 DEF Held, Accumulate
  <2>2. batch' \o <<>> = batch'
    BY <1>4, ConcatEmpty
  <2> QED
    BY <1>2, <1>4, <2>1, <2>2 DEF BatchOrder
<1> QED BY <1>5, <1>6

\* Emptying a batch that was handed over changes nothing of what is held.
LEMMA FlushReturnsOrder ==
  ASSUME Inv, BatchOrder, NEW ok \in BOOLEAN, FlushReturns(ok)
  PROVE  BatchOrder'
<1>1. /\ pc = "flushing" /\ pc' # "flushing" /\ batch' = <<>>
      /\ item' = item /\ handed' = handed /\ mapped' = mapped
  BY DEF Inv, TypeOK, FlushReturns
<1> QED
  BY <1>1 DEF BatchOrder, Held

\* Every step keeps the converted items in order.
LEMMA BatchOrderStep ==
  ASSUME Inv, BatchOrder, [Next]_vars
  PROVE  BatchOrder'
<1>1. CASE SelectDone \/ SelectClosed \/ SelectTick
  BY <1>1, FlushThenOrder DEF SelectDone, SelectClosed, SelectTick
<1>2. CASE PreAddCheck
  <2>1. CASE Overflows
    BY <1>2, <2>1, FlushThenOrder DEF PreAddCheck
  <2>2. CASE ~Overflows
    BY <1>2, <2>2 DEF PreAddCheck, BatchOrder, Held
  <2> QED BY <2>1, <2>2
<1>3. ASSUME UNCHANGED <<loopVars, histVars>>
      PROVE  BatchOrder'
  BY <1>3 DEF BatchOrder, Held, loopVars, histVars
<1>4. CASE Next
  BY <1>1, <1>2, <1>3, <1>4, SelectItemOrder, AccumulateOrder, FlushReturnsOrder
  DEF Next, Loop, AddCall, AddSend, Wait, Cancel, Tick
<1>5. CASE UNCHANGED vars
  BY <1>3, <1>5 DEF vars
<1> QED BY <1>4, <1>5

\* Whatever sequence of byte, count, tick and exit flushes the loop takes,
\* FlushFunc sees every converted item once and in the order it was added.
THEOREM InOrderExactlyOnce == Spec => []InOrderOnce
<1>1. Init => InOrderOnce
  BY EmptyItems, ConcatEmpty
  DEF Init, InOrderOnce, ChannelOrder, BatchOrder, Held
<1>2. Inv /\ InOrderOnce /\ [Next]_vars => InOrderOnce'
  BY ChannelOrderStep, BatchOrderStep DEF InOrderOnce
<1> QED BY InitInv, StepInv, <1>1, <1>2, PTL DEF Spec

-----------------------------------------------------------------------------
(* What becomes of an item: Accounted.  An item goes from its Add to the   *)
(* channel, to the goroutine and to FlushFunc's result and is never at two *)
(* of these places, since nothing is added twice.                          *)

\* What Add and the channel hold has not been received.
Fresh ==
  /\ Distinct(in)
  /\ ToSet(in) \cap ToSet(received) = {}
  /\ \A p \in Producers : adding[p] # None => adding[p] \notin ToSet(in) \cup ToSet(received)
  /\ \A p, q \in Producers : adding[p] = adding[q] => adding[p] = None \/ p = q

\* The items the goroutine holds.
InWork == ToSet(batch) \cup ({item} \ {None})

\* What was received is finished in one of two ways, or in work.
Books ==
  /\ ToSet(received) = shipped \cup logged \cup InWork
  /\ shipped \cap logged = {}
  /\ InWork \cap (shipped \cup logged) = {}
  /\ item # None => item \notin ToSet(batch)

AccountInv == Fresh /\ Books

\* The items that were sent are those received and those in the channel.
LEMMA SentElements ==
  ASSUME Inv, ChannelOrder
  PROVE  ToSet(sent) = ToSet(received) \cup ToSet(in)
<1>1. received \in Seq(Items) /\ in \in Seq(Items) /\ sent = received \o in
  BY DEF Inv, TypeOK, ChannelOrder
<1> QED BY <1>1, ElementsConcat

\* A call of Add brings an item that was nowhere yet.
LEMMA AddCallAccount ==
  ASSUME Inv, ChannelOrder, AccountInv, NEW p \in Producers, NEW i \in Items, AddCall(p, i)
  PROVE  AccountInv'
<1>1. i # None /\ i \notin ToSet(in) \cup ToSet(received) /\ \A q \in Producers : adding[q] # i
  BY SentElements, ConstantsAssumption DEF AddCall, Offered
<1>2. adding' = [adding EXCEPT ![p] = i] /\ adding \in [Producers -> Items \cup {None}]
  BY DEF AddCall, Inv, TypeOK
<1>3. UNCHANGED <<in, received, batch, item, shipped, logged>>
  BY DEF AddCall, loopVars, histVars
<1>4. Fresh'
  BY <1>1, <1>2, <1>3 DEF AccountInv, Fresh
<1>5. Books'
  BY <1>3 DEF AccountInv, Books, InWork
<1> QED BY <1>4, <1>5 DEF AccountInv

\* The send moves the item from its Add to the channel.
LEMMA AddSendAccount ==
  ASSUME Inv, AccountInv, NEW p \in Producers, AddSend(p)
  PROVE  AccountInv'
<1> DEFINE x == adding[p]
<1>1. /\ x \in Items /\ x # None /\ in \in Seq(Items)
      /\ adding \in [Producers -> Items \cup {None}]
      /\ in' = Append(in, x) /\ adding' = [adding EXCEPT ![p] = None]
      /\ UNCHANGED <<received, batch, item, shipped, logged>>
  BY DEF AddSend, Inv, TypeOK, loopVars, histVars
<1>2. x \notin ToSet(in) \cup ToSet(received)
  BY <1>1 DEF AccountInv, Fresh
<1>3. Distinct(in') /\ ToSet(in') = ToSet(in) \cup {x}
  BY <1>1, <1>2, DistinctAppend, ElementsAppend DEF AccountInv, Fresh
<1>4. \A q \in Producers : adding'[q] # None => q # p /\ adding'[q] = adding[q] /\ adding[q] # x
  BY <1>1 DEF AccountInv, Fresh
<1>5. Fresh'
  BY <1>1, <1>2, <1>3, <1>4 DEF AccountInv, Fresh
<1>6. Books'
  BY <1>1 DEF AccountInv, Books, InWork
<1> QED BY <1>5, <1>6 DEF AccountInv

\* A received item is in work, or logged because it does not map.
LEMMA SelectItemAccount ==
  ASSUME Inv, AccountInv, SelectItem
  PROVE  AccountInv'
<1> DEFINE x == Head(in)
<1>1. /\ in \in Seq(Items) /\ in # <<>> /\ received \in Seq(Items)
      /\ in' = Tail(in) /\ received' = Append(received, x)
      /\ UNCHANGED <<adding, batch, shipped>>
  BY DEF SelectItem, Inv, TypeOK
<1>2. /\ x \in Items /\ x # None
      /\ ToSet(in) = {x} \cup ToSet(in')
      /\ Distinct(in') /\ x \notin ToSet(in')
  BY <1>1, TailItems, ElementsHeadTail, DistinctTail, ConstantsAssumption DEF AccountInv, Fresh
<1>3. ToSet(received') = ToSet(received) \cup {x} /\ x \notin ToSet(received)
  BY <1>1, <1>2, ElementsAppend DEF AccountInv, Fresh
<1>4. item = None
  BY DEF SelectItem, Inv, LoopInv, LoopShape, HoldsItem
<1>5. Fresh'
  BY <1>1, <1>2, <1>3 DEF AccountInv, Fresh
<1>6. Books'
  <2>1. CASE item' = x /\ logged' = logged
    BY <1>1, <1>2, <1>3, <1>4, <2>1 DEF AccountInv, Books, InWork
  <2>2. CASE item' = item /\ logged' = logged \cup {x}
    BY <1>1, <1>2, <1>3, <1>4, <2>2 DEF AccountInv, Books, InWork
  <2> QED BY <2>1, <2>2 DEF SelectItem
<1> QED BY <1>5, <1>6 DEF AccountInv

\* The item in hand joins the batch: the same items are in work.
LEMMA AccumulateAccount ==
  ASSUME Inv, AccountInv, Accumulate
  PROVE  AccountInv'
<1>1. /\ item \in Items /\ item # None /\ batch \in Seq(Items)
      /\ batch' = Append(batch, item) /\ item' = None
      /\ UNCHANGED <<in, adding, received, shipped, logged>>
  BY DEF Accumulate, Inv, TypeOK, LoopInv, LoopShape, HoldsItem, inputVars
<1>2. InWork' = InWork
  BY <1>1, ElementsAppend DEF InWork
<1> QED BY <1>1, <1>2 DEF AccountInv, Fresh, Books

\* A flush ends for its whole batch in the same way.
LEMMA FlushReturnsAccount ==
  ASSUME Inv, AccountInv, NEW ok \in BOOLEAN, FlushReturns(ok)
  PROVE  AccountInv'
<1>1. /\ batch' = <<>> /\ UNCHANGED <<in, adding, received, item>>
      /\ \/ shipped' = shipped \cup ToSet(batch) /\ logged' = logged
         \/ logged' = logged \cup ToSet(batch) /\ shipped' = shipped
  BY DEF FlushReturns, inputVars
<1>2. InWork' = {item} \ {None}
  BY <1>1, EmptyItems, ElementsEmpty DEF InWork
<1>3. item # None => item \notin ToSet(batch)
  BY DEF AccountInv, Books
<1>4. Books'
  <2>1. ToSet(batch') = {}
    BY <1>1, EmptyItems, ElementsEmpty
  <2> QED BY <1>1, <1>2, <1>3, <2>1 DEF AccountInv, Books, InWork
<1> QED BY <1>1, <1>4 DEF AccountInv, Fresh

\* Every step keeps the accounts.
LEMMA AccountStep ==
  ASSUME Inv, ChannelOrder, AccountInv, [Next]_vars
  PROVE  AccountInv'
<1>1. ASSUME UNCHANGED <<in, adding, received, batch, item, shipped, logged>>
      PROVE  AccountInv'
  BY <1>1 DEF AccountInv, Fresh, Books, InWork
<1>2. CASE Wait \/ Cancel \/ Tick \/ SelectDone \/ SelectClosed \/ SelectTick \/ PreAddCheck
  BY <1>1, <1>2
  DEF Wait, Cancel, Tick, SelectDone, SelectClosed, SelectTick, PreAddCheck, inputVars, loopVars, histVars
<1>3. CASE Next
  BY <1>2, <1>3, AddCallAccount, AddSendAccount, SelectItemAccount, AccumulateAccount, FlushReturnsAccount
  DEF Next, Loop
<1>4. CASE UNCHANGED vars
  BY <1>1, <1>4 DEF vars, inputVars, loopVars, histVars
<1> QED BY <1>3, <1>4

\* An item that was received is shipped, or reported, or still held, and never
\* two of these; Wait's return leaves nothing held.
THEOREM NothingUnaccounted == Spec => []Accounted
<1>1. Init => InOrderOnce /\ AccountInv
  <2> SUFFICES ASSUME Init PROVE InOrderOnce /\ AccountInv
    OBVIOUS
  <2>1. InOrderOnce
    BY EmptyItems, ConcatEmpty DEF Init, InOrderOnce, ChannelOrder, BatchOrder, Held
  <2>2. ToSet(<<>>) = {}
    BY EmptyItems, ElementsEmpty
  <2>3. Distinct(<<>>)
    BY EmptyItems DEF Distinct
  <2>4. AccountInv
    BY <2>2, <2>3 DEF Init, AccountInv, Fresh, Books, InWork
  <2> QED BY <2>1, <2>4
<1>2. Inv /\ InOrderOnce /\ AccountInv /\ [Next]_vars => InOrderOnce' /\ AccountInv'
  BY ChannelOrderStep, BatchOrderStep, AccountStep DEF InOrderOnce
<1>3. Inv /\ AccountInv => Accounted
  BY DEF Inv, LoopInv, LoopShape, HoldsItem, ExitReason, Leaving, AccountInv, Books, InWork, Accounted
<1> QED BY InitInv, StepInv, <1>1, <1>2, <1>3, PTL DEF Spec

-----------------------------------------------------------------------------
(* BatchProcessor implements BatchStream.  The queue of the abstract       *)
(* stream is what the goroutine holds followed by what is in the channel.  *)

Queue == Held \o in

\* What the steps below use of the invariants.
LEMMA QueueParts ==
  ASSUME Inv
  PROVE  /\ in \in Seq(Items) /\ batch \in Seq(Items) /\ handed \in Seq(Items)
         /\ ItemInHand \in Seq(Items)
         /\ Held = (IF pc = "flushing" THEN <<>> ELSE batch) \o ItemInHand
         /\ Held \in Seq(Items) /\ Queue \in Seq(Items)
<1>1. in \in Seq(Items) /\ batch \in Seq(Items) /\ handed \in Seq(Items)
  BY DEF Inv, TypeOK
<1>2. ItemInHand \in Seq(Items)
  BY ItemInHandType
<1>3. Held = (IF pc = "flushing" THEN <<>> ELSE batch) \o ItemInHand
  BY DEF Held, ItemInHand
<1>4. Held \in Seq(Items)
  BY <1>1, <1>2, <1>3, ConcatItems, EmptyItems
<1> QED BY <1>1, <1>2, <1>3, <1>4, ConcatItems DEF Queue

\* Handing over the first n waiting items is the stream's delivery.
LEMMA DeliverPrefix ==
  ASSUME NEW b \in Seq(Items), b # <<>>, NEW rest \in Seq(Items),
         Queue = b \o rest, Queue' = rest, handed' = handed \o b,
         pc # "exited", pc' # "exited", done' = done,
         MaxBatchSize > 0 => Len(b) <= MaxBatchSize
  PROVE  Stream!Next
<1>1. Len(b) \in Nat /\ Len(b) > 0 /\ Len(rest) \in Nat /\ Len(b \o rest) = Len(b) + Len(rest)
  BY ConcatProperties, LenProperties, EmptySeq
<1>2. Len(b) \in 1..Len(Queue)
  BY <1>1
<1>3. handed' = handed \o SubSeq(Queue, 1, Len(b)) /\ Queue' = SubSeq(Queue, Len(b) + 1, Len(Queue))
  BY SplitConcat
<1>4. Stream!Deliver(Len(b))
  BY <1>3 DEF Stream!Deliver, Queue
<1> QED BY <1>2, <1>4 DEF Stream!Next, Queue

\* flush() on the way to a point that is not the exit: a delivery, or nothing.
LEMMA FlushThenStream ==
  ASSUME Inv, NEW next, next \notin {"flushing", "exited"}, pc \notin {"flushing", "exited"},
         FlushThen(next), UNCHANGED <<in, item, batch, done>>
  PROVE  Stream!Next \/ UNCHANGED Stream!svars
<1>1. CASE batch = <<>>
  BY <1>1 DEF FlushThen, Held, Stream!svars
<1>2. CASE batch # <<>>
  <2>1. Held' = <<>> \o ItemInHand /\ handed' = handed \o batch /\ pc' = "flushing"
    BY <1>2 DEF FlushThen, Held, ItemInHand
  <2>2. Queue' = ItemInHand \o in
    BY <2>1, QueueParts, ConcatEmpty DEF Queue
  <2>3. Queue = batch \o (ItemInHand \o in)
    <3>1. Held = batch \o ItemInHand
      BY QueueParts
    <3>2. batch \in Seq(Items) /\ ItemInHand \in Seq(Items) /\ in \in Seq(Items)
      BY QueueParts
    <3>3. (batch \o ItemInHand) \o in = batch \o (ItemInHand \o in)
      BY <3>2, Associative
    <3> QED BY <3>1, <3>3 DEF Queue
  <2>4. ItemInHand \o in \in Seq(Items)
    BY QueueParts, ConcatItems
  <2>5. MaxBatchSize > 0 => Len(batch) <= MaxBatchSize
    BY DEF Inv, LoopInv, WithinLimits
  <2> QED
    BY <1>2, <2>1, <2>2, <2>3, <2>4, <2>5, QueueParts, DeliverPrefix
<1> QED BY <1>1, <1>2

\* A closed and drained channel or a done context: the last delivery, or the stop.
LEMMA SelectExitStream ==
  ASSUME Inv, SelectDone \/ SelectClosed
  PROVE  Stream!Next \/ UNCHANGED Stream!svars
<1>1. /\ pc = "select" /\ FlushThen("exited") /\ UNCHANGED <<in, item, batch, done>>
      /\ done \/ in = <<>>
      /\ item = None
  BY DEF SelectDone, SelectClosed, inputVars, Inv, LoopInv, LoopShape, HoldsItem
<1>2. Held = batch
  BY <1>1, QueueParts, ConcatEmpty DEF Held
<1>3. CASE batch = <<>>
  <2>1. Queue' = Queue /\ handed' = handed /\ pc' = "exited" /\ Queue = in
    BY <1>1, <1>2, <1>3, QueueParts, ConcatEmpty DEF FlushThen, Held, Queue
  <2>2. Stream!Stop
    BY <1>1, <2>1 DEF Stream!Stop, Queue
  <2> QED BY <2>2 DEF Stream!Next
<1>4. CASE batch # <<>>
  <2>1. handed' = handed \o batch /\ pc' = "flushing"
    BY <1>1, <1>4 DEF FlushThen
  <2>2. Held' = <<>> \o <<>>
    BY <1>1, <2>1 DEF Held
  <2>3. Queue' = in
    BY <1>1, <2>2, QueueParts, EmptyItems, ConcatEmpty DEF Queue
  <2>4. Queue = batch \o in
    BY <1>2 DEF Queue
  <2>5. MaxBatchSize > 0 => Len(batch) <= MaxBatchSize
    BY DEF Inv, LoopInv, WithinLimits
  <2> QED
    BY <1>1, <1>4, <2>1, <2>3, <2>4, <2>5, QueueParts, DeliverPrefix
<1> QED BY <1>3, <1>4

\* The stream's removal is the library's.
LEMMA StreamRemoveAt ==
  ASSUME NEW q, NEW k
  PROVE  Stream!RemoveAt(q, k) = RemoveAt(q, k)
  BY DEF Stream!RemoveAt, RemoveAt

\* An item that maps stays in the queue, one that does not leaves it.
LEMMA SelectItemStream ==
  ASSUME Inv, SelectItem
  PROVE  Stream!Next \/ UNCHANGED Stream!svars
<1> DEFINE x == Head(in)
<1>1. /\ pc = "select" /\ in # <<>> /\ in' = Tail(in) /\ item = None
      /\ UNCHANGED <<done, batch, handed>>
  BY DEF SelectItem, Inv, LoopInv, LoopShape, HoldsItem
<1>2. x \in Items /\ x # None /\ Tail(in) \in Seq(Items) /\ in = <<x>> \o Tail(in)
  BY <1>1, QueueParts, HeadThenTail, ConstantsAssumption
<1>3. Held = batch
  BY <1>1, QueueParts, ConcatEmpty DEF Held
<1>4. CASE x \in Mappable
  <2>1. Held' = batch \o <<x>> /\ pc' = "mapped"
    BY <1>1, <1>2, <1>4 DEF SelectItem, Held
  <2>2. (batch \o <<x>>) \o Tail(in) = batch \o (<<x>> \o Tail(in))
    <3>1. batch \in Seq(Items) /\ <<x>> \in Seq(Items) /\ Tail(in) \in Seq(Items)
      BY <1>2, QueueParts, Singleton
    <3> QED BY <3>1, Associative
  <2>3. Queue' = Queue
    BY <1>1, <1>2, <1>3, <2>1, <2>2 DEF Queue
  <2> QED BY <1>1, <2>1, <2>3 DEF Stream!svars, Queue
<1>5. CASE x \notin Mappable
  <2>1. Held' = Held /\ pc' = pc
    BY <1>1, <1>5 DEF SelectItem, Held
  <2>2. Queue = batch \o (<<x>> \o Tail(in)) /\ Queue' = batch \o Tail(in)
    BY <1>1, <1>2, <1>3, <2>1 DEF Queue
  <2>3. Queue' = RemoveAt(Queue, Len(batch) + 1) /\ Len(batch) + 1 \in 1..Len(Queue)
    <3> HIDE DEF x
    <3>1. batch \in Seq(Items) /\ x \in Items /\ Tail(in) \in Seq(Items)
      BY <1>2, QueueParts
    <3>2. /\ RemoveAt(batch \o (<<x>> \o Tail(in)), Len(batch) + 1) = batch \o Tail(in)
          /\ Len(batch) + 1 \in 1..Len(batch \o (<<x>> \o Tail(in)))
      BY <3>1, RemoveBehind
    <3> QED BY <2>2, <3>2
  <2>4. Stream!Reject(Len(batch) + 1)
    BY <1>1, <2>1, <2>3, StreamRemoveAt DEF Stream!Reject, Queue
  <2> QED BY <2>3, <2>4 DEF Stream!Next, Queue
<1> QED BY <1>4, <1>5

\* The item in hand joins the batch in place; a full batch is delivered.
LEMMA AccumulateStream ==
  ASSUME Inv, Inv', Accumulate
  PROVE  Stream!Next \/ UNCHANGED Stream!svars
<1>1. /\ pc = "accumulate" /\ item \in Items /\ item # None
      /\ batch' = Append(batch, item) /\ item' = None
      /\ UNCHANGED <<in, done>>
  BY DEF Accumulate, Inv, TypeOK, LoopInv, LoopShape, HoldsItem, inputVars
<1>2. Held = batch' /\ batch' \in Seq(Items) /\ batch' # <<>>
  BY <1>1, QueueParts, AppendAsConcat, AppendItems DEF Held
<1>3. CASE pc' = "flushing"
  <2>1. handed' = handed \o batch' /\ Held' = <<>> \o <<>>
    BY <1>1, <1>3 DEF Accumulate, Held
  <2>2. Queue' = in
    BY <1>1, <2>1, QueueParts, EmptyItems, ConcatEmpty DEF Queue
  <2>3. Queue = batch' \o in
    BY <1>2 DEF Queue
  <2>4. MaxBatchSize > 0 => Len(batch') <= MaxBatchSize
    BY DEF Inv, LoopInv, WithinLimits
  <2> QED
    BY <1>1, <1>2, <1>3, <2>1, <2>2, <2>3, <2>4, QueueParts, DeliverPrefix
<1>4. CASE pc' # "flushing"
  <2>1. handed' = handed /\ pc' = "select" /\ Held' = batch' \o <<>>
    BY <1>1, <1>4 DEF Accumulate, Held
  <2>2. Queue' = Queue
    BY <1>1, <1>2, <2>1, ConcatEmpty DEF Queue
  <2> QED BY <1>1, <2>1, <2>2 DEF Stream!svars, Queue
<1> QED BY <1>3, <1>4

\* The return of a flush is invisible, or the stop after the last one.
LEMMA FlushReturnsStream ==
  ASSUME Inv, Inv', NEW ok \in BOOLEAN, FlushReturns(ok)
  PROVE  Stream!Next \/ UNCHANGED Stream!svars
<1>1. /\ pc = "flushing" /\ pc' = resume /\ resume # "flushing" /\ batch' = <<>>
      /\ UNCHANGED <<in, item, done, handed>>
  BY DEF FlushReturns, inputVars, Inv, TypeOK
<1>2. Held' = Held
  BY <1>1 DEF Held
<1>3. CASE resume # "exited"
  BY <1>1, <1>2, <1>3 DEF Stream!svars
<1>4. CASE resume = "exited"
  <2>1. item = None /\ (done \/ in = <<>>)
    BY <1>1, <1>4 DEF Inv, LoopInv, LoopShape, HoldsItem, ExitReason, Leaving
  <2>2. Queue = in
    BY <1>1, <2>1, QueueParts, EmptyItems, ConcatEmpty DEF Held, Queue
  <2>3. Stream!Stop
    BY <1>1, <1>2, <1>4, <2>1, <2>2 DEF Stream!Stop, Queue
  <2> QED BY <2>3 DEF Stream!Next
<1> QED BY <1>3, <1>4

\* A send is an acceptance: it is possible after the stop only if cancelled.
LEMMA AddSendStream ==
  ASSUME Inv, NEW p \in Producers, AddSend(p)
  PROVE  Stream!Next
<1> DEFINE x == adding[p]
<1>1. /\ x \in Items /\ in' = Append(in, x) /\ ~closed
      /\ UNCHANGED <<done, pc, item, batch, handed>>
  BY DEF AddSend, Inv, TypeOK, LoopInv, ExitReason, loopVars, histVars
<1>2. Held' = Held
  BY <1>1 DEF Held
<1>3. /\ Append(in, x) = in \o <<x>> /\ Append(Queue, x) = Queue \o <<x>>
      /\ (Held \o in) \o <<x>> = Held \o (in \o <<x>>)
  <2> HIDE DEF x
  <2>1. Held \in Seq(Items) /\ in \in Seq(Items) /\ Queue \in Seq(Items) /\ x \in Items
    BY <1>1, QueueParts
  <2>2. <<x>> \in Seq(Items)
    BY <2>1, Singleton
  <2>3. (Held \o in) \o <<x>> = Held \o (in \o <<x>>)
    BY <2>1, <2>2, Associative
  <2> QED BY <2>1, <2>3, AppendAsConcat
<1>4. Queue' = Append(Queue, x)
  BY <1>1, <1>2, <1>3 DEF Queue
<1>5. pc = "exited" => done
  BY <1>1 DEF Inv, LoopInv, ExitReason, Leaving
<1>6. Stream!Accept(x)
  BY <1>1, <1>4, <1>5 DEF Stream!Accept, Queue
<1> QED BY <1>1, <1>6 DEF Stream!Next

\* Every step of the processor is a step of the stream, or leaves it alone.
LEMMA StreamStep ==
  ASSUME Inv, [Next]_vars
  PROVE  Stream!Next \/ UNCHANGED Stream!svars
<1>1. Inv'
  BY StepInv
<1>2. CASE SelectTick
  BY <1>2, FlushThenStream DEF SelectTick, inputVars
<1>3. CASE PreAddCheck
  <2>1. CASE Overflows
    BY <1>3, <2>1, FlushThenStream DEF PreAddCheck, inputVars
  <2>2. CASE ~Overflows
    BY <1>3, <2>2 DEF PreAddCheck, inputVars, Held, Stream!svars
  <2> QED BY <2>1, <2>2
<1>4. ASSUME UNCHANGED <<in, loopVars, histVars, done>>
      PROVE  UNCHANGED Stream!svars
  BY <1>4 DEF Stream!svars, Held, loopVars, histVars
<1>5. CASE Cancel
  <2>1. Stream!Cancel
    BY <1>5 DEF Cancel, Stream!Cancel, Held, inputVars, loopVars, histVars
  <2> QED BY <2>1 DEF Stream!Next
<1>6. CASE Next
  BY <1>1, <1>2, <1>3, <1>4, <1>5, <1>6, AddSendStream, SelectExitStream,
     SelectItemStream, AccumulateStream, FlushReturnsStream
  DEF Next, Loop, AddCall, Wait, Tick, inputVars
<1>7. CASE UNCHANGED vars
  BY <1>4, <1>7 DEF vars, inputVars
<1> QED BY <1>6, <1>7

\* The processor is a stream: an accepted item is handed over once and in
\* order or rejected, a delivery is nonempty and within the count limit, and
\* the processor stops with items left only when it is cancelled.
THEOREM ImplementsStream == Spec => StreamSpec
<1>1. Init => Stream!Init
  BY EmptyItems, ConcatEmpty DEF Init, Stream!Init, Held
<1>2. Inv /\ [Next]_vars => [Stream!Next]_(Stream!svars)
  BY StreamStep
<1> QED BY InitInv, StepInv, <1>1, <1>2, PTL DEF Spec, StreamSpec, Stream!Spec
=============================================================================
