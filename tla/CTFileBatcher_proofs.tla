------------------------- MODULE CTFileBatcher_proofs -------------------------
(***************************************************************************)
(* Theorems about CTFileBatcher, for every set of events and regions, every *)
(* record size and limit, all that an earlier process may have left, every *)
(* choice of the operations that fail, with and without Stop and           *)
(* cancellation.                                                           *)
(***************************************************************************)
EXTENDS CTFileBatcher, SequenceFacts, TLAPS

-----------------------------------------------------------------------------
(* The inductive invariant.                                                *)

\* What a line may be.
Line == Events \cup {Torn}

\* The steps that are neither Add's nor a flush's.
Control == \/ Tick \/ TickFlush \/ TickFlushed \/ TickerExit
           \/ StopCall \/ StopReturns \/ ParentCancel

\* The adding goroutine is in flushRegion only where Add calls it.
HandlerPlace == fpc[Handler] # "idle" => apc \in {"preflush", "postflush"}

\* Only a file that exists has lines or was counted.
FileThere ==
  /\ \A r \in Regions \ exists : file[r] = <<>>
  /\ apc \in {"newline", "count", "postflush"} => RegionOf[event] \in exists

\* The event that Add has not come to write.
Unwritten == IF apc \in {"preflush", "write"} THEN {event} ELSE {}

\* The events in files are those that were added and written.
Fresh == /\ \A r \in Regions : Records(file[r]) \subseteq added \ Unwritten
         /\ beforeStop \subseteq added \ Unwritten
         /\ event \in added \cup {None}

\* What a flush is going to truncate it has read, or a failed scan has left it
\* unread, or it was appended since.
Seen ==
  \A t \in Threads : fpc[t] \in {"sending", "truncate"} =>
    Records(file[Target(t)]) \subseteq scanned \cup unread \cup windowed

\* What has become of e.
Kept(e) ==
  \/ e \in ToSet(file[RegionOf[e]]) \cup scanned
  \/ e \in logged
  \/ e \in unwritten
  \/ e \in glued
  \/ e \in windowed
  \/ e \in unread

\* Every event is kept from the step that writes it.
AllKept == \A e \in added : Kept(e) \/ e \in Unwritten

\* The lines of a region without a counter are an earlier process's, or that of
\* the Add in progress.
Uncounted ==
  \A e \in Events : e \in ToSet(file[RegionOf[e]]) /\ RegionOf[e] \notin known =>
    e \in leftover \/ (e = event /\ apc \in {"newline", "count"})

\* Stop's goroutines run between its call and its return.
StopWorks == stop # "flushing" => \A t \in StopFlush : fpc[t] = "idle"

\* What was in the files when Stop began is out of them, or in a file Stop's
\* goroutine has still to truncate, or it is one of the exceptions.
Owed(e) ==
  LET r == RegionOf[e] IN
    \/ e \notin ToSet(file[r])
    \/ fpc[<<"stop", r>>] \in {"open", "sending", "truncate"}
    \/ r \in spared
    \/ r \notin snapshot /\ e \in leftover \cup adding

StopOwes == ~cancelled => \A e \in beforeStop : Owed(e)

\* The handler flushes r because its counters reached a threshold.
PostFlushing(r) == apc = "postflush" /\ RegionOf[event] = r /\ fpc[Handler] # "idle"
BeforeTruncation(r) == PostFlushing(r) /\ fpc[Handler] \in {"open", "sending", "truncate"}

\* A line that is in r's file and not counted yet.
Pending(r) == IF apc \in {"newline", "count"} /\ RegionOf[event] = r THEN 1 ELSE 0

\* The lines a goroutine that has truncated the file may still make the
\* counters forget, and the lines all the goroutines together may.
Forgets(t) == IF fpc[t] = "reset" THEN maxCount - 1 ELSE 0
MayForget(r) == Forgets(<<"ticker", r>>) + Forgets(<<"stop", r>>)
Forgettable == IF Stops THEN (maxCount - 1) + (maxCount - 1) ELSE maxCount - 1

\* The count is under the limit except while the flush it causes is at work.
CountLow(r) == IF PostFlushing(r) THEN counts[r] <= maxCount ELSE counts[r] < maxCount

\* The file has no more lines than the counter says and base.
Fits(r, base) ==
  Len(file[r]) + MayForget(r)
    <= base + (IF BeforeTruncation(r) THEN maxCount ELSE counts[r] + Pending(r))

\* No goroutine has truncated r's file and not reset its counters.
Untouched(r) == \A t \in Threads : fpc[t] = "reset" => Target(t) # r

\* The uncounted lines are what resets have forgotten, or what an earlier
\* process left and nothing more.
FileFits(r) == \/ Fits(r, Forgettable)
               \/ Untouched(r) /\ Fits(r, Len(Left[r]))

\* While the handler resets the counters it appends nothing.
ResetEmpty == fpc[Handler] = "reset" =>
                RegionOf[event] \in faulty \/ file[RegionOf[event]] = <<>>

Slack == (maxCount > 0 /\ ~done) =>
           \A r \in Regions \ faulty : CountLow(r) /\ FileFits(r)

NeverStopped == ~Stops => stop = "no"

FInv == /\ TypeOK /\ HandlerPlace /\ FileThere /\ Fresh /\ Seen /\ AllKept /\ Uncounted
        /\ StopWorks /\ StopOwes /\ ResetEmpty /\ NeverStopped /\ Slack /\ BatchSlack

-----------------------------------------------------------------------------
(* Goroutines, lines.                                                      *)

\* Which goroutines there are, and what each flushes.
LEMMA Goroutines ==
  /\ Handler \in Threads /\ Handler \notin TickerFlush \cup StopFlush
  /\ \A t \in Threads \ {Handler} :
       \E r \in Regions : (t = <<"ticker", r>> \/ t = <<"stop", r>>) /\ Target(t) = r /\ t[2] = r
  /\ \A r \in Regions :
       /\ <<"ticker", r>> \in Threads \ {Handler} /\ <<"stop", r>> \in Threads \ {Handler}
       /\ <<"ticker", r>> \in TickerFlush \ StopFlush /\ <<"stop", r>> \in StopFlush \ TickerFlush
       /\ Target(<<"ticker", r>>) = r /\ Target(<<"stop", r>>) = r
  BY DEF Threads, Handler, TickerFlush, StopFlush, Target

\* The two goroutines of a region besides the handler.
LEMMA RegionGoroutines ==
  ASSUME NEW r \in Regions
  PROVE  {<<"ticker", r>>, <<"stop", r>>} \subseteq Threads \ {Handler}
  BY Goroutines

\* A goroutine at work is at work on a region.
LEMMA TargetRegion ==
  ASSUME TypeOK, HandlerPlace, NEW t \in Threads, fpc[t] # "idle"
  PROVE  Target(t) \in Regions
<1>1. CASE t = Handler
  <2>1. event \in Events
    BY <1>1 DEF TypeOK, HandlerPlace
  <2> QED BY <1>1, <2>1, FileBatcherAssumption DEF Target
<1>2. CASE t # Handler
  BY <1>2, Goroutines
<1> QED BY <1>1, <1>2

\* Only the handler's target depends on the event.
LEMMA TargetKept ==
  ASSUME NEW t, t # Handler \/ UNCHANGED event
  PROVE  Target(t)' = Target(t)
  BY DEF Target

\* Files and batches are sequences of lines, and their records are events.
LEMMA Lines ==
  ASSUME TypeOK
  PROVE  /\ \A r \in Regions : file[r] \in Seq(Line) /\ Records(file[r]) \subseteq Events
         /\ \A t \in Threads : fbatch[t] \in Seq(Line) /\ Records(fbatch[t]) \subseteq Events
<1>1. /\ \A r \in Regions : file[r] \in Seq(Line)
      /\ \A t \in Threads : fbatch[t] \in Seq(Line)
  BY DEF TypeOK, Line
<1>2. \A s \in Seq(Line) : ToSet(s) \subseteq Line
  BY ElementsInSet
<1> QED BY <1>1, <1>2 DEF Line, Records

\* Add has an event in hand while it is at work.
LEMMA InHand ==
  ASSUME TypeOK, apc # "idle"
  PROVE  event \in Events /\ RegionOf[event] \in Regions /\ event # Torn /\ event # None
         /\ RecSize[event] \in Nat
<1>1. event \in Events
  BY DEF TypeOK
<1> QED BY <1>1, FileBatcherAssumption

-----------------------------------------------------------------------------
(* What the steps do to the files.                                         *)

\* A write adds one line or completes the last, which is the event's, or shares
\* it with a line that had no end, or is not all written.
LEMMA WriteFacts ==
  ASSUME TypeOK, AddWrite, NEW r, r = RegionOf[event]
  PROVE  /\ r \in Regions /\ event \in Events
         /\ file' \in [Regions -> Seq(Line)] /\ \A q \in Regions \ {r} : file'[q] = file[q]
         /\ file'[r] # <<>> /\ Len(file'[r]) \in {Len(file[r]), Len(file[r]) + 1}
         /\ Records(file'[r]) \subseteq Records(file[r]) \cup {event}
         /\ Records(file[r]) \subseteq Records(file'[r]) \cup glued'
         /\ event \in Records(file'[r]) \cup glued' \cup unwritten'
         /\ glued \subseteq glued' /\ glued' \subseteq Events
         /\ unwritten \subseteq unwritten' /\ unwritten' \subseteq Events
<1>1. r \in Regions /\ event \in Events /\ event # Torn /\ glued \subseteq Events /\ unwritten \subseteq Events
  BY InHand DEF AddWrite, TypeOK
<1>2. file \in [Regions -> Seq(Line)] /\ file[r] \in Seq(Line) /\ (r \in cut => file[r] # <<>>)
  BY <1>1 DEF TypeOK, Line
<1>3. PICK line \in Line :
        /\ line \in {event, Torn}
        /\ file' = [file EXCEPT ![r] =
                      IF r \in cut THEN ReplaceAt(file[r], Len(file[r]), Torn)
                                   ELSE Append(file[r], line)]
        /\ glued' = IF r \in cut THEN glued \cup Records(<<event, Last(file[r])>>) ELSE glued
        /\ unwritten' = IF line = Torn THEN unwritten \cup {event} ELSE unwritten
  <2>1. \A line : line \in {event} \cup (IF "write" \in Fails THEN {Torn} ELSE {}) =>
                    line \in Line /\ line \in {event, Torn}
    BY <1>1 DEF Line
  <2> QED BY <1>2, <2>1 DEF AddWrite
<1>4. unwritten \subseteq unwritten' /\ unwritten' \subseteq Events
      /\ (line = event => unwritten' = unwritten) /\ (line = Torn => event \in unwritten')
  BY <1>1, <1>3
<1>5. CASE r \in cut
  <2> DEFINE s == ReplaceAt(file[r], Len(file[r]), Torn)
  <2>1. /\ Last(file[r]) \in Line
        /\ s \in Seq(Line) /\ Len(s) = Len(file[r]) /\ s # <<>>
        /\ ToSet(file[r]) \subseteq ToSet(s) \cup {Last(file[r])}
        /\ ToSet(s) \subseteq ToSet(file[r]) \cup {Torn}
    <3>1. Torn \in Line /\ file[r] \in Seq(Line) /\ file[r] # <<>>
      BY <1>2, <1>5 DEF Line
    <3>2. ASSUME NEW q \in Seq(Line), q # <<>>
          PROVE  /\ Last(q) \in Line
                 /\ ReplaceAt(q, Len(q), Torn) \in Seq(Line)
                 /\ Len(ReplaceAt(q, Len(q), Torn)) = Len(q)
                 /\ ReplaceAt(q, Len(q), Torn) # <<>>
                 /\ ToSet(q) \subseteq ToSet(ReplaceAt(q, Len(q), Torn)) \cup {Last(q)}
                 /\ ToSet(ReplaceAt(q, Len(q), Torn)) \subseteq ToSet(q) \cup {Torn}
      BY <3>1, <3>2, ReplaceLast
    <3> QED BY <3>1, <3>2
  <2>2. file' = [file EXCEPT ![r] = s] /\ glued' = glued \cup Records(<<event, Last(file[r])>>)
    BY <1>3, <1>5
  <2>3. ToSet(<<event, Last(file[r])>>) = {event, Last(file[r])}
    <3>1. \A x, y : ToSet(<<x, y>>) = {x, y}
      BY DEF ToSet
    <3> QED BY <3>1
  <2> HIDE DEF s
  <2>4. /\ file' \in [Regions -> Seq(Line)] /\ file'[r] = s
        /\ \A q \in Regions \ {r} : file'[q] = file[q]
    BY <1>1, <1>2, <2>1, <2>2
  <2>5. glued' = glued \cup ({event, Last(file[r])} \ {Torn})
    BY <2>2, <2>3 DEF Records
  <2>6. /\ Records(s) \subseteq Records(file[r]) \cup {event}
        /\ Records(file[r]) \subseteq Records(s) \cup glued'
        /\ event \in glued' /\ glued \subseteq glued' /\ glued' \subseteq Events
    BY <1>1, <2>1, <2>5 DEF Records, Line
  <2> QED BY <1>1, <1>4, <2>1, <2>4, <2>6
<1>6. CASE r \notin cut
  <2> DEFINE s == Append(file[r], line)
  <2>1. s \in Seq(Line) /\ Len(s) = Len(file[r]) + 1 /\ ToSet(s) = ToSet(file[r]) \cup {line} /\ s # <<>>
    <3>1. s \in Seq(Line) /\ Len(s) = Len(file[r]) + 1 /\ ToSet(s) = ToSet(file[r]) \cup {line}
      BY <1>2, <1>3, AppendProperties, ElementsAppend
    <3>2. Len(file[r]) \in Nat
      BY <1>2, LenProperties
    <3> HIDE DEF s
    <3> QED BY <3>1, <3>2, EmptySeq
  <2>2. file' = [file EXCEPT ![r] = s] /\ glued' = glued
    BY <1>3, <1>6
  <2> HIDE DEF s
  <2>3. /\ file' \in [Regions -> Seq(Line)] /\ file'[r] = s
        /\ \A q \in Regions \ {r} : file'[q] = file[q]
    BY <1>1, <1>2, <2>1, <2>2
  <2>4. /\ Records(s) \subseteq Records(file[r]) \cup {event}
        /\ Records(file[r]) \subseteq Records(s)
        /\ event \in Records(s) \cup unwritten'
    BY <1>1, <1>3, <1>4, <2>1 DEF Records
  <2> QED BY <1>1, <1>4, <2>1, <2>2, <2>3, <2>4
<1> QED BY <1>5, <1>6

\* No other step of Add touches a line.
LEMMA AddFiles ==
  ASSUME Add, ~AddWrite
  PROVE  UNCHANGED <<file, windowed, glued>>
  BY DEF Add, AddStart, AddPreFlushed, AddWriteFails, AddOpenFails, AddNewline, AddCount, AddPostFlushed,
     fileVars

\* A flush empties its region's file or leaves every file as it is.
LEMMA FlushFiles ==
  ASSUME TypeOK, NEW t \in Threads, FlushStep(t)
  PROVE  /\ UNCHANGED <<exists, windowed, glued>>
         /\ ~Truncate(t) => UNCHANGED <<file, cut>>
         /\ \A r \in Regions : file'[r] = IF Truncate(t) /\ Target(t) = r THEN <<>> ELSE file[r]
  BY DEF FlushStep, FlushSkipped, FlushOpenFails, Scan, SendBatch, Truncate, TruncateFails, ResetCounters,
     fileVars, TypeOK

\* What a scan reads and leaves is the whole file.
LEMMA ScanFacts ==
  ASSUME TypeOK, NEW t \in Threads, Scan(t), NEW r \in Regions, Target(t) = r
  PROVE  /\ fbatch' \in [Threads -> Seq(Line)] /\ Len(fbatch'[t]) <= Len(file[r])
         /\ \A u \in Threads \ {t} : fbatch'[u] = fbatch[u]
         /\ scanned \subseteq scanned' /\ unread \subseteq unread'
         /\ scanned' \subseteq Events /\ unread' \subseteq Events
         /\ Records(file[r]) \subseteq scanned' \cup unread'
         /\ fpc'[t] \in {"sending", "truncate"} /\ \A u \in Threads \ {t} : fpc'[u] = fpc[u]
         /\ fpc' \in [Threads -> {"idle", "open", "sending", "truncate", "reset"}]
<1>1. file[r] \in Seq(Line) /\ Records(file[r]) \subseteq Events /\ Len(file[r]) \in Nat
  BY Lines, LenProperties
<1>2. PICK n \in 0..Len(file[r]) :
        /\ Read(t, n)
        /\ unread' = unread \cup Records(SubSeq(file[r], n + 1, Len(file[r])))
  BY DEF Scan
<1> DEFINE lines == SubSeq(file[r], 1, n)
           rest == SubSeq(file[r], n + 1, Len(file[r]))
<1>3. lines \in Seq(Line) /\ Len(lines) = n /\ ToSet(file[r]) = ToSet(lines) \cup ToSet(rest)
  BY <1>1, ElementsSplit
<1>4. /\ fbatch' = [fbatch EXCEPT ![t] = lines]
      /\ scanned' = scanned \cup Records(lines)
      /\ fpc' = [fpc EXCEPT ![t] = IF Records(lines) = {} THEN "truncate" ELSE "sending"]
      /\ unread' = unread \cup Records(rest)
  BY <1>2 DEF Read
<1> HIDE DEF lines, rest
<1>5. fbatch' \in [Threads -> Seq(Line)] /\ Len(fbatch'[t]) <= Len(file[r])
      /\ \A u \in Threads \ {t} : fbatch'[u] = fbatch[u]
  <2>1. fbatch \in [Threads -> Seq(Line)]
    BY DEF TypeOK, Line
  <2>2. n <= Len(file[r])
    BY <1>1
  <2> QED BY <1>3, <1>4, <2>1, <2>2
<1>6. /\ scanned \subseteq Events /\ unread \subseteq Events
      /\ Records(lines) \cup Records(rest) = Records(file[r])
  BY <1>3 DEF TypeOK, Records
<1>7. /\ fpc'[t] \in {"sending", "truncate"} /\ \A u \in Threads \ {t} : fpc'[u] = fpc[u]
      /\ fpc' \in [Threads -> {"idle", "open", "sending", "truncate", "reset"}]
  BY <1>4 DEF TypeOK
<1> QED BY <1>1, <1>4, <1>5, <1>6, <1>7

-----------------------------------------------------------------------------
(* Types.                                                                  *)

\* The initial values have their types.
LEMMA InitTypes == Init => TypeOK
<1> SUFFICES ASSUME Init PROVE TypeOK
  OBVIOUS
<1>1. <<>> \in Seq(Events \cup {Torn})
  BY EmptySeq
<1>2. \A r \in Regions : Left[r] \in Seq(Events \cup {Torn}) /\ Records(Left[r]) \subseteq Events
  <2>1. \A s \in Seq(Events \cup {Torn}) : ToSet(s) \subseteq Events \cup {Torn}
    BY ElementsInSet
  <2> QED BY <2>1, FileBatcherAssumption DEF Records
<1>3. file \in [Regions -> Seq(Events \cup {Torn})] /\ fbatch \in [Threads -> Seq(Events \cup {Torn})]
  BY <1>1, <1>2 DEF Init
<1>4. cut \subseteq exists /\ exists \subseteq Regions /\ \A r \in cut : file[r] # <<>>
  BY DEF Init
<1>5. leftover \subseteq Events /\ added \subseteq Events
  BY <1>2, <1>4 DEF Init
<1>6. counts \in [Regions -> Nat] /\ sizes \in [Regions -> Nat]
  BY DEF Init
<1>7. fpc \in [Threads -> {"idle", "open", "sending", "truncate", "reset"}]
  BY DEF Init
<1>8. UNION {leftover, added, logged, unwritten, glued, windowed, scanned, unread, beforeStop,
             adding} \subseteq Events
  BY <1>5 DEF Init
<1>9. /\ known = {} /\ snapshot = {} /\ apc = "idle" /\ event = None
      /\ failed = {} /\ faulty = {} /\ spared = {}
      /\ tpc = "select" /\ tick = FALSE /\ stop = "no" /\ cancelled = FALSE
  BY DEF Init
<1> QED BY <1>3, <1>4, <1>6, <1>7, <1>8, <1>9 DEF TypeOK

\* The steps of Add keep the types.
LEMMA AddTypes ==
  ASSUME TypeOK, Add
  PROVE  TypeOK'
<1>0. None \notin Events /\ Handler \in Threads
  BY FileBatcherAssumption, Goroutines
<1>1. ASSUME NEW e \in Events, AddStart(e)
      PROVE  TypeOK'
  <2>1. fpc' \in [Threads -> {"idle", "open", "sending", "truncate", "reset"}]
    BY <1>1 DEF AddStart, TypeOK
  <2> QED BY <1>0, <1>1, <2>1 DEF AddStart, TypeOK, fileVars, countVars, scanVars, faultVars, ctlVars, stopVars
<1>2. CASE AddPreFlushed \/ AddPostFlushed
  BY <1>2 DEF AddPreFlushed, AddPostFlushed, TypeOK, fileVars, countVars, heldVars, flushVars, scanVars,
     faultVars, ctlVars, stopVars
<1>3. ASSUME apc # "idle"
      PROVE  event \in Events /\ event # None /\ RegionOf[event] \in Regions /\ RecSize[event] \in Nat
  BY <1>3, InHand
<1>4. CASE AddWrite
  <2>1. /\ event \in Events /\ RegionOf[event] \in Regions /\ event # None
        /\ file' \in [Regions -> Seq(Events \cup {Torn})]
        /\ \A q \in Regions \ {RegionOf[event]} : file'[q] = file[q]
        /\ file'[RegionOf[event]] # <<>> /\ glued' \subseteq Events /\ unwritten' \subseteq Events
    BY <1>3, <1>4, WriteFacts DEF AddWrite, Line
  <2>2. /\ cut' = cut \cup {RegionOf[event]} /\ exists' = exists \cup {RegionOf[event]}
        /\ windowed' \subseteq windowed \cup {event} /\ apc' = "newline"
        /\ UNCHANGED <<countVars, event, leftover, added, flushVars, ctlVars, logged>>
    BY <1>4 DEF AddWrite
  <2>3. cut' \subseteq exists' /\ exists' \subseteq Regions /\ \A q \in cut' : file'[q] # <<>>
    BY <2>1, <2>2 DEF TypeOK
  <2>4. windowed' \subseteq Events
    BY <2>1, <2>2 DEF TypeOK
  <2> QED BY <2>1, <2>2, <2>3, <2>4
          DEF TypeOK, countVars, flushVars, scanVars, faultVars, ctlVars, stopVars
<1>5. CASE AddWriteFails \/ AddNewline
  <2>1. cut' \subseteq cut /\ exists \subseteq exists' /\ exists' \subseteq Regions
        /\ unwritten' \subseteq Events
    BY <1>3, <1>5 DEF AddWriteFails, AddNewline, TypeOK, heldVars
  <2>2. /\ UNCHANGED <<file, windowed, glued, countVars, event, leftover, added, flushVars, ctlVars, logged>>
        /\ apc # "idle" /\ apc' \in {"newline", "count"}
    BY <1>5 DEF AddWriteFails, AddNewline, heldVars
  <2> QED BY <2>1, <2>2 DEF TypeOK, countVars, flushVars, scanVars, faultVars, ctlVars, stopVars
<1>6. CASE AddOpenFails
  BY <1>3, <1>6 DEF AddOpenFails, TypeOK, fileVars, countVars, flushVars, scanVars, faultVars, ctlVars, stopVars
<1>7. CASE AddCount
  <2>0. event \in Events /\ event # None /\ RegionOf[event] \in Regions /\ RecSize[event] \in Nat
    BY <1>3, <1>7 DEF AddCount
  <2>1. counts' \in [Regions -> Nat] /\ sizes' \in [Regions -> Nat] /\ known' = known \cup {RegionOf[event]}
    BY <1>7, <2>0 DEF AddCount, TypeOK
  <2>2. fpc' \in [Threads -> {"idle", "open", "sending", "truncate", "reset"}]
    BY <1>7 DEF AddCount, TypeOK
  <2>3. event' \in Events \cup {None} /\ (event' = None <=> apc' = "idle")
        /\ apc' \in {"idle", "postflush"}
    BY <1>0, <1>7, <2>0 DEF AddCount
  <2>4. UNCHANGED <<fileVars, heldVars, scanVars, failed, faultVars, ctlVars>>
    BY <1>7 DEF AddCount
  <2> QED BY <2>0, <2>1, <2>2, <2>3, <2>4
          DEF TypeOK, fileVars, heldVars, scanVars, faultVars, ctlVars, stopVars
<1> QED BY <1>1, <1>2, <1>4, <1>5, <1>6, <1>7 DEF Add

\* The steps of a flush keep the types.
LEMMA FlushTypes ==
  ASSUME TypeOK, HandlerPlace, NEW t \in Threads, FlushStep(t)
  PROVE  TypeOK'
<1>0. Target(t) \in Regions
  BY TargetRegion DEF FlushStep, FlushSkipped, FlushOpenFails, Scan, SendBatch, Truncate, TruncateFails,
     ResetCounters
<1>1. <<>> \in Seq(Events \cup {Torn})
  BY EmptySeq
<1>2. CASE FlushSkipped(t)
  BY <1>2 DEF FlushSkipped, TypeOK, fileVars, countVars, addVars, heldVars, scanVars, faultVars, ctlVars, stopVars
<1>3. ASSUME Fault(t)
      PROVE  faulty \subseteq faulty' /\ faulty' \subseteq Regions /\ spared' \subseteq faulty'
  BY <1>0, <1>3 DEF Fault, TypeOK
<1>4. CASE FlushOpenFails(t)
  BY <1>3, <1>4 DEF FlushOpenFails, TypeOK, fileVars, countVars, addVars, heldVars, scanVars, ctlVars, stopVars
<1>5. CASE Scan(t)
  <2>1. /\ fbatch' \in [Threads -> Seq(Events \cup {Torn})]
        /\ scanned' \subseteq Events /\ unread' \subseteq Events
        /\ fpc' \in [Threads -> {"idle", "open", "sending", "truncate", "reset"}]
    BY <1>0, <1>5, ScanFacts DEF Line
  <2>2. UNCHANGED <<fileVars, countVars, addVars, failed, faultVars, ctlVars>>
    BY <1>5 DEF Scan
  <2> QED BY <2>1, <2>2 DEF TypeOK, fileVars, countVars, addVars, heldVars, faultVars, ctlVars, stopVars
<1>6. CASE SendBatch(t)
  BY <1>6 DEF SendBatch, TypeOK, fileVars, countVars, addVars, heldVars, scanVars, faultVars, ctlVars, stopVars
<1>7. CASE Truncate(t)
  <2>1. /\ file' \in [Regions -> Seq(Events \cup {Torn})]
        /\ cut' \subseteq exists /\ \A r \in cut' : file'[r] # <<>>
    BY <1>1, <1>7 DEF Truncate, TypeOK
  <2> QED BY <1>7, <2>1
          DEF Truncate, TypeOK, countVars, addVars, heldVars, scanVars, faultVars, ctlVars, stopVars
<1>8. CASE TruncateFails(t)
  BY <1>3, <1>8 DEF TruncateFails, TypeOK, fileVars, countVars, addVars, heldVars, scanVars, ctlVars, stopVars
<1>9. CASE ResetCounters(t)
  <2>1. /\ counts' \in [Regions -> Nat] /\ sizes' \in [Regions -> Nat]
        /\ known' \subseteq Regions /\ known \subseteq known'
    BY <1>0, <1>9 DEF ResetCounters, TypeOK
  <2>2. /\ fbatch' \in [Threads -> Seq(Events \cup {Torn})]
        /\ fpc' \in [Threads -> {"idle", "open", "sending", "truncate", "reset"}]
    BY <1>1, <1>9 DEF ResetCounters, TypeOK
  <2>3. UNCHANGED <<fileVars, addVars, scanned, unread, failed, faultVars, ctlVars>>
    BY <1>9 DEF ResetCounters
  <2> QED BY <2>1, <2>2, <2>3 DEF TypeOK, fileVars, addVars, heldVars, faultVars, ctlVars, stopVars
<1> QED BY <1>2, <1>4, <1>5, <1>6, <1>7, <1>8, <1>9 DEF FlushStep

\* The ticker's and Stop's steps keep the types.
LEMMA ControlTypes ==
  ASSUME TypeOK, Control
  PROVE  TypeOK'
<1>1. CASE Tick \/ TickFlushed \/ TickerExit
  BY <1>1 DEF Tick, TickFlushed, TickerExit, TypeOK, fileVars, countVars, addVars, heldVars, flushVars,
     scanVars, faultVars, stopVars
<1>2. CASE StopReturns \/ ParentCancel
  BY <1>2 DEF StopReturns, ParentCancel, TypeOK, fileVars, countVars, addVars, heldVars, flushVars,
     scanVars, faultVars, stopVars
<1>3. ASSUME NEW threads, StartFlushes(threads)
      PROVE  fpc' \in [Threads -> {"idle", "open", "sending", "truncate", "reset"}]
  BY <1>3 DEF StartFlushes, TypeOK
<1>4. CASE TickFlush
  BY <1>3, <1>4 DEF TickFlush, TypeOK, fileVars, countVars, addVars, heldVars, scanVars, faultVars, stopVars
<1>5. CASE StopCall
  <2>1. beforeStop' \subseteq Events /\ adding' \subseteq Events /\ snapshot' = known /\ stop' = "flushing"
    BY <1>5, Lines DEF StopCall, SnapshotRegions, TypeOK
  <2>2. /\ UNCHANGED <<fileVars, countVars, addVars, scanVars, failed, faultVars, tpc, tick, cancelled>>
        /\ fpc' \in [Threads -> {"idle", "open", "sending", "truncate", "reset"}]
    BY <1>3, <1>5 DEF StopCall
  <2> QED BY <2>1, <2>2 DEF TypeOK, fileVars, countVars, addVars, heldVars, scanVars, faultVars
<1> QED BY <1>1, <1>2, <1>4, <1>5 DEF Control

\* Every step keeps the types.
LEMMA TypesStep ==
  ASSUME TypeOK, HandlerPlace, [Next]_vars
  PROVE  TypeOK'
<1>1. CASE UNCHANGED vars
  BY <1>1
  DEF vars, fileVars, countVars, addVars, heldVars, flushVars, scanVars, faultVars, ctlVars, stopVars, TypeOK
<1> QED BY <1>1, AddTypes, FlushTypes, ControlTypes DEF Next, Control

-----------------------------------------------------------------------------
(* Where the goroutines are.                                               *)

\* StartFlushes starts the given goroutines and no other.
LEMMA StartsOnly ==
  ASSUME NEW threads, StartFlushes(threads), NEW t \in Threads, fpc'[t] # fpc[t]
  PROVE  t \in threads /\ t[2] \in known /\ fpc'[t] = "open"
  BY DEF StartFlushes

\* A step of a flush moves one goroutine, which is at work.
LEMMA FlushMoves ==
  ASSUME TypeOK, NEW t \in Threads, FlushStep(t)
  PROVE  /\ UNCHANGED <<addVars, ctlVars>>
         /\ fpc[t] # "idle"
         /\ \A u \in Threads \ {t} : fpc'[u] = fpc[u] /\ fbatch'[u] = fbatch[u]
         /\ scanned \subseteq scanned' /\ unread \subseteq unread'
         /\ faulty \subseteq faulty' /\ spared \subseteq spared' /\ known \subseteq known'
<1>1. CASE Scan(t)
  BY <1>1 DEF Scan, Read, TypeOK, countVars, faultVars
<1>2. CASE ~Scan(t)
  BY <1>2 DEF FlushStep, FlushSkipped, FlushOpenFails, SendBatch, Truncate, TruncateFails, ResetCounters,
     Fault, TypeOK, countVars, scanVars, faultVars
<1> QED BY <1>1, <1>2

\* Add moves the handler's flush only, and only to start it.
LEMMA AddMoves ==
  ASSUME TypeOK, Add
  PROVE  /\ UNCHANGED <<scanVars, failed, faultVars, ctlVars, leftover>>
         /\ \A u \in Threads \ {Handler} : fpc'[u] = fpc[u]
         /\ fpc'[Handler] \in {fpc[Handler], "open"}
<1>1. CASE (\E e \in Events : AddStart(e)) \/ AddCount
  BY <1>1, Goroutines DEF AddStart, AddCount, TypeOK, heldVars
<1>2. CASE AddPreFlushed \/ AddWrite \/ AddWriteFails \/ AddOpenFails \/ AddNewline \/ AddPostFlushed
  BY <1>2 DEF AddPreFlushed, AddWrite, AddWriteFails, AddOpenFails, AddNewline, AddPostFlushed,
     flushVars, heldVars
<1> QED BY <1>1, <1>2 DEF Add

\* The other steps start flushes of the ticker or of Stop.
LEMMA ControlMoves ==
  ASSUME TypeOK, Control
  PROVE  /\ UNCHANGED <<fileVars, countVars, addVars, scanVars, failed, faultVars>>
         /\ fpc'[Handler] = fpc[Handler]
         /\ \A u \in Threads : fpc'[u] # fpc[u] => fpc'[u] = "open" /\ (u \in StopFlush => StopCall)
<1>1. CASE Tick \/ TickFlushed \/ TickerExit \/ StopReturns \/ ParentCancel
  BY <1>1, Goroutines
  DEF Tick, TickFlushed, TickerExit, StopReturns, ParentCancel, flushVars
<1>2. CASE TickFlush
  <2>1. \A u \in Threads : fpc'[u] # fpc[u] => u \in TickerFlush /\ fpc'[u] = "open"
    BY <1>2, StartsOnly DEF TickFlush
  <2>2. TickerFlush \cap StopFlush = {}
    BY DEF TickerFlush, StopFlush
  <2> QED BY <1>2, <2>1, <2>2, Goroutines DEF TickFlush
<1>3. CASE StopCall
  <2>1. \A u \in Threads : fpc'[u] # fpc[u] => u \in StopFlush /\ fpc'[u] = "open"
    BY <1>3, StartsOnly DEF StopCall
  <2> QED BY <1>3, <2>1, Goroutines DEF StopCall
<1> QED BY <1>1, <1>2, <1>3 DEF Control

\* The adding goroutine is in flushRegion where Add calls it.
LEMMA HandlerPlaceStep ==
  ASSUME TypeOK, HandlerPlace, [Next]_vars
  PROVE  HandlerPlace'
<1>1. CASE UNCHANGED vars
  BY <1>1 DEF vars, addVars, flushVars, HandlerPlace
<1>2. CASE Add
  BY <1>2, Goroutines
  DEF Add, AddStart, AddPreFlushed, AddWrite, AddWriteFails, AddOpenFails, AddNewline, AddCount,
      AddPostFlushed, TypeOK, flushVars, HandlerPlace
<1>3. ASSUME NEW t \in Threads, FlushStep(t)
      PROVE  HandlerPlace'
  BY <1>3, FlushMoves, Goroutines DEF addVars, HandlerPlace
<1>4. CASE Control
  BY <1>4, ControlMoves DEF addVars, HandlerPlace
<1> QED BY <1>1, <1>2, <1>3, <1>4 DEF Next, Control

\* A write that is counted, or whose line is in the file, has made the file.
LEMMA FileThereStep ==
  ASSUME TypeOK, HandlerPlace, FileThere, [Next]_vars
  PROVE  FileThere'
<1>1. CASE UNCHANGED vars
  BY <1>1 DEF vars, fileVars, addVars, FileThere
<1>2. CASE AddWrite
  <2>1. \A q \in Regions \ {RegionOf[event]} : file'[q] = file[q]
    BY <1>2, WriteFacts
  <2>2. exists' = exists \cup {RegionOf[event]} /\ event' = event
    BY <1>2 DEF AddWrite
  <2> QED BY <2>1, <2>2 DEF FileThere
<1>3. CASE Add /\ ~AddWrite
  <2>1. UNCHANGED file /\ exists \subseteq exists'
    BY <1>3, AddFiles DEF Add, AddStart, AddPreFlushed, AddWriteFails, AddOpenFails, AddNewline, AddCount,
       AddPostFlushed, fileVars
  <2>2. apc' \in {"newline", "count", "postflush"} => event' = event /\ RegionOf[event] \in exists'
    BY <1>3 DEF Add, AddStart, AddPreFlushed, AddWriteFails, AddOpenFails, AddNewline, AddCount,
       AddPostFlushed, fileVars, FileThere
  <2> QED BY <2>1, <2>2 DEF FileThere
<1>4. ASSUME NEW t \in Threads, FlushStep(t)
      PROVE  FileThere'
  <2>1. UNCHANGED <<apc, event, exists>>
    BY <1>4, FlushMoves, FlushFiles DEF addVars
  <2>2. \A r \in Regions : file'[r] \in {file[r], <<>>}
    BY <1>4, FlushFiles
  <2> QED BY <2>1, <2>2 DEF FileThere
<1>5. CASE Control
  BY <1>5, ControlMoves DEF fileVars, addVars, FileThere
<1> QED BY <1>1, <1>2, <1>3, <1>4, <1>5 DEF Next, Control

\* Stop's goroutines are started by its call, and its return waits for them.
LEMMA StopWorksStep ==
  ASSUME TypeOK, NeverStopped, StopWorks, [Next]_vars
  PROVE  NeverStopped' /\ StopWorks'
<1>0. StopFlush \subseteq Threads /\ Handler \notin StopFlush
  BY Goroutines DEF Threads
<1>1. CASE UNCHANGED vars
  BY <1>1 DEF vars, flushVars, ctlVars, stopVars, StopWorks, NeverStopped
<1>2. CASE Add
  BY <1>0, <1>2, AddMoves DEF ctlVars, stopVars, StopWorks, NeverStopped
<1>3. ASSUME NEW t \in Threads, FlushStep(t)
      PROVE  NeverStopped' /\ StopWorks'
  BY <1>0, <1>3, FlushMoves DEF ctlVars, stopVars, StopWorks, NeverStopped
<1>4. CASE Tick \/ TickFlush \/ TickFlushed \/ TickerExit \/ ParentCancel
  <2>1. UNCHANGED stop /\ ~StopCall
    BY <1>4 DEF Tick, TickFlush, TickFlushed, TickerExit, ParentCancel, StopCall, SnapshotRegions, stopVars
  <2> QED BY <1>0, <1>4, <2>1, ControlMoves DEF Control, StopWorks, NeverStopped
<1>5. CASE StopCall
  BY <1>5 DEF StopCall, SnapshotRegions, StopWorks, NeverStopped
<1>6. CASE StopReturns
  BY <1>6 DEF StopReturns, flushVars, StopWorks, NeverStopped
<1> QED BY <1>1, <1>2, <1>3, <1>4, <1>5, <1>6 DEF Next

-----------------------------------------------------------------------------
(* What becomes of an event.                                               *)

\* Add waits for the flush it has called.
LEMMA AddWaits ==
  ASSUME HandlerPlace, Add
  PROVE  fpc[Handler] = "idle"
  BY DEF HandlerPlace, Add, AddStart, AddPreFlushed, AddWrite, AddWriteFails, AddOpenFails, AddNewline,
     AddCount, AddPostFlushed

\* Only a write brings an event into the files, one that was in none.
LEMMA FreshStep ==
  ASSUME TypeOK, Fresh, [Next]_vars
  PROVE  Fresh'
<1>1. CASE UNCHANGED vars
  BY <1>1 DEF vars, fileVars, addVars, heldVars, ctlVars, stopVars, Fresh, Unwritten
<1>2. CASE AddWrite
  <2>1. \A r \in Regions : Records(file'[r]) \subseteq Records(file[r]) \cup {event}
    BY <1>2, WriteFacts DEF Records
  <2>2. UNCHANGED <<added, beforeStop, event>> /\ Unwritten' = {}
    BY <1>2 DEF AddWrite, Unwritten, ctlVars, stopVars
  <2>3. event \in added
    BY <1>2, InHand DEF AddWrite, Fresh
  <2> QED BY <2>1, <2>2, <2>3 DEF Fresh
<1>3. ASSUME NEW e \in Events, AddStart(e)
      PROVE  Fresh'
  <2>1. /\ UNCHANGED <<file, beforeStop>> /\ added' = added \cup {e} /\ Unwritten' = {e}
        /\ e \notin added /\ event' = e
    BY <1>3 DEF AddStart, Unwritten, fileVars, ctlVars, stopVars
  <2> QED BY <2>1 DEF Fresh, Records
<1>4. CASE Add /\ ~AddWrite /\ ~(\E e \in Events : AddStart(e))
  <2>1. UNCHANGED <<file, beforeStop, added>> /\ Unwritten' \subseteq Unwritten /\ event' \in {event, None}
    BY <1>4 DEF Add, AddPreFlushed, AddWriteFails, AddOpenFails, AddNewline, AddCount, AddPostFlushed,
       Unwritten, fileVars, heldVars, ctlVars, stopVars
  <2> QED BY <2>1 DEF Fresh, Records
<1>5. ASSUME NEW t \in Threads, FlushStep(t)
      PROVE  Fresh'
  <2>1. \A r \in Regions : Records(file'[r]) \subseteq Records(file[r])
    <3>1. ToSet(<<>>) = {}
      BY EmptySeq, ElementsEmpty
    <3> QED BY <1>5, <3>1, FlushFiles DEF Records
  <2>2. UNCHANGED <<added, beforeStop, event>> /\ Unwritten' = Unwritten
    BY <1>5, FlushMoves DEF addVars, heldVars, ctlVars, stopVars, Unwritten
  <2> QED BY <2>1, <2>2 DEF Fresh
<1>6. CASE Control
  <2>1. UNCHANGED <<file, added, event>> /\ Unwritten' = Unwritten
    BY <1>6, ControlMoves DEF fileVars, addVars, heldVars, Unwritten
  <2>2. beforeStop' = beforeStop \/ beforeStop' = UNION {Records(file[r]) : r \in Regions}
    BY <1>6 DEF Control, Tick, TickFlush, TickFlushed, TickerExit, StopCall, SnapshotRegions, StopReturns,
       ParentCancel, stopVars
  <2> QED BY <2>1, <2>2 DEF Fresh, Records
<1> QED BY <1>1, <1>2, <1>3, <1>4, <1>5, <1>6 DEF Next, Add, Control

\* What a flush takes away from a file it has read, or left unread, or it was
\* appended since.
LEMMA SeenStep ==
  ASSUME TypeOK, HandlerPlace, Seen, [Next]_vars
  PROVE  Seen'
<1>1. CASE UNCHANGED vars
  <2>1. \A t \in Threads : Target(t)' = Target(t)
    BY <1>1, TargetKept DEF vars, addVars
  <2> QED BY <1>1, <2>1 DEF vars, fileVars, flushVars, scanVars, Seen, Records
<1>2. CASE Add
  <2> SUFFICES ASSUME NEW t \in Threads, fpc'[t] \in {"sending", "truncate"}
               PROVE  Records(file'[Target(t)']) \subseteq scanned' \cup unread' \cup windowed'
    BY DEF Seen, Records
  <2>1. t # Handler /\ fpc'[t] = fpc[t] /\ UNCHANGED <<scanned, unread>>
    BY <1>2, AddMoves, AddWaits DEF scanVars
  <2>2. PICK r \in Regions : r = Target(t) /\ r = Target(t)'
    BY <2>1, TargetRegion, TargetKept
  <2>3. Records(file[r]) \subseteq scanned \cup unread \cup windowed
    BY <2>1, <2>2 DEF Seen
  <2>4. CASE AddWrite
    <3>1. windowed' = IF InWindow(RegionOf[event]) THEN windowed \cup {event} ELSE windowed
      BY <2>4 DEF AddWrite
    <3>2. CASE RegionOf[event] = r
      <4>1. InWindow(r)
        BY <2>1, <2>2 DEF InWindow
      <4>2. Records(file'[r]) \subseteq Records(file[r]) \cup {event}
        BY <2>4, <3>2, WriteFacts
      <4> QED BY <2>1, <2>2, <2>3, <3>1, <3>2, <4>1, <4>2
    <3>3. CASE RegionOf[event] # r
      <4>1. file'[r] = file[r]
        BY <2>4, <3>3, WriteFacts
      <4> QED BY <2>1, <2>2, <2>3, <3>1, <4>1
    <3> QED BY <3>2, <3>3
  <2>5. CASE ~AddWrite
    <3>1. file' = file /\ windowed' = windowed
      BY <1>2, <2>5, AddFiles
    <3> QED BY <2>1, <2>2, <2>3, <3>1
  <2> QED BY <2>4, <2>5
<1>3. ASSUME NEW t \in Threads, FlushStep(t)
      PROVE  Seen'
  <2>1. \A u \in Threads : Target(u)' = Target(u)
    BY <1>3, FlushMoves, TargetKept DEF addVars
  <2>2. Target(t) \in Regions /\ UNCHANGED windowed /\ scanned \subseteq scanned' /\ unread \subseteq unread'
    BY <1>3, FlushMoves, FlushFiles, TargetRegion
  <2> SUFFICES ASSUME NEW u \in Threads, fpc'[u] \in {"sending", "truncate"}
               PROVE  Records(file'[Target(u)]) \subseteq scanned' \cup unread' \cup windowed'
    BY <2>1 DEF Seen, Records
  <2>3. CASE fpc[u] \in {"sending", "truncate"}
    <3>1. Target(u) \in Regions /\ Records(file[Target(u)]) \subseteq scanned \cup unread \cup windowed
      BY <2>3, TargetRegion DEF Seen
    <3>2. file'[Target(u)] \in {file[Target(u)], <<>>}
      BY <1>3, <3>1, FlushFiles
    <3>3. Records(<<>>) = {}
      BY EmptySeq, ElementsEmpty DEF Records
    <3> QED BY <2>2, <3>1, <3>2, <3>3
  <2>4. CASE fpc[u] \notin {"sending", "truncate"}
    <3>1. u = t
      BY <1>3, <2>4, FlushMoves
    <3>2. Scan(t)
      BY <1>3, <2>4, <3>1 DEF FlushStep, FlushSkipped, FlushOpenFails, SendBatch, Truncate, TruncateFails,
         ResetCounters, TypeOK
    <3>3. Records(file[Target(t)]) \subseteq scanned' \cup unread' /\ file' = file
      BY <2>2, <3>2, ScanFacts DEF Scan, fileVars
    <3> QED BY <3>1, <3>3
  <2> QED BY <2>3, <2>4
<1>4. CASE Control
  <2>1. \A t \in Threads : Target(t)' = Target(t)
    BY <1>4, ControlMoves, TargetKept DEF addVars
  <2> QED BY <1>4, <2>1, ControlMoves DEF fileVars, scanVars, Seen, Records
<1> QED BY <1>1, <1>2, <1>3, <1>4 DEF Next, Control

\* What is kept stays kept when the file loses only what was glued, read, left
\* unread or appended since.
LEMMA KeptGrows ==
  ASSUME NEW e, Kept(e),
         /\ logged \subseteq logged' /\ unwritten \subseteq unwritten' /\ glued \subseteq glued'
         /\ windowed \subseteq windowed' /\ scanned \subseteq scanned' /\ unread \subseteq unread',
         e \in ToSet(file[RegionOf[e]]) =>
           e \in ToSet(file'[RegionOf[e]]) \cup glued' \cup scanned' \cup unread' \cup windowed'
  PROVE  Kept(e)'
  BY DEF Kept

\* Every event stays kept from the step that writes it.
LEMMA AllKeptStep ==
  ASSUME TypeOK, HandlerPlace, Seen, AllKept, [Next]_vars
  PROVE  AllKept'
<1>0. \A e \in added : e \in Events /\ e # Torn /\ RegionOf[e] \in Regions
  BY FileBatcherAssumption DEF TypeOK
<1>1. CASE UNCHANGED vars
  BY <1>1 DEF vars, fileVars, addVars, heldVars, flushVars, scanVars, AllKept, Kept, Unwritten
<1>2. CASE AddWrite
  <2>1. \A r \in Regions : Records(file[r]) \subseteq Records(file'[r]) \cup glued'
    BY <1>2, WriteFacts
  <2>2. glued \subseteq glued' /\ unwritten \subseteq unwritten' /\ windowed \subseteq windowed'
        /\ UNCHANGED <<logged, scanned, unread, added>>
    BY <1>2, WriteFacts DEF AddWrite, flushVars, scanVars
  <2>3. \A e \in added : Kept(e) => Kept(e)'
    BY <1>0, <2>1, <2>2, KeptGrows DEF Records
  <2>4. ASSUME NEW e \in Unwritten
        PROVE  Kept(e)'
    <3>1. e = event
      BY <1>2 DEF AddWrite, Unwritten
    <3>2. event \in Records(file'[RegionOf[event]]) \cup glued' \cup unwritten'
      BY <1>2, WriteFacts
    <3> QED BY <3>1, <3>2 DEF Kept, Records
  <2> QED BY <2>2, <2>3, <2>4 DEF AllKept
<1>3. CASE Add /\ ~AddWrite
  <2>1. UNCHANGED <<file, windowed, glued, scanned, unread>>
    BY <1>3, AddFiles, AddMoves DEF scanVars
  <2>2. logged \subseteq logged' /\ unwritten \subseteq unwritten'
    BY <1>3 DEF Add, AddStart, AddPreFlushed, AddWriteFails, AddOpenFails, AddNewline, AddCount,
       AddPostFlushed, heldVars
  <2>3. \A e \in added : Kept(e) => Kept(e)'
    BY <2>1, <2>2, KeptGrows
  <2>4. \A e \in added' : e \in added \/ e \in Unwritten'
    BY <1>3 DEF Add, AddStart, AddPreFlushed, AddWriteFails, AddOpenFails, AddNewline, AddCount,
       AddPostFlushed, heldVars, Unwritten
  <2>5. \A e \in Unwritten : e \in Unwritten' \/ Kept(e)'
    <3>1. CASE AddWriteFails \/ AddOpenFails
      BY <3>1 DEF AddWriteFails, AddOpenFails, Unwritten, Kept
    <3>2. CASE ~(AddWriteFails \/ AddOpenFails)
      BY <1>3, <3>2 DEF Add, AddStart, AddPreFlushed, AddNewline, AddCount, AddPostFlushed, Unwritten
    <3> QED BY <3>1, <3>2
  <2> QED BY <2>3, <2>4, <2>5 DEF AllKept
<1>4. ASSUME NEW t \in Threads, FlushStep(t)
      PROVE  AllKept'
  <2>1. UNCHANGED <<added, logged, unwritten, windowed, glued>> /\ Unwritten' = Unwritten
        /\ scanned \subseteq scanned' /\ unread \subseteq unread'
    BY <1>4, FlushMoves, FlushFiles DEF addVars, heldVars, Unwritten
  <2>2. ASSUME NEW e \in added, Kept(e)
        PROVE  Kept(e)'
    <3>1. ASSUME e \in ToSet(file[RegionOf[e]])
          PROVE  e \in ToSet(file'[RegionOf[e]]) \cup scanned \cup unread \cup windowed
      <4>1. CASE Truncate(t) /\ Target(t) = RegionOf[e]
        <5>1. Records(file[RegionOf[e]]) \subseteq scanned \cup unread \cup windowed
          BY <4>1 DEF Truncate, Seen
        <5> QED BY <1>0, <3>1, <5>1 DEF Records
      <4>2. CASE ~(Truncate(t) /\ Target(t) = RegionOf[e])
        BY <1>0, <1>4, <3>1, <4>2, FlushFiles
      <4> QED BY <4>1, <4>2
    <3> QED BY <2>1, <2>2, <3>1, KeptGrows
  <2> QED BY <2>1, <2>2 DEF AllKept
<1>5. CASE Control
  <2>1. UNCHANGED <<file, windowed, glued, scanned, unread, added, logged, unwritten>>
        /\ Unwritten' = Unwritten
    BY <1>5, ControlMoves DEF fileVars, scanVars, addVars, heldVars, Unwritten
  <2> QED BY <2>1 DEF AllKept, Kept
<1> QED BY <1>1, <1>2, <1>3, <1>4, <1>5 DEF Next, Control

\* A line in a region without a counter is not this process's but for the one
\* the Add in progress has yet to count.
LEMMA UncountedStep ==
  ASSUME TypeOK, Uncounted, [Next]_vars
  PROVE  Uncounted'
<1>0. \A e \in Events : e # Torn /\ RegionOf[e] \in Regions
  BY FileBatcherAssumption
<1>1. CASE UNCHANGED vars
  BY <1>1 DEF vars, fileVars, countVars, addVars, heldVars, Uncounted
<1>2. CASE AddWrite
  <2>1. \A r \in Regions : Records(file'[r]) \subseteq Records(file[r]) \cup {event}
    BY <1>2, WriteFacts DEF Records
  <2>2. UNCHANGED <<known, leftover, event>> /\ apc = "write" /\ apc' = "newline"
    BY <1>2 DEF AddWrite, countVars
  <2> QED BY <1>0, <2>1, <2>2 DEF Uncounted, Records
<1>3. CASE AddCount
  <2>1. UNCHANGED <<file, leftover>> /\ known' = known \cup {RegionOf[event]}
    BY <1>3 DEF AddCount, fileVars, heldVars
  <2> QED BY <2>1 DEF Uncounted
<1>4. CASE Add /\ ~AddWrite /\ ~AddCount
  <2>1. UNCHANGED <<file, known, leftover>>
    BY <1>4 DEF Add, AddStart, AddPreFlushed, AddWriteFails, AddOpenFails, AddNewline, AddPostFlushed,
       fileVars, countVars, heldVars
  <2>2. apc \in {"newline", "count"} => event' = event /\ apc' \in {"newline", "count"}
    BY <1>4 DEF Add, AddStart, AddPreFlushed, AddWriteFails, AddOpenFails, AddNewline, AddPostFlushed
  <2> QED BY <2>1, <2>2 DEF Uncounted
<1>5. ASSUME NEW t \in Threads, FlushStep(t)
      PROVE  Uncounted'
  <2>1. \A r \in Regions : ToSet(file'[r]) \subseteq ToSet(file[r])
    <3>1. ToSet(<<>>) = {}
      BY EmptySeq, ElementsEmpty
    <3> QED BY <1>5, <3>1, FlushFiles
  <2>2. UNCHANGED <<leftover, event, apc>> /\ known \subseteq known'
    BY <1>5, FlushMoves DEF addVars, heldVars
  <2> QED BY <1>0, <2>1, <2>2 DEF Uncounted
<1>6. CASE Control
  BY <1>6, ControlMoves DEF fileVars, countVars, addVars, heldVars, Uncounted
<1> QED BY <1>1, <1>2, <1>3, <1>4, <1>5, <1>6 DEF Next, Control

\* Stop's goroutines keep what they owe until they have truncated it.
LEMMA StopOwesStep ==
  ASSUME TypeOK, HandlerPlace, FileThere, Fresh, Uncounted, StopWorks, StopOwes, [Next]_vars
  PROVE  StopOwes'
<1>0. /\ \A r \in Regions : <<"stop", r>> \in Threads \ {Handler} /\ Target(<<"stop", r>>) = r
      /\ \A e \in Events : e # Torn /\ RegionOf[e] \in Regions
      /\ beforeStop \subseteq Events
  BY Goroutines, FileBatcherAssumption DEF TypeOK
<1>1. CASE UNCHANGED vars
  BY <1>1 DEF vars, fileVars, addVars, heldVars, flushVars, faultVars, ctlVars, stopVars, StopOwes, Owed
<1>2. CASE Add
  <2>1. UNCHANGED <<cancelled, beforeStop, spared, snapshot, leftover, adding>>
    BY <1>2, AddMoves DEF ctlVars, stopVars, faultVars
  <2>2. \A r \in Regions : fpc'[<<"stop", r>>] = fpc[<<"stop", r>>]
    BY <1>0, <1>2, AddMoves
  <2>3. \A e \in beforeStop, r \in Regions : e \in ToSet(file'[r]) => e \in ToSet(file[r])
    <3>1. CASE AddWrite
      <4>1. \A r \in Regions : Records(file'[r]) \subseteq Records(file[r]) \cup {event}
        BY <3>1, WriteFacts DEF Records
      <4>2. event \notin beforeStop
        BY <3>1 DEF AddWrite, Unwritten, Fresh
      <4> QED BY <1>0, <4>1, <4>2 DEF Records
    <3>2. CASE ~AddWrite
      BY <1>2, <3>2, AddFiles
    <3> QED BY <3>1, <3>2
  <2> QED BY <1>0, <2>1, <2>2, <2>3 DEF StopOwes, Owed
<1>3. ASSUME NEW t \in Threads, FlushStep(t)
      PROVE  StopOwes'
  <2>1. UNCHANGED <<stop, cancelled, beforeStop, snapshot, leftover, adding>> /\ spared \subseteq spared'
    BY <1>3, FlushMoves DEF addVars, heldVars, ctlVars, stopVars
  <2> SUFFICES ASSUME ~cancelled, NEW e \in beforeStop, Owed(e)
               PROVE  Owed(e)'
    BY <2>1 DEF StopOwes
  <2> DEFINE r == RegionOf[e]
  <2>2. r \in Regions /\ file'[r] = IF Truncate(t) /\ Target(t) = r THEN <<>> ELSE file[r]
    BY <1>0, <1>3, FlushFiles
  <2>3. ToSet(<<>>) = {}
    BY EmptySeq, ElementsEmpty
  <2>4. CASE e \notin ToSet(file[r]) \/ (Truncate(t) /\ Target(t) = r)
    BY <2>2, <2>3, <2>4 DEF Owed
  <2>5. CASE r \in spared \/ (r \notin snapshot /\ e \in leftover \cup adding)
    BY <2>1, <2>5 DEF Owed
  <2>6. CASE /\ e \in ToSet(file[r]) /\ ~(Truncate(t) /\ Target(t) = r)
             /\ fpc[<<"stop", r>>] \in {"open", "sending", "truncate"}
    <3>1. CASE t # <<"stop", r>>
      <4>1. fpc'[<<"stop", r>>] = fpc[<<"stop", r>>]
        BY <1>0, <1>3, <2>2, <3>1, FlushMoves
      <4> QED BY <2>6, <4>1 DEF Owed
    <3>2. CASE t = <<"stop", r>>
      <4>1. Target(t) = r /\ t \in StopFlush /\ t \in Threads
            /\ fpc[t] \in {"open", "sending", "truncate"}
        BY <1>0, <2>2, <2>6, <3>2, Goroutines
      <4>2. ~done
        BY <2>2, <4>1 DEF StopWorks, done, TypeOK
      <4>3. r \in exists
        BY <2>2, <2>3, <2>6 DEF FileThere
      <4>4. ~FlushSkipped(t) /\ ~ResetCounters(t) /\ ~Truncate(t)
        BY <2>6, <4>1, <4>2, <4>3 DEF FlushSkipped, ResetCounters
      <4>5. CASE FlushOpenFails(t) \/ TruncateFails(t)
        <5>1. r \in spared'
          BY <4>1, <4>5 DEF FlushOpenFails, TruncateFails, Fault
        <5> QED BY <5>1 DEF Owed
      <4>6. CASE Scan(t) \/ SendBatch(t)
        <5>1. fpc'[t] \in {"sending", "truncate"}
          BY <2>2, <4>1, <4>6, ScanFacts DEF SendBatch, TypeOK
        <5> QED BY <3>2, <5>1 DEF Owed
      <4> QED BY <1>3, <4>4, <4>5, <4>6 DEF FlushStep
    <3> QED BY <3>1, <3>2
  <2> QED BY <2>4, <2>5, <2>6 DEF Owed
<1>4. CASE StopCall
  <2>1. /\ snapshot' = known /\ adding' = {event} \ {None} /\ beforeStop' \subseteq Events
        /\ UNCHANGED <<file, leftover>>
    BY <1>4, Lines DEF StopCall, SnapshotRegions, fileVars, addVars, heldVars
  <2>2. \A r \in known : fpc'[<<"stop", r>>] = "open"
    BY <1>4, Goroutines DEF StopCall, StartFlushes, TypeOK
  <2>3. ASSUME NEW e \in beforeStop'
        PROVE  Owed(e)'
    <3>1. CASE RegionOf[e] \in known
      BY <2>2, <3>1 DEF Owed
    <3>2. CASE RegionOf[e] \notin known /\ e \in ToSet(file[RegionOf[e]])
      <4>1. e \in leftover \/ (e = event /\ apc \in {"newline", "count"})
        BY <2>1, <2>3, <3>2 DEF Uncounted
      <4>2. e \in leftover' \cup adding'
        BY <2>1, <4>1, InHand
      <4> QED BY <2>1, <3>2, <4>2 DEF Owed
    <3>3. CASE e \notin ToSet(file[RegionOf[e]])
      BY <2>1, <3>3 DEF Owed
    <3> QED BY <3>1, <3>2, <3>3
  <2> QED BY <2>3 DEF StopOwes
<1>5. CASE Tick \/ TickFlush \/ TickFlushed \/ TickerExit \/ StopReturns \/ ParentCancel
  <2>1. /\ UNCHANGED <<file, spared, leftover, beforeStop, snapshot, adding>> /\ ~StopCall
        /\ (~cancelled' => ~cancelled)
    BY <1>5 DEF Tick, TickFlush, TickFlushed, TickerExit, StopReturns, ParentCancel, StopCall,
       SnapshotRegions, fileVars, addVars, heldVars, flushVars, faultVars, stopVars, TypeOK
  <2>2. \A r \in Regions : fpc'[<<"stop", r>>] = fpc[<<"stop", r>>]
    BY <1>0, <1>5, <2>1, ControlMoves, Goroutines DEF Control
  <2> QED BY <1>0, <2>1, <2>2 DEF StopOwes, Owed
<1> QED BY <1>1, <1>2, <1>3, <1>4, <1>5 DEF Next

\* Nothing is appended between the handler's truncation and its reset.
LEMMA ResetEmptyStep ==
  ASSUME TypeOK, HandlerPlace, ResetEmpty, [Next]_vars
  PROVE  ResetEmpty'
<1>1. CASE UNCHANGED vars
  BY <1>1 DEF vars, fileVars, addVars, flushVars, faultVars, ResetEmpty
<1>2. CASE Add
  BY <1>2, AddMoves, AddWaits DEF ResetEmpty
<1>3. ASSUME NEW t \in Threads, FlushStep(t)
      PROVE  ResetEmpty'
  <2>1. UNCHANGED event /\ faulty \subseteq faulty'
    BY <1>3, FlushMoves DEF addVars
  <2> SUFFICES ASSUME fpc'[Handler] = "reset"
               PROVE  RegionOf[event] \in faulty' \/ file'[RegionOf[event]] = <<>>
    BY <2>1 DEF ResetEmpty
  <2>2. CASE t = Handler
    <3>1. Target(Handler) = RegionOf[event] /\ Target(Handler) \in Regions
      BY <1>3, <2>2, FlushMoves, TargetRegion DEF Target
    <3>2. ~Scan(Handler)
      BY <2>2, <3>1, ScanFacts
    <3>3. Truncate(Handler) \/ TruncateFails(Handler)
      BY <1>3, <2>2, <3>2 DEF FlushStep, FlushSkipped, FlushOpenFails, SendBatch, ResetCounters, TypeOK
    <3> QED BY <3>1, <3>3 DEF Truncate, TruncateFails, Fault, TypeOK
  <2>3. CASE t # Handler
    <3>1. fpc[Handler] = "reset" /\ (RegionOf[event] \in faulty \/ file[RegionOf[event]] = <<>>)
      BY <1>3, <2>3, Goroutines, FlushMoves DEF ResetEmpty
    <3>2. RegionOf[event] \in Regions
      BY <3>1, Goroutines, TargetRegion DEF Target
    <3> QED BY <1>3, <2>1, <3>1, <3>2, FlushFiles
  <2> QED BY <2>2, <2>3
<1>4. CASE Control
  BY <1>4, ControlMoves DEF fileVars, addVars, faultVars, ResetEmpty
<1> QED BY <1>1, <1>2, <1>3, <1>4 DEF Next, Control

-----------------------------------------------------------------------------
(* How far a file outgrows the counters.                                   *)

\* No more is forgotten than the goroutines of one region may forget.
LEMMA ForgetBound ==
  ASSUME StopWorks, NeverStopped, maxCount > 0, NEW r \in Regions
  PROVE  MayForget(r) \in Nat /\ MayForget(r) <= Forgettable /\ Forgettable \in Nat
<1>1. maxCount \in Nat /\ Stops \in BOOLEAN /\ <<"stop", r>> \in StopFlush
  BY FileBatcherAssumption, Goroutines
<1>2. ~Stops => Forgets(<<"stop", r>>) = 0
  BY <1>1 DEF Forgets, StopWorks, NeverStopped
<1> QED BY <1>1, <1>2 DEF MayForget, Forgets, Forgettable

\* The same of the next state.
LEMMA ForgetBoundNext ==
  ASSUME StopWorks', NeverStopped', maxCount > 0, NEW r \in Regions
  PROVE  MayForget(r)' \in Nat /\ MayForget(r)' <= Forgettable /\ Forgettable \in Nat
<1>1. maxCount \in Nat /\ Stops \in BOOLEAN /\ <<"stop", r>> \in StopFlush
  BY FileBatcherAssumption, Goroutines
<1>2. ~Stops => Forgets(<<"stop", r>>)' = 0
  BY <1>1 DEF Forgets, StopWorks, NeverStopped
<1> QED BY <1>1, <1>2 DEF MayForget, Forgets, Forgettable

\* What may be forgotten depends on who is about to reset the counters.
LEMMA ForgetFrame ==
  ASSUME NEW r \in Regions,
         \A t \in {<<"ticker", r>>, <<"stop", r>>} :
           fpc'[t] = fpc[t] \/ (fpc[t] # "reset" /\ fpc'[t] # "reset")
  PROVE  MayForget(r)' = MayForget(r)
  BY DEF MayForget, Forgets

\* The types the arithmetic needs.
LEMMA SlackNumbers ==
  ASSUME TypeOK, NEW r \in Regions
  PROVE  maxCount \in Nat /\ counts[r] \in Nat /\ Len(file[r]) \in Nat /\ Pending(r) \in {0, 1}
         /\ file[r] \in Seq(Line)
  BY FileBatcherAssumption, Lines, LenProperties DEF TypeOK, Pending

\* Each of Add's steps appends one line and counts it in the next.
LEMMA SlackAdd ==
  ASSUME TypeOK, HandlerPlace, Add, maxCount > 0, NEW base \in Nat,
         NEW r \in Regions, CountLow(r), Fits(r, base), MayForget(r) \in Nat
  PROVE  CountLow(r)' /\ Fits(r, base)'
<1>1. fpc[Handler] = "idle" /\ ~PostFlushing(r) /\ ~BeforeTruncation(r)
  BY AddWaits DEF PostFlushing, BeforeTruncation
<1>2. counts[r] < maxCount /\ Len(file[r]) + MayForget(r) <= base + (counts[r] + Pending(r))
  BY <1>1 DEF CountLow, Fits
<1>3. MayForget(r)' = MayForget(r)
  <2>1. \A u \in {<<"ticker", r>>, <<"stop", r>>} : fpc'[u] = fpc[u]
    BY AddMoves, RegionGoroutines
  <2> QED BY <2>1, ForgetFrame
<1>4. maxCount \in Nat /\ counts[r] \in Nat /\ Len(file[r]) \in Nat /\ Pending(r) \in {0, 1}
  BY SlackNumbers
<1>5. CASE \/ \E e \in Events : AddStart(e)
           \/ AddPreFlushed \/ AddOpenFails \/ AddNewline \/ AddPostFlushed
  <2>1. Pending(r)' = Pending(r) /\ ~PostFlushing(r)' /\ UNCHANGED <<file, counts>>
    BY <1>5 DEF AddStart, AddPreFlushed, AddOpenFails, AddNewline, AddPostFlushed, Pending, PostFlushing,
       fileVars, countVars
  <2> QED BY <1>2, <1>3, <1>4, <2>1 DEF CountLow, Fits, BeforeTruncation
<1>6. CASE AddWrite \/ AddWriteFails
  <2>1. Pending(r) = 0 /\ ~PostFlushing(r)' /\ ~BeforeTruncation(r)' /\ UNCHANGED counts
    BY <1>6 DEF AddWrite, AddWriteFails, Pending, PostFlushing, BeforeTruncation, countVars
  <2>2. Pending(r)' \in {0, 1} /\ (RegionOf[event] = r => Pending(r)' = 1)
    BY <1>6 DEF AddWrite, AddWriteFails, Pending
  <2>3. Len(file'[r]) = Len(file[r]) \/ (RegionOf[event] = r /\ Len(file'[r]) = Len(file[r]) + 1)
    <3>1. CASE AddWriteFails
      BY <3>1 DEF AddWriteFails
    <3>2. CASE AddWrite
      BY <3>2, WriteFacts
    <3> QED BY <1>6, <3>1, <3>2
  <2>4. Len(file'[r]) + MayForget(r) <= base + (counts[r] + Pending(r)')
    <3>1. Len(file[r]) + MayForget(r) <= base + counts[r]
      BY <1>2, <1>4, <2>1
    <3>2. CASE Len(file'[r]) = Len(file[r])
      BY <1>4, <2>2, <3>1, <3>2
    <3>3. CASE RegionOf[event] = r /\ Len(file'[r]) = Len(file[r]) + 1
      BY <1>4, <2>2, <3>1, <3>3
    <3> QED BY <2>3, <3>2, <3>3
  <2>5. CountLow(r)'
    BY <1>2, <2>1 DEF CountLow
  <2>6. Fits(r, base)'
    BY <1>3, <2>1, <2>4 DEF Fits
  <2> QED BY <2>5, <2>6
<1>7. CASE AddCount
  <2>1. UNCHANGED file /\ Pending(r)' = 0
    BY <1>7 DEF AddCount, Pending, fileVars
  <2>2. CASE RegionOf[event] # r
    <3>1. counts'[r] = counts[r] /\ Pending(r) = 0 /\ ~PostFlushing(r)'
      BY <1>1, <1>7, <2>2, Goroutines DEF AddCount, Pending, PostFlushing, TypeOK
    <3> QED BY <1>2, <1>3, <1>4, <2>1, <3>1 DEF CountLow, Fits, BeforeTruncation
  <2>3. CASE RegionOf[event] = r
    <3>1. counts'[r] = counts[r] + 1 /\ Pending(r) = 1
      BY <1>7, <2>3 DEF AddCount, Pending, TypeOK
    <3>2. Len(file[r]) + MayForget(r) <= base + counts'[r] /\ counts'[r] <= maxCount
      BY <1>2, <1>4, <3>1
    <3>3. CASE apc' = "postflush"
      <4>1. PostFlushing(r)' /\ BeforeTruncation(r)'
        BY <1>7, <2>3, <3>3, Goroutines DEF AddCount, PostFlushing, BeforeTruncation, TypeOK
      <4> QED BY <1>3, <1>4, <2>1, <3>1, <3>2, <4>1 DEF CountLow, Fits
    <3>4. CASE apc' # "postflush"
      <4>1. ~PostFlushing(r)' /\ counts'[r] < maxCount
        BY <1>4, <1>7, <2>3, <3>1, <3>4 DEF AddCount, PostFlushing, Reached
      <4> QED BY <1>3, <1>4, <2>1, <3>1, <3>2, <4>1 DEF CountLow, Fits, BeforeTruncation
    <3> QED BY <3>3, <3>4
  <2> QED BY <2>2, <2>3
<1> QED BY <1>5, <1>6, <1>7 DEF Add

\* The handler's flush is the one of its event's region.
LEMMA HandlerTarget ==
  ASSUME NEW r, Target(Handler) # r
  PROVE  ~PostFlushing(r) /\ ~BeforeTruncation(r)
  BY DEF Target, PostFlushing, BeforeTruncation

\* A flush that does not touch the file or the counters of r.
LEMMA SlackElsewhere ==
  ASSUME TypeOK, NEW base, NEW r \in Regions, NEW t \in Threads, FlushStep(t), Target(t) # r,
         CountLow(r), Fits(r, base)
  PROVE  CountLow(r)' /\ Fits(r, base)'
<1>1. UNCHANGED <<apc, event>> /\ t \notin {<<"ticker", r>>, <<"stop", r>>}
  BY FlushMoves, Goroutines DEF addVars
<1>2. \A u \in {<<"ticker", r>>, <<"stop", r>>} : fpc'[u] = fpc[u]
  <2>1. {<<"ticker", r>>, <<"stop", r>>} \subseteq Threads \ {t}
    BY <1>1, RegionGoroutines
  <2> QED BY <2>1, FlushMoves
<1>3. MayForget(r)' = MayForget(r) /\ Pending(r)' = Pending(r)
  BY <1>1, <1>2, ForgetFrame DEF Pending
<1>4. counts'[r] = counts[r] /\ file'[r] = file[r]
  <2>1. counts'[r] = counts[r]
    BY DEF FlushStep, FlushSkipped, FlushOpenFails, Scan, SendBatch, Truncate, TruncateFails, ResetCounters,
       countVars, TypeOK
  <2> QED BY <2>1, FlushFiles
<1>5. (PostFlushing(r)' <=> PostFlushing(r)) /\ (BeforeTruncation(r)' <=> BeforeTruncation(r))
  <2>1. CASE t = Handler
    BY <1>1, <2>1 DEF Target, PostFlushing, BeforeTruncation
  <2>2. CASE t # Handler
    BY <1>1, <2>2, FlushMoves, Goroutines DEF PostFlushing, BeforeTruncation
  <2> QED BY <2>1, <2>2
<1>6. CountLow(r)'
  BY <1>4, <1>5 DEF CountLow
<1>7. Fits(r, base)'
  BY <1>3, <1>4, <1>5 DEF Fits
<1> QED BY <1>6, <1>7

\* Steps of a flush of r before its truncation.
LEMMA SlackBefore ==
  ASSUME TypeOK, FileThere, ~done, NEW t \in Threads, FlushSkipped(t) \/ Scan(t) \/ SendBatch(t),
         NEW base, NEW r \in Regions, Target(t) = r, CountLow(r), Fits(r, base)
  PROVE  CountLow(r)' /\ Fits(r, base)'
<1>1. UNCHANGED <<apc, event, file, counts>>
  BY DEF FlushSkipped, Scan, SendBatch, fileVars, countVars, addVars
<1>2. /\ \A u \in Threads \ {t} : fpc'[u] = fpc[u]
      /\ fpc[t] \in {"open", "sending"} /\ fpc'[t] \in {"idle", "sending", "truncate"}
      /\ fpc'[t] = "idle" <=> FlushSkipped(t)
  <2>1. CASE Scan(t)
    BY <2>1, ScanFacts DEF Scan, FlushSkipped, TypeOK
  <2>2. CASE FlushSkipped(t) \/ SendBatch(t)
    BY <2>2 DEF FlushSkipped, SendBatch, TypeOK
  <2> QED BY <2>1, <2>2
<1>3. MayForget(r)' = MayForget(r) /\ Pending(r)' = Pending(r)
  <2>1. MayForget(r)' = MayForget(r)
    <3>1. \A u \in Threads : fpc'[u] = fpc[u] \/ (fpc[u] # "reset" /\ fpc'[u] # "reset")
      BY <1>2
    <3> QED BY <3>1, RegionGoroutines, ForgetFrame
  <2> QED BY <1>1, <2>1 DEF Pending
<1>4. (PostFlushing(r)' <=> PostFlushing(r)) /\ (BeforeTruncation(r)' <=> BeforeTruncation(r))
  <2>1. CASE t # Handler
    BY <1>1, <1>2, <2>1, Goroutines DEF PostFlushing, BeforeTruncation
  <2>2. CASE t = Handler /\ FlushSkipped(t)
    <3>1. RegionOf[event] = r /\ r \notin exists
      BY <2>2 DEF FlushSkipped, Target
    <3>2. apc # "postflush"
      BY <3>1 DEF FileThere
    <3> QED BY <1>1, <3>2 DEF PostFlushing, BeforeTruncation
  <2>3. CASE t = Handler /\ ~FlushSkipped(t)
    BY <1>1, <1>2, <2>3 DEF PostFlushing, BeforeTruncation
  <2> QED BY <2>1, <2>2, <2>3
<1>5. CountLow(r)'
  BY <1>1, <1>4 DEF CountLow
<1>6. Fits(r, base)'
  BY <1>1, <1>3, <1>4 DEF Fits
<1> QED BY <1>5, <1>6

\* A truncation leaves nothing to forget but what comes after it.
LEMMA SlackTruncate ==
  ASSUME TypeOK, NEW t \in Threads, Truncate(t), maxCount > 0,
         NEW r \in Regions, Target(t) = r, CountLow(r),
         MayForget(r)' \in Nat, MayForget(r)' <= Forgettable, Forgettable \in Nat
  PROVE  CountLow(r)' /\ Fits(r, Forgettable)'
<1>1. UNCHANGED <<apc, event, counts>> /\ file'[r] = <<>>
  BY DEF Truncate, countVars, addVars, TypeOK
<1>2. PostFlushing(r)' <=> PostFlushing(r)
  BY <1>1, Goroutines DEF Truncate, TypeOK, PostFlushing
<1>3. maxCount \in Nat /\ counts[r] \in Nat /\ Pending(r)' \in {0, 1} /\ Len(<<>>) = 0
  BY SlackNumbers DEF Pending
<1>4. CountLow(r)'
  BY <1>1, <1>2 DEF CountLow
<1>5. Fits(r, Forgettable)'
  <2>1. CASE BeforeTruncation(r)'
    BY <1>1, <1>3, <2>1 DEF Fits
  <2>2. CASE ~BeforeTruncation(r)'
    BY <1>1, <1>3, <2>2 DEF Fits
  <2> QED BY <2>1, <2>2
<1> QED BY <1>4, <1>5

\* A reset that forgets c lines under the limit was going to forget more.
LEMMA ForgottenOnce ==
  ASSUME NEW len \in Nat, NEW before \in Nat, NEW after \in Nat, NEW all \in Nat,
         NEW c \in Nat, NEW limit \in Nat, NEW pending \in Nat,
         after + (limit - 1) = before, c < limit, len + before <= all + (c + pending)
  PROVE  len + after <= all + pending
  OBVIOUS

\* A reset forgets no more than it was going to.
LEMMA SlackReset ==
  ASSUME TypeOK, ResetEmpty, HandlerPlace, NEW t \in Threads, ResetCounters(t), maxCount > 0,
         NEW r \in Regions \ faulty, Target(t) = r, CountLow(r), Fits(r, Forgettable),
         MayForget(r) \in Nat, MayForget(r) <= Forgettable, Forgettable \in Nat
  PROVE  CountLow(r)' /\ Fits(r, Forgettable)'
<1>1. UNCHANGED <<apc, event, file>> /\ counts'[r] = 0
  BY DEF ResetCounters, fileVars, addVars, TypeOK
<1>2. maxCount \in Nat /\ counts[r] \in Nat /\ Len(file[r]) \in Nat /\ Pending(r) \in {0, 1}
      /\ Pending(r)' = Pending(r)
  BY <1>1, SlackNumbers DEF Pending
<1>3. CountLow(r)'
  BY <1>1, <1>2 DEF CountLow
<1>4. CASE t = Handler
  <2>1. MayForget(r)' = MayForget(r)
    <3>1. FlushStep(t) /\ {<<"ticker", r>>, <<"stop", r>>} \subseteq Threads \ {t}
      BY <1>4, RegionGoroutines DEF FlushStep
    <3>2. \A u \in {<<"ticker", r>>, <<"stop", r>>} : fpc'[u] = fpc[u]
      BY <3>1, FlushMoves
    <3> QED BY <3>2, ForgetFrame
  <2>2. Len(file[r]) = 0
    BY <1>4 DEF ResetCounters, ResetEmpty, Target
  <2>3. ~BeforeTruncation(r)'
    BY <1>4 DEF ResetCounters, BeforeTruncation, TypeOK
  <2>4. Fits(r, Forgettable)'
    BY <1>1, <1>2, <2>1, <2>2, <2>3 DEF Fits
  <2> QED BY <1>3, <2>4
<1>5. CASE t # Handler
  <2>1. fpc'[Handler] = fpc[Handler]
    BY <1>5, FlushMoves, Goroutines DEF FlushStep
  <2>2. MayForget(r)' + (maxCount - 1) = MayForget(r) /\ MayForget(r)' \in Nat
    <3>1. t \in {<<"ticker", r>>, <<"stop", r>>} /\ fpc[t] = "reset" /\ fpc'[t] = "idle"
          /\ <<"ticker", r>> # <<"stop", r>>
      BY <1>5, Goroutines DEF ResetCounters, TypeOK
    <3>2. FlushStep(t) /\ {<<"ticker", r>>, <<"stop", r>>} \ {t} \subseteq Threads \ {t}
      BY RegionGoroutines DEF FlushStep
    <3>3. \A u \in {<<"ticker", r>>, <<"stop", r>>} \ {t} : fpc'[u] = fpc[u]
      BY <3>2, FlushMoves
    <3> QED BY <1>2, <3>1, <3>3 DEF MayForget, Forgets
  <2>3. BeforeTruncation(r)' <=> BeforeTruncation(r)
    BY <1>1, <2>1 DEF BeforeTruncation, PostFlushing
  <2>4. CASE BeforeTruncation(r)
    <3>1. Len(file[r]) + MayForget(r) <= Forgettable + maxCount
      BY <2>4 DEF Fits
    <3>2. Len(file[r]) + MayForget(r)' <= Forgettable + maxCount
      BY <1>2, <2>2, <3>1
    <3>3. Fits(r, Forgettable)'
      BY <1>1, <2>3, <2>4, <3>2 DEF Fits
    <3> QED BY <1>3, <3>3
  <2>5. CASE ~BeforeTruncation(r)
    <3>1. Len(file[r]) + MayForget(r)' <= Forgettable + Pending(r)
      <4>1. CASE PostFlushing(r)
        <5>1. fpc[Handler] = "reset" /\ Len(file[r]) = 0
          BY <2>5, <4>1, Goroutines DEF PostFlushing, BeforeTruncation, TypeOK, ResetEmpty
        <5> QED BY <1>2, <2>2, <5>1
      <4>2. CASE ~PostFlushing(r)
        <5>1. counts[r] < maxCount
          BY <4>2 DEF CountLow
        <5>2. Len(file[r]) + MayForget(r) <= Forgettable + (counts[r] + Pending(r))
          BY <2>5 DEF Fits
        <5>3. Pending(r) \in Nat
          BY <1>2
        <5> QED BY <1>2, <2>2, <5>1, <5>2, <5>3, ForgottenOnce
      <4> QED BY <4>1, <4>2
    <3>2. 0 + Pending(r) = Pending(r)
      BY <1>2
    <3>3. Fits(r, Forgettable)'
      BY <1>1, <1>2, <2>3, <2>5, <3>1, <3>2 DEF Fits
    <3> QED BY <1>3, <3>3
  <2> QED BY <2>4, <2>5
<1> QED BY <1>4, <1>5

\* Steps that start flushes forget nothing.
LEMMA SlackControl ==
  ASSUME TypeOK, maxCount > 0, Control, NEW base \in Nat,
         NEW r \in Regions, CountLow(r), Fits(r, base), MayForget(r) \in Nat
  PROVE  CountLow(r)' /\ Fits(r, base)'
<1>1. UNCHANGED <<apc, event, file, counts>> /\ fpc'[Handler] = fpc[Handler]
  BY ControlMoves DEF fileVars, countVars, addVars
<1>2. (PostFlushing(r)' <=> PostFlushing(r)) /\ (BeforeTruncation(r)' <=> BeforeTruncation(r))
      /\ Pending(r)' = Pending(r)
  BY <1>1 DEF PostFlushing, BeforeTruncation, Pending
<1>3. maxCount \in Nat /\ counts[r] \in Nat /\ Len(file[r]) \in Nat /\ Pending(r) \in {0, 1}
  BY SlackNumbers
<1>4. MayForget(r)' \in Nat /\ MayForget(r)' <= MayForget(r)
  <2>1. \A t \in {<<"ticker", r>>, <<"stop", r>>} : fpc'[t] \in {fpc[t], "open"}
    BY ControlMoves, Goroutines
  <2> QED BY <1>3, <2>1 DEF MayForget, Forgets
<1>5. CountLow(r)'
  BY <1>1, <1>2 DEF CountLow
<1>6. CASE BeforeTruncation(r)
  <2>1. Len(file[r]) + MayForget(r)' <= base + maxCount
    BY <1>3, <1>4, <1>6 DEF Fits
  <2>2. Fits(r, base)'
    BY <1>1, <1>2, <1>6, <2>1 DEF Fits
  <2> QED BY <1>5, <2>2
<1>7. CASE ~BeforeTruncation(r)
  <2>1. Len(file[r]) + MayForget(r)' <= base + (counts[r] + Pending(r))
    BY <1>3, <1>4, <1>7 DEF Fits
  <2>2. Fits(r, base)'
    BY <1>1, <1>2, <1>7, <2>1 DEF Fits
  <2> QED BY <1>5, <2>2
<1> QED BY <1>6, <1>7

\* A context that is done stays done.
LEMMA DoneStays ==
  ASSUME TypeOK, [Next]_vars, done
  PROVE  done'
<1>1. CASE UNCHANGED vars
  BY <1>1 DEF vars, ctlVars, stopVars, done
<1>2. CASE Add
  BY <1>2, AddMoves DEF ctlVars, stopVars, done
<1>3. ASSUME NEW t \in Threads, FlushStep(t)
      PROVE  done'
  BY <1>3, FlushMoves DEF ctlVars, stopVars, done
<1>4. CASE Control
  BY <1>4 DEF Control, Tick, TickFlush, TickFlushed, TickerExit, StopCall, SnapshotRegions, StopReturns,
     ParentCancel, stopVars, done
<1> QED BY <1>1, <1>2, <1>3, <1>4 DEF Next, Control

\* A fault is remembered.
LEMMA FaultyStays ==
  ASSUME TypeOK, [Next]_vars
  PROVE  faulty \subseteq faulty'
<1>1. CASE UNCHANGED vars
  BY <1>1 DEF vars, flushVars, faultVars
<1>2. CASE Add \/ Control
  BY <1>2, AddMoves, ControlMoves DEF faultVars
<1>3. ASSUME NEW t \in Threads, FlushStep(t)
      PROVE  faulty \subseteq faulty'
  BY <1>3, FlushMoves
<1> QED BY <1>1, <1>2, <1>3 DEF Next, Control

\* Only a truncation ends the time when nothing of r is forgotten.
LEMMA UntouchedStep ==
  ASSUME TypeOK, HandlerPlace, [Next]_vars, NEW r \in Regions, Untouched(r),
         \A t \in Threads : Target(t) = r => ~Truncate(t) /\ ~TruncateFails(t)
  PROVE  Untouched(r)'
<1> SUFFICES ASSUME NEW t \in Threads, fpc'[t] = "reset"
             PROVE  Target(t)' # r
  BY DEF Untouched
<1>1. CASE UNCHANGED vars
  <2>1. fpc[t] = "reset" /\ Target(t)' = Target(t)
    BY <1>1, TargetKept DEF vars, flushVars, addVars
  <2> QED BY <2>1 DEF Untouched
<1>2. CASE Add
  <2>1. t # Handler /\ fpc[t] = "reset" /\ Target(t)' = Target(t)
    BY <1>2, AddMoves, AddWaits, TargetKept
  <2> QED BY <2>1 DEF Untouched
<1>3. ASSUME NEW u \in Threads, FlushStep(u)
      PROVE  Target(t)' # r
  <2>1. Target(t)' = Target(t)
    BY <1>3, FlushMoves, TargetKept DEF addVars
  <2>2. CASE fpc[t] = "reset"
    BY <2>1, <2>2 DEF Untouched
  <2>3. CASE fpc[t] # "reset"
    <3>1. u = t /\ fpc[t] # "idle"
      BY <1>3, <2>3, FlushMoves
    <3>2. ~Scan(t)
      BY <3>1, TargetRegion, ScanFacts
    <3>3. Truncate(t) \/ TruncateFails(t)
      BY <1>3, <2>3, <3>1, <3>2 DEF FlushStep, FlushSkipped, FlushOpenFails, SendBatch, ResetCounters, TypeOK
    <3> QED BY <2>1, <3>3
  <2> QED BY <2>2, <2>3
<1>4. CASE Control
  <2>1. fpc[t] = "reset" /\ Target(t)' = Target(t)
    BY <1>4, ControlMoves, TargetKept DEF addVars
  <2> QED BY <2>1 DEF Untouched
<1> QED BY <1>1, <1>2, <1>3, <1>4 DEF Next, Control

\* A step that keeps what fits, whatever it is measured against, and truncates
\* nothing, keeps the file fitting.
LEMMA FileFitsKept ==
  ASSUME TypeOK, HandlerPlace, [Next]_vars, NEW r \in Regions, FileFits(r), Forgettable \in Nat,
         \A t \in Threads : Target(t) = r => ~Truncate(t) /\ ~TruncateFails(t),
         \A base \in Nat : Fits(r, base) => CountLow(r)' /\ Fits(r, base)'
  PROVE  CountLow(r)' /\ FileFits(r)'
<1>1. CASE Fits(r, Forgettable)
  BY <1>1 DEF FileFits
<1>2. CASE Untouched(r) /\ Fits(r, Len(Left[r]))
  <2>1. Len(Left[r]) \in Nat
    BY FileBatcherAssumption, LenProperties
  <2>2. Untouched(r)'
    BY <1>2, UntouchedStep
  <2> QED BY <1>2, <2>1, <2>2 DEF FileFits
<1> QED BY <1>1, <1>2 DEF FileFits

\* The counters forget no more than the overlapping resets account for.
LEMMA SlackStep ==
  ASSUME TypeOK, HandlerPlace, FileThere, StopWorks, NeverStopped, ResetEmpty, Slack, [Next]_vars
  PROVE  Slack'
<1> SUFFICES ASSUME maxCount > 0, ~done', NEW r \in Regions \ faulty'
             PROVE  CountLow(r)' /\ FileFits(r)'
  BY DEF Slack
<1>1. ~done /\ r \in Regions \ faulty /\ CountLow(r) /\ FileFits(r)
  BY DoneStays, FaultyStays DEF Slack
<1>2. StopWorks' /\ NeverStopped'
  BY StopWorksStep
<1>3. /\ MayForget(r) \in Nat /\ MayForget(r) <= Forgettable /\ Forgettable \in Nat
      /\ MayForget(r)' \in Nat /\ MayForget(r)' <= Forgettable
  BY <1>2, ForgetBound, ForgetBoundNext
<1>4. CASE UNCHANGED vars
  <2>1. UNCHANGED <<file, counts, apc, event, fpc>>
    BY <1>4 DEF vars, fileVars, countVars, addVars, flushVars
  <2>2. \A base \in Nat : Fits(r, base) => CountLow(r)' /\ Fits(r, base)'
    BY <1>1, <2>1 DEF CountLow, Fits, PostFlushing, BeforeTruncation, Pending, MayForget, Forgets
  <2>3. \A t \in Threads : ~Truncate(t) /\ ~TruncateFails(t)
    BY <2>1 DEF Truncate, TruncateFails, TypeOK
  <2> QED BY <1>1, <1>3, <2>2, <2>3, FileFitsKept
<1>5. CASE Add
  <2>1. \A base \in Nat : Fits(r, base) => CountLow(r)' /\ Fits(r, base)'
    BY <1>1, <1>3, <1>5, SlackAdd
  <2>2. \A t \in Threads : ~Truncate(t) /\ ~TruncateFails(t)
    <3>1. \A t \in Threads : fpc'[t] # fpc[t] => fpc'[t] = "open"
      BY <1>5, AddMoves
    <3> QED BY <3>1 DEF Truncate, TruncateFails, TypeOK
  <2> QED BY <1>1, <1>3, <2>1, <2>2, FileFitsKept
<1>6. ASSUME NEW t \in Threads, FlushStep(t)
      PROVE  CountLow(r)' /\ FileFits(r)'
  <2>0. \A u \in Threads : Truncate(u) \/ TruncateFails(u) => u = t
    BY <1>6, FlushMoves DEF Truncate, TruncateFails, TypeOK
  <2>1. CASE Target(t) # r
    <3>1. \A base \in Nat : Fits(r, base) => CountLow(r)' /\ Fits(r, base)'
      BY <1>1, <1>6, <2>1, SlackElsewhere
    <3> QED BY <1>1, <1>3, <2>0, <2>1, <3>1, FileFitsKept
  <2>2. CASE Target(t) = r /\ Truncate(t)
    BY <1>1, <1>3, <2>2, SlackTruncate DEF FileFits
  <2>3. CASE Target(t) = r /\ ResetCounters(t)
    <3>1. Fits(r, Forgettable)
      BY <1>1, <2>3 DEF FileFits, Untouched, ResetCounters
    <3> QED BY <1>1, <1>3, <2>3, <3>1, SlackReset DEF FileFits
  <2>4. CASE Target(t) = r /\ (FlushSkipped(t) \/ Scan(t) \/ SendBatch(t))
    <3>1. \A base \in Nat : Fits(r, base) => CountLow(r)' /\ Fits(r, base)'
      BY <1>1, <2>4, SlackBefore
    <3>2. ~Truncate(t) /\ ~TruncateFails(t)
      BY <2>4 DEF FlushSkipped, Scan, SendBatch, Truncate, TruncateFails
    <3> QED BY <1>1, <1>3, <2>0, <3>1, <3>2, FileFitsKept
  <2>5. CASE Target(t) = r /\ (FlushOpenFails(t) \/ TruncateFails(t))
    BY <2>5 DEF FlushOpenFails, TruncateFails, Fault
  <2> QED BY <1>6, <2>1, <2>2, <2>3, <2>4, <2>5 DEF FlushStep
<1>7. CASE Control
  <2>1. \A base \in Nat : Fits(r, base) => CountLow(r)' /\ Fits(r, base)'
    BY <1>1, <1>3, <1>7, SlackControl
  <2>2. \A t \in Threads : ~Truncate(t) /\ ~TruncateFails(t)
    <3>1. \A t \in Threads : fpc'[t] # fpc[t] => fpc'[t] = "open"
      BY <1>7, ControlMoves
    <3> QED BY <3>1 DEF Truncate, TruncateFails, TypeOK
  <2> QED BY <1>1, <1>3, <2>1, <2>2, FileFitsKept
<1> QED BY <1>4, <1>5, <1>6, <1>7 DEF Next, Control

\* A file that fits has no more lines than the limit and what it is measured
\* against.
LEMMA FitsBound ==
  ASSUME TypeOK, StopWorks, NeverStopped, maxCount > 0, NEW base \in Nat,
         NEW r \in Regions, CountLow(r), Fits(r, base)
  PROVE  Len(file[r]) <= maxCount + base
<1>1. MayForget(r) \in Nat
  BY ForgetBound
<1>2. maxCount \in Nat /\ counts[r] \in Nat /\ Len(file[r]) \in Nat /\ Pending(r) \in {0, 1}
  BY SlackNumbers
<1>3. CASE BeforeTruncation(r)
  <2>1. Len(file[r]) + MayForget(r) <= base + maxCount
    BY <1>3 DEF Fits
  <2> QED BY <1>1, <1>2, <2>1
<1>4. CASE ~BeforeTruncation(r)
  <2>1. Len(file[r]) + MayForget(r) <= base + (counts[r] + Pending(r))
    BY <1>4 DEF Fits
  <2>2. counts[r] + Pending(r) <= maxCount
    <3>1. CASE PostFlushing(r)
      <4>1. counts[r] <= maxCount /\ Pending(r) = 0
        BY <3>1 DEF CountLow, PostFlushing, Pending
      <4> QED BY <1>2, <4>1
    <3>2. CASE ~PostFlushing(r)
      <4>1. counts[r] < maxCount
        BY <3>2 DEF CountLow
      <4> QED BY <1>2, <4>1
    <3> QED BY <3>1, <3>2
  <2> QED BY <1>1, <1>2, <2>1, <2>2
<1> QED BY <1>3, <1>4

\* So no file that is scanned is longer than the limit and what is forgotten.
LEMMA BatchSlackStep ==
  ASSUME TypeOK, HandlerPlace, StopWorks, NeverStopped, Slack, BatchSlack, [Next]_vars
  PROVE  BatchSlack'
<1> SUFFICES ASSUME maxCount > 0, NEW u \in Threads, fpc'[u] \in {"sending", "truncate", "reset"}
             PROVE  \/ Len(fbatch'[u]) <= maxCount + Others * (maxCount - 1)
                    \/ Len(fbatch'[u]) <= maxCount + Len(Left[Target(u)'])
                    \/ Target(u)' \in faulty'
  BY DEF BatchSlack
<1>0. faulty \subseteq faulty' /\ maxCount \in Nat /\ Others * (maxCount - 1) = Forgettable
  BY FaultyStays, FileBatcherAssumption DEF Others, Forgettable
<1>1. CASE Scan(u)
  <2>1. PICK r \in Regions : r = Target(u) /\ r = Target(u)'
    <3>1. UNCHANGED event
      BY <1>1 DEF Scan, addVars
    <3> QED BY <1>1, <3>1, TargetRegion, TargetKept DEF Scan
  <2>2. Len(fbatch'[u]) <= Len(file[r]) /\ fbatch'[u] \in Seq(Line)
    BY <1>1, <2>1, ScanFacts
  <2>3. r \in faulty \/ (CountLow(r) /\ FileFits(r))
    BY <1>1 DEF Scan, Slack
  <2>4. Len(fbatch'[u]) \in Nat /\ Len(file[r]) \in Nat /\ Forgettable \in Nat /\ Len(Left[r]) \in Nat
    BY <2>2, Lines, ForgetBound, LenProperties, FileBatcherAssumption
  <2>5. CASE CountLow(r) /\ Fits(r, Forgettable)
    <3>1. Len(file[r]) <= maxCount + Forgettable
      BY <2>4, <2>5, FitsBound
    <3> QED BY <1>0, <2>2, <2>4, <3>1
  <2>6. CASE CountLow(r) /\ Fits(r, Len(Left[r]))
    <3>1. Len(file[r]) <= maxCount + Len(Left[r])
      BY <2>4, <2>6, FitsBound
    <3> QED BY <1>0, <2>1, <2>2, <2>4, <3>1
  <2> QED BY <1>0, <2>1, <2>3, <2>5, <2>6 DEF FileFits
<1>2. CASE ~Scan(u)
  <2>1. Target(u)' = Target(u) /\ fbatch'[u] = fbatch[u] /\ fpc[u] \in {"sending", "truncate", "reset"}
    <3>1. CASE UNCHANGED vars
      BY <3>1, TargetKept DEF vars, addVars, flushVars, scanVars
    <3>2. CASE Add
      BY <3>2, AddMoves, AddWaits, TargetKept DEF scanVars
    <3>3. ASSUME NEW t \in Threads, FlushStep(t)
          PROVE  Target(u)' = Target(u) /\ fbatch'[u] = fbatch[u]
                 /\ fpc[u] \in {"sending", "truncate", "reset"}
      <4>1. Target(u)' = Target(u)
        BY <3>3, FlushMoves, TargetKept DEF addVars
      <4>2. CASE t # u
        BY <3>3, <4>1, <4>2, FlushMoves
      <4>3. CASE t = u
        BY <1>2, <3>3, <4>1, <4>3
        DEF FlushStep, FlushSkipped, FlushOpenFails, SendBatch, Truncate, TruncateFails, ResetCounters,
            TypeOK, scanVars
      <4> QED BY <4>2, <4>3
    <3>4. CASE Control
      BY <3>4, ControlMoves, TargetKept DEF addVars, scanVars
    <3> QED BY <3>1, <3>2, <3>3, <3>4 DEF Next, Control
  <2> QED BY <1>0, <2>1 DEF BatchSlack
<1> QED BY <1>1, <1>2

-----------------------------------------------------------------------------
(* The theorems.                                                           *)

\* The invariant holds initially.
LEMMA InitInv == Init => FInv
<1> SUFFICES ASSUME Init PROVE FInv
  OBVIOUS
<1>1. TypeOK
  BY InitTypes
<1>2. \A t \in Threads : fpc[t] = "idle" /\ fbatch[t] = <<>>
  BY DEF Init
<1>3. ToSet(<<>>) = {}
  BY EmptySeq, ElementsEmpty
<1>4. \A r \in Regions : /\ r \notin exists => file[r] = <<>>
                         /\ Records(file[r]) \subseteq leftover
  BY <1>3 DEF Init, Records
<1>5. HandlerPlace /\ FileThere /\ Seen /\ ResetEmpty
  BY <1>2, <1>4, Goroutines DEF Init, HandlerPlace, FileThere, Seen, ResetEmpty
<1>6. /\ added = leftover /\ beforeStop = {} /\ event = None /\ apc = "idle" /\ stop = "no"
  BY DEF Init
<1>7. \A e \in Events : e # Torn /\ RegionOf[e] \in Regions
  BY FileBatcherAssumption
<1>8. Fresh /\ Uncounted /\ StopOwes /\ NeverStopped
  BY <1>4, <1>6, <1>7 DEF Fresh, Unwritten, Uncounted, StopOwes, NeverStopped, Records
<1>9. AllKept
  <2> SUFFICES ASSUME NEW e \in added PROVE e \in ToSet(file[RegionOf[e]])
    BY DEF AllKept, Kept
  <2>1. PICK r \in exists : e \in Records(Left[r])
    BY DEF Init
  <2>2. r \in Regions /\ file[r] = Left[r] /\ e \in ToSet(Left[r]) /\ e \in Events
    BY <1>1, <2>1 DEF Init, Records, TypeOK
  <2>3. RegionOf[e] = r
    BY <2>2, FileBatcherAssumption
  <2> QED BY <2>2, <2>3
<1>10. StopWorks
  BY <1>2 DEF StopWorks, Threads
<1>11. Slack
  <2> SUFFICES ASSUME maxCount > 0, NEW r \in Regions
               PROVE  CountLow(r) /\ FileFits(r)
    BY DEF Slack
  <2>1. counts[r] = 0 /\ Pending(r) = 0 /\ maxCount \in Nat /\ ~PostFlushing(r) /\ ~BeforeTruncation(r)
    BY FileBatcherAssumption DEF Init, Pending, PostFlushing, BeforeTruncation
  <2>2. MayForget(r) = 0 /\ Untouched(r)
    BY <1>2, Goroutines DEF MayForget, Forgets, Untouched
  <2>3. Len(Left[r]) \in Nat /\ Len(<<>>) = 0
    BY FileBatcherAssumption, LenProperties
  <2>4. Len(file[r]) \in Nat /\ Len(file[r]) <= Len(Left[r])
    BY <2>3 DEF Init
  <2> QED BY <2>1, <2>2, <2>3, <2>4 DEF CountLow, FileFits, Fits
<1>12. BatchSlack
  BY <1>2 DEF BatchSlack
<1> QED BY <1>1, <1>5, <1>8, <1>9, <1>10, <1>11, <1>12 DEF FInv

\* Every step keeps the invariant.
LEMMA InvStep == FInv /\ [Next]_vars => FInv'
<1> SUFFICES ASSUME FInv, [Next]_vars PROVE FInv'
  OBVIOUS
<1>1. TypeOK' /\ HandlerPlace' /\ FileThere' /\ Fresh' /\ Seen' /\ AllKept'
  BY TypesStep, HandlerPlaceStep, FileThereStep, FreshStep, SeenStep, AllKeptStep DEF FInv
<1>2. Uncounted' /\ StopWorks' /\ NeverStopped' /\ StopOwes' /\ ResetEmpty'
  BY UncountedStep, StopWorksStep, StopOwesStep, ResetEmptyStep DEF FInv
<1>3. Slack' /\ BatchSlack'
  BY SlackStep, BatchSlackStep DEF FInv
<1> QED BY <1>1, <1>2, <1>3 DEF FInv

\* The invariant holds in every reachable state.
LEMMA FInvariant == Spec => []FInv
  BY InitInv, InvStep, PTL DEF Spec

\* Every variable keeps its type, and Add has an event in hand exactly while it
\* is at work (filebatcher.go, Add).
THEOREM BatcherTypes == Spec => []TypeOK
<1>1. FInv => TypeOK
  BY DEF FInv
<1> QED BY <1>1, FInvariant, PTL

\* Until an open or a truncation fails, no scan reads more lines than maxCount
\* and what each concurrent flush of the region can make the counters forget, or
\* than maxCount and what an earlier process left, for every limit, record size
\* and number of regions (filebatcher.go, Add's thresholds and flushRegion's
\* reset).
THEOREM BatchesBounded == Spec => []BatchSlack
<1>1. FInv => BatchSlack
  BY DEF FInv
<1> QED BY <1>1, FInvariant, PTL

\* An event that is in no file and that no flush has read did not open its file,
\* was not all written, shares its line, was appended between the scan and the
\* truncation of another goroutine's flush or was behind a place where a scan
\* failed (filebatcher.go, Add and flushRegion).
THEOREM LossIsExplained == Spec => []LossExplained
<1>1. FInv => LossExplained
  BY DEF FInv, AllKept, Kept, Unwritten, LossExplained
<1> QED BY <1>1, FInvariant, PTL

\* A Stop that was not overtaken by the parent's cancellation returns with
\* everything it found out of the files that it could open and truncate, but for
\* the lines of regions that had no counter when it looked (filebatcher.go,
\* Stop).
THEOREM StopLeavesNothing == Spec => []StopEmpties
<1>1. FInv => StopEmpties
  <2> SUFFICES ASSUME FInv, stop = "returned", ~cancelled, NEW e \in beforeStop
               PROVE  LET r == RegionOf[e] IN
                        \/ e \notin ToSet(file[r])
                        \/ r \in spared
                        \/ r \notin snapshot /\ e \in leftover \cup adding
    BY DEF StopEmpties
  <2>1. RegionOf[e] \in Regions
    BY FileBatcherAssumption DEF FInv, TypeOK
  <2>2. fpc[<<"stop", RegionOf[e]>>] = "idle"
    BY <2>1, Goroutines DEF FInv, StopWorks
  <2> QED BY <2>2 DEF FInv, StopOwes, Owed
<1> QED BY <1>1, FInvariant, PTL

=============================================================================
