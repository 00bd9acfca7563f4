---------------------------- MODULE CTFileBatcher ----------------------------
(***************************************************************************)
(* CTFileBatcher (internal/emfbatcher/cloudtrail): CloudTrail events are   *)
(* appended to one file per region, counted in memory, and flushed when a  *)
(* threshold is reached, on a tick, or by Stop.                            *)
(*                                                                         *)
(* The mutex protects the counters only.  Nothing orders the file          *)
(* operations of the goroutine that adds, of the ticker's goroutines and   *)
(* of Stop's: a flush scans the file, sends the records, truncates the     *)
(* file and resets the counters in four steps.                             *)
(*                                                                         *)
(* A file is a sequence of lines, each an event's record or something that *)
(* does not parse, and its last line may lack its newline.  Opens, writes, *)
(* reads and truncations may fail.  A scan is one step: the file is seen   *)
(* as it is at one moment, up to where reading fails.  An empty line is    *)
(* skipped by every scan and is left out.  The EMF record is the event     *)
(* itself; building it cannot fail for these inputs.                       *)
(***************************************************************************)
EXTENDS Integers, Sequences, SequencesExt, FiniteSetsExt

CONSTANTS Events,
          Regions,
          RegionOf,        \* the event's awsRegion
          RecSize,         \* bytes of its record and the newline
          maxCount,        \* 0: no limit
          maxBytes,        \* 0: no limit
          Stops,           \* Stop may be called (no program calls it)
          ParentCancels,   \* the parent context may be cancelled (it is
                           \* context.Background in the program)
          Fails,           \* the file operations that may fail
          Left,            \* the lines an earlier process may have left in each
                           \* region's file
          Torn,            \* a line that does not parse
          None

ASSUME FileBatcherAssumption ==
  /\ RegionOf \in [Events -> Regions]
  /\ RecSize \in [Events -> Nat \ {0}]
  /\ maxCount \in Nat /\ maxBytes \in Nat
  /\ Stops \in BOOLEAN /\ ParentCancels \in BOOLEAN
  /\ Fails \subseteq {"open", "write", "read", "truncate"}
  /\ None \notin Events /\ Torn \notin Events
  /\ Left \in [Regions -> Seq(Events \cup {Torn})]
  /\ \A r \in Regions, e \in Events : e \in ToSet(Left[r]) => RegionOf[e] = r

\* The goroutines that run flushRegion.
Handler == <<"handler", None>>
TickerFlush == {<<"ticker", r>> : r \in Regions}
StopFlush == {<<"stop", r>> : r \in Regions}
Threads == {Handler} \cup TickerFlush \cup StopFlush

VARIABLES
  file,       \* the lines of each region's file
  cut,        \* the regions whose file ends without a newline
  exists,     \* the regions whose file exists
  counts, sizes,
  known,      \* the keys of the counts map
  apc,        \* where Add is
  event,      \* the event it adds, or None
  fpc,        \* where each goroutine is in flushRegion
  fbatch,     \* what it scanned
  tpc,        \* the ticker goroutine
  tick,       \* the ticker's channel holds a tick
  stop,       \* Stop: "no", "flushing", "returned"
  snapshot,   \* the regions Stop flushes
  cancelled,  \* the parent context is cancelled
  failed,     \* the goroutines whose Flush returned an error, until they truncate
  \* history
  leftover,   \* events whose lines were in the files at the start
  added,      \* events Add was called with, by this process or the earlier one
  logged,     \* events an ERROR line was written for
  unwritten,  \* events of which not all was written (not logged)
  glued,      \* events that share a line with another record (not logged)
  windowed,   \* events appended between another flush's scan and truncation
  scanned,    \* events some flush has read
  unread,     \* events behind the place where a scan failed
  faulty,     \* regions whose file a flush failed to open or to truncate
  spared,     \* those for which Stop's flush failed so
  beforeStop, \* events in the files when Stop took its snapshot
  adding      \* the event that an Add had in hand then

fileVars == <<file, cut, exists, windowed, glued>>
countVars == <<counts, sizes, known>>
heldVars == <<leftover, added, unwritten, logged>>
addVars == <<apc, event, heldVars>>
scanVars == <<fbatch, scanned, unread>>
faultVars == <<faulty, spared>>
flushVars == <<fpc, scanVars, failed, faultVars>>
stopVars == <<stop, snapshot, beforeStop, adding>>
ctlVars == <<tpc, tick, stopVars, cancelled>>
vars == <<fileVars, countVars, addVars, flushVars, ctlVars>>

\* The events among the lines of a file or a batch: those that parse.
Records(lines) == ToSet(lines) \ {Torn}

\* The counters start at zero and the files as an earlier process left them,
\* one that may have ended between the two writes of a line.
Init ==
  /\ exists \in SUBSET Regions
  /\ file = [r \in Regions |-> IF r \in exists THEN Left[r] ELSE <<>>]
  /\ cut \in SUBSET {r \in exists : Left[r] # <<>>}
  /\ counts = [r \in Regions |-> 0] /\ sizes = [r \in Regions |-> 0] /\ known = {}
  /\ apc = "idle" /\ event = None
  /\ fpc = [t \in Threads |-> "idle"] /\ fbatch = [t \in Threads |-> <<>>]
  /\ tpc = "select" /\ tick = FALSE /\ cancelled = FALSE
  /\ stop = "no" /\ snapshot = {} /\ beforeStop = {} /\ adding = {}
  /\ leftover = UNION {Records(Left[r]) : r \in exists} /\ added = leftover
  /\ unwritten = {} /\ glued = {} /\ windowed = {} /\ scanned = {} /\ unread = {}
  /\ failed = {} /\ faulty = {} /\ spared = {} /\ logged = {}

\* fb.ctx is done: the parent's cancellation, or Stop's fb.cancel().
done == cancelled \/ stop = "returned"

\* The region a goroutine flushes.
Target(t) == IF t = Handler THEN RegionOf[event] ELSE t[2]

-----------------------------------------------------------------------------
(* Add, called by the handler for one event after the other.               *)

\* 2) the counters are read under the lock and used after it.
WouldOverflow(e) ==
  LET r == RegionOf[e] IN
    \/ maxCount > 0 /\ counts[r] + 1 > maxCount
    \/ maxBytes > 0 /\ sizes[r] + RecSize[e] > maxBytes

AddStart(e) ==
  /\ apc = "idle" /\ e \notin added
  /\ event' = e
  /\ added' = added \cup {e}
  /\ \/ /\ WouldOverflow(e)
        /\ apc' = "preflush"
        /\ fpc' = [fpc EXCEPT ![Handler] = "open"]
     \/ /\ ~WouldOverflow(e)
        /\ apc' = "write"
        /\ UNCHANGED fpc
  /\ UNCHANGED <<fileVars, countVars, leftover, unwritten, logged, scanVars, failed, faultVars,
                 ctlVars>>

AddPreFlushed ==
  /\ apc = "preflush" /\ fpc[Handler] = "idle"
  /\ apc' = "write"
  /\ UNCHANGED <<fileVars, countVars, event, heldVars, flushVars, ctlVars>>

\* Another goroutine has read the file and has not truncated it yet.
InWindow(r) == \E t \in Threads \ {Handler} :
                  Target(t) = r /\ fpc[t] \in {"sending", "truncate"}

\* 3) the record is written, or the first part of it; behind a line without a
\* newline it is glued to that line, and the two together do not parse.
AddWrite ==
  /\ apc = "write"
  /\ LET r == RegionOf[event] IN
       \E line \in {event} \cup (IF "write" \in Fails THEN {Torn} ELSE {}) :
         /\ file' = [file EXCEPT ![r] =
                       IF r \in cut THEN ReplaceAt(@, Len(@), Torn) ELSE Append(@, line)]
         /\ glued' = IF r \in cut THEN glued \cup Records(<<event, Last(file[r])>>) ELSE glued
         /\ unwritten' = IF line = Torn THEN unwritten \cup {event} ELSE unwritten
         /\ cut' = cut \cup {r}
         /\ exists' = exists \cup {r}
         /\ windowed' = IF InWindow(r) THEN windowed \cup {event} ELSE windowed
  /\ apc' = "newline"
  /\ UNCHANGED <<countVars, event, leftover, added, flushVars, ctlVars, logged>>

\* The errors of the two writes are not looked at: with a full /tmp the file is
\* there, its line is not, and the event is counted as any other.
AddWriteFails ==
  /\ apc = "write" /\ "write" \in Fails
  /\ exists' = exists \cup {RegionOf[event]}
  /\ unwritten' = unwritten \cup {event}
  /\ apc' = "newline"
  /\ UNCHANGED <<file, cut, windowed, glued, countVars, event, leftover, added, flushVars, ctlVars, logged>>

\* The newline is a write of its own, which may fail as well.
AddNewline ==
  /\ apc = "newline"
  /\ \/ cut' = cut \ {RegionOf[event]}
     \/ "write" \in Fails /\ UNCHANGED cut
  /\ apc' = "count"
  /\ UNCHANGED <<file, exists, windowed, glued, countVars, event, heldVars, flushVars, ctlVars>>

\* A file that cannot be opened: the event is dropped, and that is logged.
AddOpenFails ==
  /\ apc = "write" /\ "open" \in Fails
  /\ apc' = "idle" /\ event' = None
  /\ logged' = logged \cup {event}
  /\ UNCHANGED <<fileVars, countVars, leftover, added, unwritten, flushVars, ctlVars>>

\* 4) and 5): the counters move, and a threshold that is hit flushes.
Reached(count, size) == \/ maxCount > 0 /\ count >= maxCount
                        \/ maxBytes > 0 /\ size >= maxBytes

\* Mutant: the ticker never learns of the region.
AddCountNoKey ==
  /\ apc = "count"
  /\ LET r == RegionOf[event] IN
       /\ counts' = [counts EXCEPT ![r] = @ + 1]
       /\ sizes' = [sizes EXCEPT ![r] = @ + RecSize[event]]
  /\ apc' = "idle" /\ event' = None
  /\ UNCHANGED <<fileVars, known, heldVars, flushVars, ctlVars>>

\* Mutant: the event's bytes are counted, the event is not.
AddCountSizeOnly ==
  /\ apc = "count"
  /\ LET r == RegionOf[event] IN
       /\ sizes' = [sizes EXCEPT ![r] = @ + RecSize[event]]
       /\ known' = known \cup {r}
       /\ \/ /\ Reached(counts[r], sizes'[r])
             /\ apc' = "postflush"
             /\ fpc' = [fpc EXCEPT ![Handler] = "open"]
             /\ UNCHANGED event
          \/ /\ ~Reached(counts[r], sizes'[r])
             /\ apc' = "idle" /\ event' = None
             /\ UNCHANGED fpc
  /\ UNCHANGED <<fileVars, counts, heldVars, scanVars, failed, faultVars, ctlVars>>

AddCount ==
  /\ apc = "count"
  /\ LET r == RegionOf[event] IN
       /\ counts' = [counts EXCEPT ![r] = @ + 1]
       /\ sizes' = [sizes EXCEPT ![r] = @ + RecSize[event]]
       /\ known' = known \cup {r}
       /\ \/ /\ Reached(counts'[r], sizes'[r])
             /\ apc' = "postflush"
             /\ fpc' = [fpc EXCEPT ![Handler] = "open"]
             /\ UNCHANGED event
          \/ /\ ~Reached(counts'[r], sizes'[r])
             /\ apc' = "idle" /\ event' = None
             /\ UNCHANGED fpc
  /\ UNCHANGED <<fileVars, heldVars, scanVars, failed, faultVars, ctlVars>>

AddPostFlushed ==
  /\ apc = "postflush" /\ fpc[Handler] = "idle"
  /\ apc' = "idle" /\ event' = None
  /\ UNCHANGED <<fileVars, countVars, heldVars, flushVars, ctlVars>>

-----------------------------------------------------------------------------
(* flushRegion, as goroutine t runs it.                                    *)

\* An open or a truncation failed; the error that is logged names the region.
Fault(t) ==
  /\ faulty' = faulty \cup {Target(t)}
  /\ spared' = IF t \in StopFlush THEN spared \cup {Target(t)} ELSE spared

\* A done context, or a file that is not there, ends it.
FlushSkipped(t) ==
  /\ fpc[t] = "open"
  /\ done \/ Target(t) \notin exists
  /\ fpc' = [fpc EXCEPT ![t] = "idle"]
  /\ UNCHANGED <<fileVars, countVars, addVars, scanVars, failed, faultVars, ctlVars>>

\* So does an open that fails.
FlushOpenFails(t) ==
  /\ "open" \in Fails
  /\ fpc[t] = "open" /\ ~done /\ Target(t) \in exists
  /\ fpc' = [fpc EXCEPT ![t] = "idle"]
  /\ Fault(t)
  /\ UNCHANGED <<fileVars, countVars, addVars, scanVars, failed, ctlVars>>

\* The flush has read the first n lines; when nothing in them parses, there is
\* nothing to send.
Read(t, n) ==
  LET lines == SubSeq(file[Target(t)], 1, n) IN
    /\ fbatch' = [fbatch EXCEPT ![t] = lines]
    /\ scanned' = scanned \cup Records(lines)
    /\ fpc' = [fpc EXCEPT ![t] = IF Records(lines) = {} THEN "truncate" ELSE "sending"]

\* Mutant: the scan stops before the last line.
ScanMissesLast(t) ==
  /\ fpc[t] = "open" /\ ~done /\ Target(t) \in exists
  /\ Read(t, Len(file[Target(t)]) - 1)
  /\ UNCHANGED <<fileVars, countVars, addVars, unread, failed, faultVars, ctlVars>>

\* The scan ends at the end of the file, or before it on an error, which is
\* logged for the region; the flush goes on with what it has.
Scan(t) ==
  /\ fpc[t] = "open" /\ ~done /\ Target(t) \in exists
  /\ \E n \in 0..Len(file[Target(t)]) :
       /\ n < Len(file[Target(t)]) => "read" \in Fails
       /\ Read(t, n)
       /\ unread' = unread \cup Records(SubSeq(file[Target(t)], n + 1, Len(file[Target(t)])))
  /\ UNCHANGED <<fileVars, countVars, addVars, failed, faultVars, ctlVars>>

\* emfFlusher.Flush: no client for the region or a failed PutLogEvents is an
\* error, and the error is discarded.  Under a done context it must fail.
SendBatch(t) ==
  /\ fpc[t] = "sending"
  /\ \/ ~done /\ UNCHANGED failed
     \/ failed' = failed \cup {t}
  /\ fpc' = [fpc EXCEPT ![t] = "truncate"]
  /\ UNCHANGED <<fileVars, countVars, addVars, scanVars, faultVars, ctlVars>>

Truncate(t) ==
  /\ fpc[t] = "truncate"
  /\ file' = [file EXCEPT ![Target(t)] = <<>>]
  /\ cut' = cut \ {Target(t)}
  /\ failed' = failed \ {t}
  /\ fpc' = [fpc EXCEPT ![t] = "reset"]
  /\ UNCHANGED <<exists, windowed, glued, countVars, addVars, scanVars, faultVars, ctlVars>>

\* When the truncation fails the lines stay, and the counters are reset all the
\* same.
TruncateFails(t) ==
  /\ fpc[t] = "truncate" /\ "truncate" \in Fails
  /\ Fault(t)
  /\ failed' = failed \ {t}
  /\ fpc' = [fpc EXCEPT ![t] = "reset"]
  /\ UNCHANGED <<fileVars, countVars, addVars, scanVars, ctlVars>>

\* Mutant: what was flushed is subtracted, by each of two overlapping flushes.
ResetSubtracts(t) ==
  /\ fpc[t] = "reset"
  /\ counts' = [counts EXCEPT ![Target(t)] = @ - Len(fbatch[t])]
  /\ sizes' = [sizes EXCEPT ![Target(t)] = 0]
  /\ known' = known \cup {Target(t)}
  /\ fpc' = [fpc EXCEPT ![t] = "idle"]
  /\ fbatch' = [fbatch EXCEPT ![t] = <<>>]
  /\ UNCHANGED <<fileVars, addVars, scanned, unread, failed, faultVars, ctlVars>>

ResetCounters(t) ==
  /\ fpc[t] = "reset"
  /\ counts' = [counts EXCEPT ![Target(t)] = 0]
  /\ sizes' = [sizes EXCEPT ![Target(t)] = 0]
  /\ known' = known \cup {Target(t)}
  /\ fpc' = [fpc EXCEPT ![t] = "idle"]
  /\ fbatch' = [fbatch EXCEPT ![t] = <<>>]
  /\ UNCHANGED <<fileVars, addVars, scanned, unread, failed, faultVars, ctlVars>>

FlushStep(t) == \/ FlushSkipped(t) \/ FlushOpenFails(t) \/ Scan(t) \/ SendBatch(t)
                \/ Truncate(t) \/ TruncateFails(t) \/ ResetCounters(t)

-----------------------------------------------------------------------------
(* The ticker goroutine, Stop and the parent context.                      *)

\* One flush goroutine per region the counts map has a key for.
StartFlushes(threads) ==
  fpc' = [t \in Threads |-> IF t \in threads /\ t[2] \in known THEN "open" ELSE fpc[t]]

Tick ==
  /\ stop = "no" /\ ~tick /\ tpc # "exited"
  /\ tick' = TRUE
  /\ UNCHANGED <<fileVars, countVars, addVars, flushVars, tpc, stopVars, cancelled>>

TickFlush ==
  /\ tpc = "select" /\ tick
  /\ tick' = FALSE
  /\ tpc' = "flushing"
  /\ StartFlushes(TickerFlush)
  /\ UNCHANGED <<fileVars, countVars, addVars, scanVars, failed, faultVars, stopVars, cancelled>>

TickFlushed ==
  /\ tpc = "flushing" /\ \A t \in TickerFlush : fpc[t] = "idle"
  /\ tpc' = "select"
  /\ UNCHANGED <<fileVars, countVars, addVars, flushVars, tick, stopVars, cancelled>>

TickerExit ==
  /\ tpc = "select" /\ done
  /\ tpc' = "exited"
  /\ UNCHANGED <<fileVars, countVars, addVars, flushVars, tick, stopVars, cancelled>>

\* Stop takes its snapshot of the regions.
SnapshotRegions ==
  /\ Stops /\ stop = "no"
  /\ stop' = "flushing"
  /\ snapshot' = known
  /\ beforeStop' = UNION {Records(file[r]) : r \in Regions}
  /\ adding' = {event} \ {None}

\* Mutant: Stop only ends the ticker.
StopCallNoFlush ==
  /\ SnapshotRegions
  /\ UNCHANGED <<fileVars, countVars, addVars, flushVars, tpc, tick, cancelled>>

StopCall ==
  /\ SnapshotRegions
  /\ StartFlushes(StopFlush)
  /\ UNCHANGED <<fileVars, countVars, addVars, scanVars, failed, faultVars, tpc, tick, cancelled>>

StopReturns ==
  /\ stop = "flushing" /\ \A t \in StopFlush : fpc[t] = "idle"
  /\ stop' = "returned"
  /\ UNCHANGED <<fileVars, countVars, addVars, flushVars, tpc, tick, snapshot, beforeStop, adding,
                 cancelled>>

ParentCancel ==
  /\ ParentCancels /\ ~cancelled
  /\ cancelled' = TRUE
  /\ UNCHANGED <<fileVars, countVars, addVars, flushVars, tpc, tick, stopVars>>

Add == \/ \E e \in Events : AddStart(e)
       \/ AddPreFlushed \/ AddWrite \/ AddWriteFails \/ AddOpenFails \/ AddNewline
       \/ AddCount \/ AddPostFlushed

Next == \/ Add
        \/ \E t \in Threads : FlushStep(t)
        \/ Tick \/ TickFlush \/ TickFlushed \/ TickerExit
        \/ StopCall \/ StopReturns \/ ParentCancel

Spec == Init /\ [][Next]_vars

\* Goroutines run, Flush returns, time passes; a started Add goes on.  A file
\* that is flushed again and again opens and is truncated in the end.
Fairness ==
  /\ WF_vars(AddPreFlushed) /\ WF_vars(AddWrite \/ AddWriteFails \/ AddOpenFails)
  /\ WF_vars(AddNewline) /\ WF_vars(AddCount) /\ WF_vars(AddPostFlushed)
  /\ \A t \in Threads : WF_vars(FlushStep(t))
  /\ \A t \in TickerFlush : SF_vars(Scan(t)) /\ SF_vars(Truncate(t))
  /\ WF_vars(Tick) /\ WF_vars(TickFlush) /\ WF_vars(TickFlushed)

LiveSpec == Spec /\ Fairness

-----------------------------------------------------------------------------
(* Properties.                                                             *)

\* Types; what an idle goroutine keeps.
TypeOK ==
  /\ file \in [Regions -> Seq(Events \cup {Torn})]
  /\ cut \subseteq exists /\ exists \subseteq Regions /\ \A r \in cut : file[r] # <<>>
  /\ counts \in [Regions -> Nat] /\ sizes \in [Regions -> Nat]
  /\ known \subseteq Regions /\ snapshot \subseteq known
  /\ apc \in {"idle", "preflush", "write", "newline", "count", "postflush"}
  /\ event \in Events \cup {None} /\ (event = None <=> apc = "idle")
  /\ fpc \in [Threads -> {"idle", "open", "sending", "truncate", "reset"}]
  /\ fbatch \in [Threads -> Seq(Events \cup {Torn})]
  /\ failed \subseteq Threads /\ spared \subseteq faulty /\ faulty \subseteq Regions
  /\ tpc \in {"select", "flushing", "exited"} /\ tick \in BOOLEAN
  /\ stop \in {"no", "flushing", "returned"} /\ cancelled \in BOOLEAN
  /\ UNION {leftover, added, logged, unwritten, glued, windowed, scanned, unread, beforeStop,
            adding} \subseteq Events

\* The flushes that can run beside the handler's own for one region.
Others == IF Stops THEN 2 ELSE 1

\* A counter reset forgets what was appended since its truncation, so a file
\* can outgrow maxCount; but each concurrent flush forgets at most
\* maxCount - 1 lines, and until a flush of the file fails none reads more
\* than that allows: in the program, which never calls Stop, less than twice
\* maxCount.  The lines an earlier process left are not counted either, but
\* they are gone before anything is forgotten.  (A file with maxCount lines
\* and nobody at work is one of the states, although the type comment,
\* filebatcher.go:29-30, has it "flushing when: record count >= maxCount".)
BatchSlack ==
  maxCount > 0 =>
    \A t \in Threads : fpc[t] \in {"sending", "truncate", "reset"} =>
      \/ Len(fbatch[t]) <= maxCount + Others * (maxCount - 1)
      \/ Len(fbatch[t]) <= maxCount + Len(Left[Target(t)])
      \/ Target(t) \in faulty

\* What becomes of an event Add was called with, when Add is done with it: its
\* line is in the file or some flush has read it, or its file did not open and
\* that was logged.  It is lost in four ways only, and the log does not name it:
\* not all of it was written; a newline was not, and its line and the next are
\* one that does not parse; it was appended between another flush's scan and
\* truncation; or it was behind the place where a scan failed.
LossExplained ==
  \A e \in added \ {event} :
    \/ e \in ToSet(file[RegionOf[e]]) \cup scanned
    \/ e \in logged
    \/ e \in unwritten
    \/ e \in glued
    \/ e \in windowed
    \/ e \in unread

\* When Stop returns, everything that was in the files when it took its
\* snapshot is out of them, whatever Adds and ticker flushes ran meanwhile,
\* with four exceptions: the parent's cancellation turned its flushes off
\* (although the type comment, filebatcher.go:33, has it "flushing all regions
\* on context cancellation"); the file did not open or was not truncated; or
\* the region had no counter yet, and then the line is one an earlier process
\* left or that of the Add in progress.
StopEmpties ==
  (stop = "returned" /\ ~cancelled) =>
    \A e \in beforeStop :
      LET r == RegionOf[e] IN
        \/ e \notin ToSet(file[r])
        \/ r \in spared
        \/ r \notin snapshot /\ e \in leftover \cup adding

\* A stored event leaves its file, at the latest by a tick, while the batcher
\* runs: no counter race and no failed open or truncation leaves a line that no
\* flush looks at.  (For the lines of an earlier process, see TickCoversFiles of
\* RateLimit.)
StoredIsFlushed ==
  \A e \in Events :
     e \in ToSet(file[RegionOf[e]]) /\ e \notin leftover ~>
        e \notin ToSet(file[RegionOf[e]]) \/ done \/ stop # "no"

\* cmd/ratelimit/README.md:320: an ERROR log "whenever there is a downstream
\* I/O error".  A batch CloudWatch Logs did not take is in an ERROR line.
FlushErrorsLogged == \A t \in failed : Records(fbatch[t]) \subseteq logged
=============================================================================
