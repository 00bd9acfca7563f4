------------------------------ MODULE RateLimit ------------------------------
(***************************************************************************)
(* The rate-limit function (cmd/ratelimit, internal/handlers) and the      *)
(* emf-extension process (cmd/emf-extension) in one Lambda environment:    *)
(* the SQS queue that feeds the function, the files in /tmp they share,    *)
(* and the environment's life: start, freeze, crash and reset, shutdown.   *)
(*                                                                         *)
(* When CTFileBatcher flushes, and what its races lose, is the subject of  *)
(* that module.  Here Add's flush and the ticker's are two steps each, send *)
(* and truncate, which may come at any time during an invocation; between  *)
(* invocations the process is frozen, its ticker with it.  An append is    *)
(* one step, a truncation succeeds, and a line reads as it was written:    *)
(* torn lines and failing truncations are in CTFileBatcher as well.        *)
(***************************************************************************)
EXTENDS Integers, FiniteSets

CONSTANTS Messages,
          Malformed,    \* bodies that are not a CloudTrail event
          Regions,
          RegionOf,     \* the event's awsRegion
          GroupOf,      \* the message group of the rule that sent it
          Arrival,      \* its place in the queue, which is FIFO for each group
          Configured,   \* REGIONS: the function has a client for each
          BatchSize,    \* 10 in the template
          MaxResets     \* bound on crashes and restarts of the environment

ASSUME RateLimitAssumption ==
  /\ Malformed \subseteq Messages
  /\ RegionOf \in [Messages -> Regions]
  /\ Arrival \in [Messages -> Nat]
  /\ Configured \subseteq Regions
  /\ BatchSize \in Nat \ {0} /\ MaxResets \in Nat

\* The base name of a region's file, and no region has such a name.
BaseName(r) == <<"emf_", r, ".ndjson">>

ASSUME BaseNamesAssumption == \A r \in Regions : BaseName(r) \notin Regions

VARIABLES
  queue,      \* each message: "visible", "inflight", "deleted"
  fn,         \* the function: "down", "idle" (frozen), "handling"
  batch,      \* the messages of its event
  todo,       \* records of the event HandleEvent has not come to
  failures,   \* its BatchItemFailures
  lines,      \* lines[r][m]: m's lines in region r's file
  exists,     \* the files that exist
  known,      \* the regions its batcher has a counter for
  flushing,   \* the flushes that have sent their batch and not truncated
  ext,        \* the extension: "init", "register", "events", "drain", "exited"
  extClients, \* the keys of its client map
  extDone,    \* files it has drained
  env,        \* "up", "shutdown", "gone"
  resets,
  \* history
  leftover,   \* the files that held lines when the function started
  stored,     \* messages appended to a file
  unwritten,  \* messages whose line could not be written
  reported,   \* messages an ERROR line was written for
  attempted,  \* messages of the batches PutLogEvents was called with
  delivered,  \* how often each message reached CloudWatch Logs
  atShutdown  \* messages in the files when SHUTDOWN was sent

fnVars == <<fn, batch, todo, failures, known, flushing>>
fileVars == <<lines, exists>>
extVars == <<ext, extClients, extDone>>
envVars == <<env, resets, atShutdown>>
putVars == <<attempted, delivered>>
histVars == <<leftover, stored, unwritten, reported, putVars>>
vars == <<queue, fnVars, fileVars, extVars, envVars, histVars>>

NoLines == [m \in Messages |-> 0]
InFile(r) == {m \in Messages : lines[r][m] > 0}

\* The two goroutines of the function that can flush a region.
Flushers == {"add", "ticker"}

Init ==
  /\ queue = [m \in Messages |-> "visible"]
  /\ fn = "down" /\ batch = {} /\ todo = {} /\ failures = {} /\ known = {} /\ flushing = {}
  /\ lines = [r \in Regions |-> NoLines] /\ exists = {}
  /\ ext = "init" /\ extClients = {} /\ extDone = {}
  /\ env = "up" /\ resets = 0 /\ atShutdown = {}
  /\ leftover = {} /\ stored = {} /\ unwritten = {} /\ reported = {} /\ attempted = {} /\ delivered = NoLines

-----------------------------------------------------------------------------
(* The function.                                                           *)

\* The function starts after the extension has registered; its batcher has
\* no counters yet and takes the files as they are.
FunctionInit ==
  /\ env = "up" /\ fn = "down" /\ ext \in {"events", "drain"}
  /\ fn' = "idle"
  /\ leftover' = {r \in Regions : InFile(r) # {}}
  /\ UNCHANGED <<queue, batch, todo, failures, known, flushing, fileVars, extVars, envVars,
                 stored, unwritten, reported, putVars>>

\* The messages ahead of m in its group.
Group(g) == {m \in Messages : GroupOf[m] = g}
Ahead(m) == {n \in Group(GroupOf[m]) : Arrival[n] < Arrival[m]}

\* The queue offers a group from its head, and nothing of a group of which a
\* message is in flight.
Offers(msgs) ==
  \A m \in msgs :
    /\ \A n \in Group(GroupOf[m]) : queue[n] # "inflight"
    /\ \A n \in Ahead(m) : queue[n] = "deleted" \/ n \in msgs

\* The event source mapping invokes the function with a batch of messages;
\* the environment takes it when the extension has asked for the next event.
Invoke(msgs) ==
  /\ env = "up" /\ fn = "idle" /\ ext = "events"
  /\ msgs # {} /\ Cardinality(msgs) <= BatchSize
  /\ Offers(msgs) /\ \A m \in msgs : queue[m] = "visible"
  /\ queue' = [m \in Messages |-> IF m \in msgs THEN "inflight" ELSE queue[m]]
  /\ fn' = "handling" /\ batch' = msgs /\ todo' = msgs
  /\ UNCHANGED <<failures, known, flushing, fileVars, extVars, envVars, histVars>>

\* The handler's goroutine is not inside a flush of Add.
InLoop == fn = "handling" /\ \A r \in Regions : <<"add", r>> \notin flushing

\* Mutant, for the records it concerns: one that does not parse is skipped.
HandleRecordSkipsMalformed(m) ==
  /\ InLoop /\ m \in todo \cap Malformed
  /\ todo' = todo \ {m}
  /\ reported' = reported \cup {m}
  /\ UNCHANGED <<queue, fn, batch, failures, known, flushing, fileVars, extVars, envVars,
                 leftover, stored, unwritten, putVars>>

\* Mutant: the counters only get to know a region when it is flushed.
StoreUncounted(m) ==
  /\ lines' = [lines EXCEPT ![RegionOf[m]][m] = @ + 1]
  /\ exists' = exists \cup {RegionOf[m]}
  /\ stored' = stored \cup {m}
  /\ UNCHANGED <<known, unwritten>>

\* Add opens the file, writes the line and counts it; the errors of the write
\* are not looked at.
Store(m) ==
  /\ exists' = exists \cup {RegionOf[m]}
  /\ known' = known \cup {RegionOf[m]}
  /\ \/ /\ lines' = [lines EXCEPT ![RegionOf[m]][m] = @ + 1]
        /\ stored' = stored \cup {m} /\ UNCHANGED unwritten
     \/ unwritten' = unwritten \cup {m} /\ UNCHANGED <<lines, stored>>

\* HandleEvent's loop body: a body that does not parse is logged and becomes
\* an item failure; Add stores a line, or logs that the file does not open.
HandleRecord(m) ==
  /\ InLoop /\ m \in todo
  /\ todo' = todo \ {m}
  /\ \/ /\ m \in Malformed
        /\ failures' = failures \cup {m}
        /\ reported' = reported \cup {m}
        /\ UNCHANGED <<fileVars, known, stored, unwritten>>
     \/ m \notin Malformed /\ Store(m) /\ UNCHANGED <<failures, reported>>
     \/ /\ m \notin Malformed
        /\ reported' = reported \cup {m}
        /\ UNCHANGED <<failures, fileVars, known, stored, unwritten>>
  /\ UNCHANGED <<queue, fn, batch, flushing, extVars, envVars, leftover, putVars>>

\* Mutant: an error for the whole batch instead of item failures.
RespondAllOrNothing ==
  /\ InLoop /\ todo = {}
  /\ fn' = "idle" /\ batch' = {} /\ failures' = {}
  /\ queue' = [m \in Messages |->
                 IF m \notin batch THEN queue[m]
                 ELSE IF failures # {} THEN "inflight" ELSE "deleted"]
  /\ UNCHANGED <<todo, known, flushing, fileVars, extVars, envVars, histVars>>

\* HandleRequest returns: SQS deletes the batch except the item failures, which
\* stay in flight until their visibility timeout.
Respond ==
  /\ InLoop /\ todo = {}
  /\ fn' = "idle" /\ batch' = {} /\ failures' = {}
  /\ queue' = [m \in Messages |->
                 IF m \notin batch THEN queue[m]
                 ELSE IF m \in failures THEN "inflight" ELSE "deleted"]
  /\ UNCHANGED <<todo, known, flushing, fileVars, extVars, envVars, histVars>>

\* emfFlusher.Flush of r's file: without a client it is an error, with one
\* PutLogEvents may fail; its callers discard the error.
Flush(r, hasClient) ==
  IF hasClient
  THEN /\ attempted' = attempted \cup InFile(r)
       /\ delivered' \in {delivered, [m \in Messages |-> delivered[m] + lines[r][m]]}
  ELSE UNCHANGED putVars

\* Add flushes on a threshold, in the handler's goroutine, and the ticker on
\* a tick: only regions that have a counter.
FlushSend(f, r) ==
  /\ fn = "handling" /\ <<f, r>> \notin flushing
  /\ f = "add" => InLoop
  /\ r \in known /\ InFile(r) # {}
  /\ Flush(r, r \in Configured)
  /\ flushing' = flushing \cup {<<f, r>>}
  /\ UNCHANGED <<queue, fn, batch, todo, failures, known, fileVars, extVars, envVars,
                 leftover, stored, unwritten, reported>>

\* Mutant: the file keeps what was sent.
FlushTruncateNot(f, r) ==
  /\ fn = "handling" /\ <<f, r>> \in flushing
  /\ flushing' = flushing \ {<<f, r>>}
  /\ UNCHANGED <<queue, fn, batch, todo, failures, known, fileVars, extVars, envVars, histVars>>

FlushTruncate(f, r) ==
  /\ fn = "handling" /\ <<f, r>> \in flushing
  /\ lines' = [lines EXCEPT ![r] = NoLines]
  /\ flushing' = flushing \ {<<f, r>>}
  /\ UNCHANGED <<queue, fn, batch, todo, failures, known, exists, extVars, envVars, histVars>>

-----------------------------------------------------------------------------
(* The extension.                                                          *)

\* Before it registers: one client for each file that exists by then.
ExtensionInit ==
  /\ env = "up" /\ ext = "init"
  /\ ext' = "register" /\ extClients' = exists
  /\ UNCHANGED <<queue, fnVars, fileVars, extDone, envVars, histVars>>

\* A request that fails makes it panic, which is one of the causes of Reset.
Register ==
  /\ env = "up" /\ ext = "register"
  /\ ext' = "events"
  /\ UNCHANGED <<queue, fnVars, fileVars, extClients, extDone, envVars, histVars>>

\* NextEvent returns: with SHUTDOWN, or without an event because the request
\* failed or a signal cancelled it.
ShutdownEvent == env = "shutdown"
NoEvent == resets < MaxResets

\* processEvents returns either way, and then the files are drained, maybe
\* beside a function that is alive.
EventsEnd ==
  /\ ext = "events"
  /\ ShutdownEvent \/ NoEvent
  /\ ext' = "drain"
  /\ UNCHANGED <<queue, fnVars, fileVars, extClients, extDone, envVars, histVars>>

\* The drain hands Flush the file's base name where it takes a region, and
\* truncates the file.  One step: without a client nothing comes of the scan.
DrainFile(r) ==
  /\ ext = "drain" /\ r \in exists \ extDone
  /\ Flush(r, BaseName(r) \in extClients)
  /\ lines' = [lines EXCEPT ![r] = NoLines]
  /\ extDone' = extDone \cup {r}
  /\ UNCHANGED <<queue, fnVars, exists, ext, extClients, envVars,
                 leftover, stored, unwritten, reported>>

ExtensionExit ==
  /\ ext = "drain" /\ exists \subseteq extDone
  /\ ext' = "exited"
  /\ UNCHANGED <<queue, fnVars, fileVars, extClients, extDone, envVars, histVars>>

-----------------------------------------------------------------------------
(* SQS and the Lambda environment.                                         *)

\* Mutant: the handler's loop survives the process.
ResetKeepsTodo ==
  /\ env = "up" /\ resets < MaxResets
  /\ fn = "handling"
  /\ resets' = resets + 1
  /\ fn' = "down" /\ batch' = {} /\ known' = {} /\ flushing' = {}
  /\ ext' = "init" /\ extClients' = {} /\ extDone' = {}
  /\ UNCHANGED <<queue, todo, failures, fileVars, env, atShutdown, histVars>>

\* A failed init, a timeout or a crash of the function, or an extension that
\* exits before the shutdown, resets the processes and keeps /tmp.
Reset ==
  /\ env = "up" /\ resets < MaxResets
  /\ fn \in {"down", "handling"} \/ ext \in {"init", "register", "exited"}
  /\ resets' = resets + 1
  /\ fn' = "down" /\ batch' = {} /\ todo' = {} /\ failures' = {}
  /\ known' = {} /\ flushing' = {}
  /\ ext' = "init" /\ extClients' = {} /\ extDone' = {}
  /\ UNCHANGED <<queue, fileVars, env, atShutdown, histVars>>

\* A message that failed, or whose invocation ended without an answer, becomes
\* visible again in its place; the visibility timeout is not shorter than the
\* function's.
VisibilityTimeout(m) ==
  /\ queue[m] = "inflight" /\ m \notin batch
  /\ queue' = [queue EXCEPT ![m] = "visible"]
  /\ UNCHANGED <<fnVars, fileVars, extVars, envVars, histVars>>

\* An idle environment is shut down: the function is gone, the extension
\* gets the SHUTDOWN event and its time to drain.
Shutdown ==
  /\ env = "up" /\ fn = "idle" /\ ext = "events"
  /\ env' = "shutdown" /\ fn' = "down" /\ known' = {} /\ flushing' = {}
  /\ atShutdown' = UNION {InFile(r) : r \in Regions}
  /\ UNCHANGED <<queue, batch, todo, failures, fileVars, extVars, resets, histVars>>

\* The environment and its /tmp disappear.
EnvironmentGone ==
  /\ env = "shutdown" /\ ext = "exited"
  /\ env' = "gone"
  /\ lines' = [r \in Regions |-> NoLines] /\ exists' = {}
  /\ UNCHANGED <<queue, fnVars, extVars, resets, atShutdown, histVars>>

\* Messages that are left, or new ones, start another.
NewEnvironment ==
  /\ env = "gone"
  /\ env' = "up" /\ atShutdown' = {}
  /\ ext' = "init" /\ extClients' = {} /\ extDone' = {}
  /\ UNCHANGED <<queue, fnVars, fileVars, resets, histVars>>

Next == \/ FunctionInit \/ Respond
        \/ \E msgs \in SUBSET Messages : Invoke(msgs)
        \/ \E m \in Messages : HandleRecord(m) \/ VisibilityTimeout(m)
        \/ \E f \in Flushers, r \in Regions : FlushSend(f, r) \/ FlushTruncate(f, r)
        \/ \E r \in Regions : DrainFile(r)
        \/ ExtensionInit \/ Register \/ EventsEnd \/ ExtensionExit
        \/ Reset \/ Shutdown \/ EnvironmentGone \/ NewEnvironment

Spec == Init /\ [][Next]_vars

\* The messages of a group that a batch has room for.
Front(g) ==
  {m \in Group(g) :
     queue[m] # "deleted" /\ Cardinality({n \in Ahead(m) : queue[n] # "deleted"}) < BatchSize}

\* Processes run, calls return, and Lambda restarts what is down.  SQS returns
\* as many messages of one group as it can: a group that can fill a batch from
\* its head, again and again, is given one.
Fairness ==
  /\ WF_vars(FunctionInit) /\ WF_vars(Respond)
  /\ WF_vars(\E m \in Messages : HandleRecord(m))
  /\ WF_vars(\E f \in Flushers, r \in Regions : FlushTruncate(f, r))
  /\ WF_vars(ExtensionInit) /\ WF_vars(Register) /\ WF_vars(\E r \in Regions : DrainFile(r)) /\ WF_vars(ExtensionExit)
  /\ WF_vars(env = "shutdown" /\ EventsEnd) /\ WF_vars(ext = "exited" /\ Reset)
  /\ WF_vars(EnvironmentGone) /\ WF_vars(NewEnvironment)
  /\ \A m \in Messages : WF_vars(VisibilityTimeout(m))
  /\ \A g \in {GroupOf[m] : m \in Messages} :
       SF_vars(\E msgs \in SUBSET Messages : Front(g) \subseteq msgs /\ Invoke(msgs))

LiveSpec == Spec /\ Fairness

-----------------------------------------------------------------------------
(* Properties.                                                             *)

\* Types; what a process that is not running cannot have.
TypeOK ==
  /\ queue \in [Messages -> {"visible", "inflight", "deleted"}]
  /\ fn \in {"down", "idle", "handling"}
  /\ batch \subseteq Messages /\ todo \subseteq batch /\ failures \subseteq Malformed \cap batch
  /\ (fn = "handling") <=> (batch # {})
  /\ known \subseteq exists /\ exists \subseteq Regions
  /\ flushing \subseteq Flushers \X known
  /\ lines \in [Regions -> [Messages -> Nat]]
  /\ ext \in {"init", "register", "events", "drain", "exited"}
  /\ extClients \subseteq Regions /\ extDone \subseteq Regions
  /\ env \in {"up", "shutdown", "gone"} /\ resets \in 0..MaxResets
  /\ leftover \subseteq Regions
  /\ UNION {stored, unwritten, reported, attempted, atShutdown} \subseteq Messages
  /\ delivered \in [Messages -> Nat]

\* A message SQS has deleted was appended to a file, or reported by an ERROR
\* line, or its line did not fit on the disk, whatever crashed in between; one
\* that does not parse is never deleted.  What becomes of a line that was
\* appended is CTFileBatcher's LossExplained.
AckedIsStored ==
  \A m \in Messages :
     queue[m] = "deleted" => m \notin Malformed /\ m \in stored \cup reported \cup unwritten

\* Redelivery after a crash and the two flushers duplicate records, but only
\* so far: each start of the processes stores a message at most once more,
\* and sends each line that is in the files at most twice, as long as every
\* flush truncates its file.
DeliveredBound == \A m \in Messages : delivered[m] <= (resets + 1) * (resets + 2)

\* A message that parses is acknowledged in the end, whatever malformed ones
\* share its batches and whatever crashes, exits early or shuts down; unless a
\* whole batch of malformed ones is ahead of it in its group, which return to
\* the head of the queue for ever.
WellFormedAcked ==
  \A m \in {n \in Messages \ Malformed : Cardinality(Ahead(n) \cap Malformed) < BatchSize} :
     queue[m] = "visible" ~> queue[m] = "deleted"

\* cmd/ratelimit/README.md:301: "On `SHUTDOWN`, it will drain any remaining
\* EMF's that are in /tmp directory".  When the environment is gone, whatever
\* was in the files of the configured regions was given to PutLogEvents.
DrainOnShutdown ==
  env = "gone" => \A m \in atShutdown : RegionOf[m] \in Configured => m \in attempted

\* cmd/ratelimit/README.md:273-276: one of the "Batch conditions (per region)"
\* is "`45s (default)`".  The ticker looks at every file that holds a line,
\* whoever drained or crashed beside it, with one exception: a file in which an
\* earlier process of the environment left lines is not looked at before an
\* event of its region arrives.
TickCoversFiles ==
  fn = "handling" => \A r \in Regions : InFile(r) # {} => r \in known \cup leftover
=============================================================================
