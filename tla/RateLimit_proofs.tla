--------------------------- MODULE RateLimit_proofs ---------------------------
(***************************************************************************)
(* Theorems about RateLimit, for every set of messages and regions, every  *)
(* batch size and every number of resets.                                  *)
(***************************************************************************)
EXTENDS RateLimit, TLAPS

-----------------------------------------------------------------------------
(* The inductive invariant.                                                *)

\* SQS does not offer a message of the batch to anybody else.
Inflight == \A m \in batch : queue[m] = "inflight"

\* What has become of the records HandleEvent is done with.
Handled ==
  \A m \in batch \ todo :
     IF m \in Malformed THEN m \in failures ELSE m \in stored \cup reported \cup unwritten

\* A function that is alive has a counter for every file with lines it may
\* have written itself.
Covered == fn # "down" => \A r \in Regions : InFile(r) # {} => r \in known \cup leftover

\* A function runs in an environment that is up, and is gone with its counters.
Running ==
  /\ fn # "down" => env = "up"
  /\ fn = "down" => known = {}

\* Where lines can be.
LinesAt ==
  /\ \A r \in Regions, m \in Messages : lines[r][m] > 0 => r = RegionOf[m]
  /\ env = "gone" => \A r \in Regions, m \in Messages : lines[r][m] = 0

\* The current start of the processes may still store a line of m.
MayStore(m) == m \notin Malformed /\ queue[m] # "deleted" /\ m \notin batch \ todo
ToStore(m) == IF MayStore(m) THEN 1 ELSE 0

\* How often the lines of m that are in the file can still be sent before the
\* processes start again: each flusher that has sent them truncates next.
Own(m) == lines[RegionOf[m]][m]
ToSend(m) ==
  IF env # "up" THEN 0
  ELSE (IF <<"add", RegionOf[m]>> \in flushing THEN 0 ELSE Own(m))
         + (IF <<"ticker", RegionOf[m]>> \in flushing THEN 0 ELSE Own(m))

\* A start stores a message once, and sends twice what is in its file.
BudgetOf(m) ==
  /\ Own(m) + ToStore(m) <= resets + 1
  /\ delivered[m] + ToSend(m) + ToStore(m) + ToStore(m) <= (resets + 1) * (resets + 2)

Budget == \A m \in Messages : BudgetOf(m)

RInv == TypeOK /\ Inflight /\ Handled /\ AckedIsStored /\ Covered /\ Running /\ LinesAt /\ Budget

-----------------------------------------------------------------------------
(* Types.                                                                  *)

\* The empty file.
LEMMA NoLinesType == NoLines \in [Messages -> Nat] /\ \A m \in Messages : NoLines[m] = 0
  BY DEF NoLines

\* A region's file holds messages.
LEMMA InFileMessages == \A r : InFile(r) \subseteq Messages
  BY DEF InFile

\* The initial values have their types.
LEMMA InitTypes == Init => TypeOK
<1> SUFFICES ASSUME Init PROVE TypeOK
  OBVIOUS
<1>1. lines \in [Regions -> [Messages -> Nat]] /\ delivered \in [Messages -> Nat]
  BY NoLinesType DEF Init
<1>2. queue \in [Messages -> {"visible", "inflight", "deleted"}] /\ resets \in 0..MaxResets
  BY RateLimitAssumption DEF Init
<1> QED BY <1>1, <1>2 DEF Init, TypeOK

\* A flush hands over messages and counts them.
LEMMA FlushTypes ==
  ASSUME TypeOK, NEW r \in Regions,
         \/ UNCHANGED putVars
         \/ /\ attempted' = attempted \cup InFile(r)
            /\ delivered' \in {delivered, [m \in Messages |-> delivered[m] + lines[r][m]]}
  PROVE  attempted' \subseteq Messages /\ delivered' \in [Messages -> Nat]
<1>1. [m \in Messages |-> delivered[m] + lines[r][m]] \in [Messages -> Nat]
  BY DEF TypeOK
<1> QED BY <1>1, InFileMessages DEF TypeOK, putVars

\* The function's steps keep the types.
LEMMA FunctionTypes ==
  ASSUME TypeOK,
         \/ FunctionInit \/ Respond
         \/ \E msgs \in SUBSET Messages : Invoke(msgs)
         \/ \E m \in Messages : HandleRecord(m)
         \/ \E f \in Flushers, r \in Regions : FlushSend(f, r) \/ FlushTruncate(f, r)
  PROVE  TypeOK'
<1>1. CASE FunctionInit
  BY <1>1 DEF FunctionInit, TypeOK, fileVars, extVars, envVars, putVars
<1>2. CASE Respond
  <2>1. queue' \in [Messages -> {"visible", "inflight", "deleted"}]
    BY <1>2 DEF Respond, TypeOK
  <2> QED BY <1>2, <2>1 DEF Respond, TypeOK, fileVars, extVars, envVars, histVars, putVars
<1>3. ASSUME NEW msgs \in SUBSET Messages, Invoke(msgs)
      PROVE  TypeOK'
  <2>1. queue' \in [Messages -> {"visible", "inflight", "deleted"}]
    BY <1>3 DEF Invoke, TypeOK
  <2>2. failures = {} /\ failures' = failures
    BY <1>3 DEF Invoke, TypeOK
  <2> QED BY <1>3, <2>1, <2>2 DEF Invoke, TypeOK, fileVars, extVars, envVars, histVars, putVars
<1>4. ASSUME NEW m \in Messages, HandleRecord(m)
      PROVE  TypeOK'
  <2>1. RegionOf[m] \in Regions /\ m \in todo /\ todo' = todo \ {m}
        /\ UNCHANGED <<queue, fn, batch, flushing, extVars, envVars, leftover, putVars>>
    BY <1>4, RateLimitAssumption DEF HandleRecord
  <2>2. CASE m \notin Malformed /\ Store(m) /\ UNCHANGED <<failures, reported>>
    <3>1. lines' \in [Regions -> [Messages -> Nat]]
      <4>1. CASE UNCHANGED lines
        BY <4>1 DEF TypeOK
      <4>2. CASE lines' = [lines EXCEPT ![RegionOf[m]][m] = @ + 1]
        <5>1. /\ lines \in [Regions -> [Messages -> Nat]]
              /\ lines[RegionOf[m]] \in [Messages -> Nat] /\ lines[RegionOf[m]][m] + 1 \in Nat
          BY <2>1 DEF TypeOK
        <5>2. [lines[RegionOf[m]] EXCEPT ![m] = @ + 1] \in [Messages -> Nat]
          BY <5>1
        <5> QED BY <4>2, <5>1, <5>2
      <4> QED BY <2>2, <4>1, <4>2 DEF Store
    <3>2. /\ exists' = exists \cup {RegionOf[m]} /\ known' = known \cup {RegionOf[m]}
          /\ stored' \subseteq Messages /\ unwritten' \subseteq Messages
      BY <2>2 DEF Store, TypeOK
    <3> QED BY <2>1, <2>2, <3>1, <3>2 DEF TypeOK, extVars, envVars, putVars
  <2>3. CASE /\ failures' = failures \/ (m \in Malformed /\ failures' = failures \cup {m})
             /\ reported' = reported \cup {m}
             /\ UNCHANGED <<fileVars, known, stored, unwritten>>
    BY <2>1, <2>3 DEF TypeOK, fileVars, extVars, envVars, putVars
  <2> QED BY <1>4, <2>2, <2>3 DEF HandleRecord
<1>5. ASSUME NEW f \in Flushers, NEW r \in Regions, FlushSend(f, r)
      PROVE  TypeOK'
  <2>1. attempted' \subseteq Messages /\ delivered' \in [Messages -> Nat]
    BY <1>5, FlushTypes DEF FlushSend, Flush
  <2> QED BY <1>5, <2>1 DEF FlushSend, TypeOK, fileVars, extVars, envVars
<1>6. ASSUME NEW f \in Flushers, NEW r \in Regions, FlushTruncate(f, r)
      PROVE  TypeOK'
  <2>1. lines' \in [Regions -> [Messages -> Nat]]
    BY <1>6, NoLinesType DEF FlushTruncate, TypeOK
  <2> QED BY <1>6, <2>1 DEF FlushTruncate, TypeOK, extVars, envVars, histVars, putVars
<1> QED BY <1>1, <1>2, <1>3, <1>4, <1>5, <1>6

\* The steps of the extension and the environment keep the types.
LEMMA OtherTypes ==
  ASSUME TypeOK, Running,
         \/ \E m \in Messages : VisibilityTimeout(m)
         \/ \E r \in Regions : DrainFile(r)
         \/ ExtensionInit \/ Register \/ EventsEnd \/ ExtensionExit
         \/ Reset \/ Shutdown \/ EnvironmentGone \/ NewEnvironment
  PROVE  TypeOK'
<1>1. ASSUME NEW m \in Messages, VisibilityTimeout(m)
      PROVE  TypeOK'
  BY <1>1 DEF VisibilityTimeout, TypeOK, fnVars, fileVars, extVars, envVars, histVars, putVars
<1>2. ASSUME NEW r \in Regions, DrainFile(r)
      PROVE  TypeOK'
  <2>1. attempted' \subseteq Messages /\ delivered' \in [Messages -> Nat]
    BY <1>2, FlushTypes DEF DrainFile, Flush
  <2>2. lines' \in [Regions -> [Messages -> Nat]]
    BY <1>2, NoLinesType DEF DrainFile, TypeOK
  <2> QED BY <1>2, <2>1, <2>2 DEF DrainFile, TypeOK, fnVars, envVars
<1>3. CASE ExtensionInit \/ Register \/ EventsEnd \/ ExtensionExit
  BY <1>3
  DEF ExtensionInit, Register, EventsEnd, ExtensionExit, TypeOK, fnVars, fileVars, extVars, envVars,
      histVars, putVars
<1>4. CASE Reset
  <2>1. resets' \in 0..MaxResets
    BY <1>4, RateLimitAssumption DEF Reset, TypeOK
  <2> QED BY <1>4, <2>1 DEF Reset, TypeOK, fileVars, histVars, putVars
<1>5. CASE Shutdown
  <2>1. atShutdown' \subseteq Messages
    BY <1>5, InFileMessages DEF Shutdown
  <2> QED BY <1>5, <2>1 DEF Shutdown, TypeOK, fileVars, extVars, histVars, putVars
<1>6. CASE EnvironmentGone
  <2>1. lines' \in [Regions -> [Messages -> Nat]]
    BY <1>6, NoLinesType DEF EnvironmentGone
  <2>2. known = {}
    BY <1>6 DEF EnvironmentGone, Running
  <2> QED BY <1>6, <2>1, <2>2 DEF EnvironmentGone, TypeOK, fnVars, extVars, histVars, putVars
<1>7. CASE NewEnvironment
  BY <1>7 DEF NewEnvironment, TypeOK, fnVars, fileVars, histVars, putVars
<1> QED BY <1>1, <1>2, <1>3, <1>4, <1>5, <1>6, <1>7

\* Every step keeps the types.
LEMMA TypesStep ==
  ASSUME TypeOK, Running, [Next]_vars
  PROVE  TypeOK'
<1>1. CASE UNCHANGED vars
  BY <1>1
  DEF vars, fnVars, fileVars, extVars, envVars, histVars, putVars, TypeOK
<1> QED BY <1>1, FunctionTypes, OtherTypes DEF Next

\* Every step keeps the function inside an environment that is up.
LEMMA RunningStep ==
  ASSUME TypeOK, Running, [Next]_vars
  PROVE  Running'
<1>1. CASE UNCHANGED <<fn, known, env>>
  BY <1>1 DEF Running
<1>2. CASE FunctionInit \/ Respond \/ Reset \/ Shutdown \/ NewEnvironment \/ EnvironmentGone
  BY <1>2
  DEF FunctionInit, Respond, Reset, Shutdown, NewEnvironment, EnvironmentGone, Running, TypeOK, fnVars, envVars,
      InLoop
<1>3. ASSUME NEW msgs \in SUBSET Messages, Invoke(msgs)
      PROVE  Running'
  BY <1>3 DEF Invoke, Running, envVars
<1>4. ASSUME NEW m \in Messages, HandleRecord(m)
      PROVE  Running'
  BY <1>4 DEF HandleRecord, InLoop, Running, envVars
<1>5. ASSUME NEW m \in Messages, VisibilityTimeout(m)
      PROVE  Running'
  BY <1>1, <1>5 DEF VisibilityTimeout, fnVars, envVars
<1>6. ASSUME NEW f \in Flushers, NEW r \in Regions, FlushSend(f, r) \/ FlushTruncate(f, r)
      PROVE  Running'
  BY <1>1, <1>6 DEF FlushSend, FlushTruncate, envVars
<1>7. ASSUME NEW r \in Regions, DrainFile(r)
      PROVE  Running'
  BY <1>1, <1>7 DEF DrainFile, fnVars, envVars
<1>8. CASE ExtensionInit \/ Register \/ EventsEnd \/ ExtensionExit \/ UNCHANGED vars
  BY <1>1, <1>8 DEF ExtensionInit, Register, EventsEnd, ExtensionExit, vars, fnVars, envVars
<1> QED BY <1>2, <1>3, <1>4, <1>5, <1>6, <1>7, <1>8 DEF Next

-----------------------------------------------------------------------------
(* What is acknowledged.                                                   *)

\* Every step keeps the batch in flight.
LEMMA InflightStep ==
  ASSUME TypeOK, Inflight, [Next]_vars
  PROVE  Inflight'
<1>1. CASE batch' = batch /\ queue' = queue
  BY <1>1 DEF Inflight
<1>2. CASE batch' = {}
  BY <1>2 DEF Inflight
<1>3. ASSUME NEW msgs \in SUBSET Messages, Invoke(msgs)
      PROVE  Inflight'
  BY <1>3 DEF Invoke, Inflight
<1>4. ASSUME NEW m \in Messages, VisibilityTimeout(m)
      PROVE  Inflight'
  BY <1>4 DEF VisibilityTimeout, Inflight, TypeOK, fnVars
<1>5. CASE Next
  BY <1>1, <1>2, <1>3, <1>4, <1>5
  DEF Next, FunctionInit, Respond, HandleRecord, FlushSend, FlushTruncate, DrainFile, ExtensionInit, Register,
      EventsEnd, ExtensionExit, Reset, Shutdown, EnvironmentGone, NewEnvironment, fnVars
<1> QED BY <1>1, <1>5 DEF vars, fnVars

\* Every step keeps account of the records that were handled.
LEMMA HandledStep ==
  ASSUME TypeOK, Handled, AckedIsStored, [Next]_vars
  PROVE  Handled' /\ AckedIsStored'
<1>1. ASSUME UNCHANGED <<batch, todo, failures, stored, unwritten, reported>>,
             \A m \in Messages : queue'[m] = "deleted" => queue[m] = "deleted"
      PROVE  Handled' /\ AckedIsStored'
  BY <1>1 DEF Handled, AckedIsStored
<1>2. ASSUME NEW m \in Messages, HandleRecord(m)
      PROVE  Handled' /\ AckedIsStored'
  <2>1. /\ m \in todo /\ todo' = todo \ {m} /\ batch' = batch /\ queue' = queue
        /\ stored \subseteq stored' /\ unwritten \subseteq unwritten' /\ reported \subseteq reported'
        /\ failures \subseteq failures'
        /\ IF m \in Malformed THEN m \in failures' ELSE m \in stored' \cup reported' \cup unwritten'
    BY <1>2 DEF HandleRecord, Store
  <2> QED BY <2>1 DEF Handled, AckedIsStored
<1>3. CASE Respond
  <2>1. /\ batch' = {} /\ todo = {} /\ UNCHANGED <<stored, unwritten, reported>>
        /\ \A m \in Messages : queue'[m] = "deleted" =>
              queue[m] = "deleted" \/ (m \in batch /\ m \notin failures)
    BY <1>3 DEF Respond, histVars
  <2> QED BY <2>1 DEF Handled, AckedIsStored
<1>4. ASSUME NEW msgs \in SUBSET Messages, Invoke(msgs)
      PROVE  Handled' /\ AckedIsStored'
  <2>1. /\ batch' = todo' /\ UNCHANGED <<stored, unwritten, reported>>
        /\ \A m \in Messages : queue'[m] = "deleted" => queue[m] = "deleted"
    BY <1>4 DEF Invoke, histVars
  <2> QED BY <2>1 DEF Handled, AckedIsStored
<1>5. CASE Reset
  BY <1>5 DEF Reset, Handled, AckedIsStored, histVars
<1>6. ASSUME NEW m \in Messages, VisibilityTimeout(m)
      PROVE  Handled' /\ AckedIsStored'
  BY <1>1, <1>6 DEF VisibilityTimeout, TypeOK, fnVars, histVars
<1>7. CASE FunctionInit \/ (\E f \in Flushers, r \in Regions : FlushSend(f, r) \/ FlushTruncate(f, r))
  BY <1>1, <1>7 DEF FunctionInit, FlushSend, FlushTruncate, histVars
<1>8. CASE ExtensionInit \/ Register \/ EventsEnd \/ ExtensionExit \/ Shutdown \/ EnvironmentGone
           \/ NewEnvironment \/ (\E r \in Regions : DrainFile(r)) \/ UNCHANGED vars
  BY <1>1, <1>8
  DEF ExtensionInit, Register, EventsEnd, ExtensionExit, Shutdown, EnvironmentGone, NewEnvironment,
      DrainFile, vars, fnVars, histVars
<1> QED BY <1>2, <1>3, <1>4, <1>5, <1>6, <1>7, <1>8 DEF Next

-----------------------------------------------------------------------------
(* Which files are looked at.                                              *)

\* A step after which every file holds at most what it held.
LEMMA FilesShrink ==
  ASSUME TypeOK, NEW r \in Regions, lines' = [lines EXCEPT ![r] = NoLines]
  PROVE  /\ \A m \in Messages : lines'[r][m] = 0
         /\ \A s \in Regions : s # r => lines'[s] = lines[s]
         /\ \A s \in Regions, m \in Messages : lines'[s][m] = lines[s][m] \/ lines'[s][m] = 0
  BY NoLinesType DEF TypeOK

\* Where the lines are after a record is stored.
LEMMA StoreLines ==
  ASSUME TypeOK, NEW m \in Messages, lines' = [lines EXCEPT ![RegionOf[m]][m] = @ + 1]
  PROVE  /\ lines'[RegionOf[m]][m] = lines[RegionOf[m]][m] + 1
         /\ \A s \in Regions, n \in Messages :
              s # RegionOf[m] \/ n # m => lines'[s][n] = lines[s][n]
<1>1. RegionOf[m] \in Regions
  BY RateLimitAssumption
<1> QED BY <1>1 DEF TypeOK

\* Every step keeps a counter for every file the function wrote to.
LEMMA CoveredStep ==
  ASSUME TypeOK, Running, Covered, [Next]_vars
  PROVE  Covered'
<1>1. ASSUME UNCHANGED <<known, leftover>>, fn' # "down" => fn # "down",
             \A r \in Regions, m \in Messages : lines'[r][m] > 0 => lines[r][m] > 0
      PROVE  Covered'
  BY <1>1 DEF Covered, InFile
<1>2. CASE FunctionInit
  BY <1>2 DEF FunctionInit, Covered, InFile, fileVars
<1>3. CASE fn' = "down"
  BY <1>3 DEF Covered
<1>4. ASSUME NEW m \in Messages, HandleRecord(m)
      PROVE  Covered'
  <2>1. UNCHANGED <<fn, leftover>> /\ RegionOf[m] \in Regions
    BY <1>4, RateLimitAssumption DEF HandleRecord
  <2>2. CASE lines' = [lines EXCEPT ![RegionOf[m]][m] = @ + 1] /\ known' = known \cup {RegionOf[m]}
    <3>1. \A s \in Regions : s # RegionOf[m] => (InFile(s)' = InFile(s))
      BY <2>2, StoreLines DEF InFile
    <3> QED BY <2>1, <2>2, <3>1 DEF Covered
  <2>3. CASE lines' = lines /\ known \subseteq known'
    BY <2>1, <2>3 DEF Covered, InFile
  <2> QED BY <1>4, <2>2, <2>3 DEF HandleRecord, Store, fileVars
<1>5. ASSUME NEW f \in Flushers, NEW r \in Regions, FlushTruncate(f, r)
      PROVE  Covered'
  <2>1. lines' = [lines EXCEPT ![r] = NoLines] /\ UNCHANGED <<known, leftover, fn>>
    BY <1>5 DEF FlushTruncate, histVars
  <2>2. \A s \in Regions, m \in Messages : lines'[s][m] = lines[s][m] \/ lines'[s][m] = 0
    BY <2>1, FilesShrink
  <2>3. \A s \in Regions, m \in Messages : lines'[s][m] > 0 => lines[s][m] > 0
    BY <2>2
  <2> QED BY <1>1, <2>1, <2>3
<1>6. ASSUME NEW r \in Regions, DrainFile(r)
      PROVE  Covered'
  <2>1. lines' = [lines EXCEPT ![r] = NoLines] /\ UNCHANGED <<known, leftover, fn>>
    BY <1>6 DEF DrainFile, fnVars
  <2>2. \A s \in Regions, m \in Messages : lines'[s][m] = lines[s][m] \/ lines'[s][m] = 0
    BY <2>1, FilesShrink
  <2>3. \A s \in Regions, m \in Messages : lines'[s][m] > 0 => lines[s][m] > 0
    BY <2>2
  <2> QED BY <1>1, <2>1, <2>3
<1>7. CASE EnvironmentGone
  BY <1>7 DEF EnvironmentGone, Running, Covered, fnVars
<1>8. ASSUME NEW msgs \in SUBSET Messages, Invoke(msgs)
      PROVE  Covered'
  BY <1>1, <1>8 DEF Invoke, fileVars, histVars
<1>9. CASE Respond
  BY <1>1, <1>9 DEF Respond, InLoop, fileVars, histVars
<1>10. CASE \/ ExtensionInit \/ Register \/ EventsEnd \/ ExtensionExit \/ NewEnvironment \/ UNCHANGED vars
            \/ (\E f \in Flushers, r \in Regions : FlushSend(f, r))
            \/ (\E m \in Messages : VisibilityTimeout(m))
  BY <1>1, <1>10
  DEF ExtensionInit, Register, EventsEnd, ExtensionExit, NewEnvironment, FlushSend, VisibilityTimeout,
      vars, fnVars, fileVars, histVars
<1>11. CASE Reset \/ Shutdown
  BY <1>3, <1>11 DEF Reset, Shutdown
<1> QED BY <1>2, <1>4, <1>5, <1>6, <1>7, <1>8, <1>9, <1>10, <1>11 DEF Next

\* Every step keeps the lines of a message in the file of its region.
LEMMA LinesStep ==
  ASSUME TypeOK, Running, LinesAt, [Next]_vars
  PROVE  LinesAt'
<1>1. ASSUME env' = "gone" => env = "gone",
             \A r \in Regions, m \in Messages : lines'[r][m] = lines[r][m] \/ lines'[r][m] = 0
      PROVE  LinesAt'
  BY <1>1 DEF LinesAt
<1>2. ASSUME NEW m \in Messages, HandleRecord(m)
      PROVE  LinesAt'
  <2>1. env' = "up"
    BY <1>2 DEF HandleRecord, InLoop, Running, envVars
  <2>2. CASE lines' = [lines EXCEPT ![RegionOf[m]][m] = @ + 1]
    BY <2>1, <2>2, StoreLines DEF LinesAt
  <2>3. CASE lines' = lines
    BY <2>1, <2>3 DEF LinesAt
  <2> QED BY <1>2, <2>2, <2>3 DEF HandleRecord, Store, fileVars
<1>3. ASSUME NEW f \in Flushers, NEW r \in Regions, FlushTruncate(f, r)
      PROVE  LinesAt'
  <2>1. lines' = [lines EXCEPT ![r] = NoLines] /\ env' = env
    BY <1>3 DEF FlushTruncate, envVars
  <2> QED BY <1>1, <2>1, FilesShrink
<1>4. ASSUME NEW r \in Regions, DrainFile(r)
      PROVE  LinesAt'
  <2>1. lines' = [lines EXCEPT ![r] = NoLines] /\ env' = env
    BY <1>4 DEF DrainFile, envVars
  <2> QED BY <1>1, <2>1, FilesShrink
<1>5. CASE EnvironmentGone
  <2>1. \A r \in Regions, m \in Messages : lines'[r][m] = 0
    BY <1>5, NoLinesType DEF EnvironmentGone
  <2> QED BY <2>1 DEF LinesAt
<1>6. CASE UNCHANGED fileVars /\ (env' = "gone" => env = "gone")
  BY <1>1, <1>6 DEF fileVars
<1>7. CASE \/ FunctionInit \/ Respond \/ ExtensionInit \/ Register \/ EventsEnd \/ ExtensionExit
           \/ Reset \/ Shutdown \/ NewEnvironment \/ UNCHANGED vars
           \/ (\E msgs \in SUBSET Messages : Invoke(msgs))
           \/ (\E f \in Flushers, r \in Regions : FlushSend(f, r))
           \/ (\E m \in Messages : VisibilityTimeout(m))
  BY <1>6, <1>7
  DEF FunctionInit, Respond, ExtensionInit, Register, EventsEnd, ExtensionExit, Reset, Shutdown,
      NewEnvironment, Invoke, FlushSend, VisibilityTimeout, vars, envVars
<1> QED BY <1>2, <1>3, <1>4, <1>5, <1>7 DEF Next

-----------------------------------------------------------------------------
(* How often a record is delivered.                                        *)

\* The quantities of the budget are numbers.
LEMMA BudgetNumbers ==
  ASSUME TypeOK, NEW m \in Messages
  PROVE  /\ Own(m) \in Nat /\ ToSend(m) \in Nat /\ ToStore(m) \in {0, 1}
         /\ delivered[m] \in Nat /\ resets \in Nat /\ RegionOf[m] \in Regions
         /\ (resets + 1) * (resets + 2) \in Nat
<1>1. /\ Own(m) \in Nat /\ delivered[m] \in Nat /\ resets \in Nat /\ RegionOf[m] \in Regions
  BY RateLimitAssumption DEF TypeOK, Own
<1>2. ToStore(m) \in {0, 1}
  BY DEF ToStore
<1>3. ToSend(m) \in Nat
  BY <1>1 DEF ToSend
<1>4. (resets + 1) * (resets + 2) \in Nat
  BY <1>1
<1> QED BY <1>1, <1>2, <1>3, <1>4

\* So they are after a step.
LEMMA BudgetNumbersNext ==
  ASSUME TypeOK', NEW m \in Messages
  PROVE  /\ Own(m)' \in Nat /\ ToSend(m)' \in Nat /\ ToStore(m)' \in {0, 1}
         /\ delivered'[m] \in Nat /\ resets' \in Nat
<1>1. Own(m)' \in Nat /\ delivered'[m] \in Nat /\ resets' \in Nat
  BY RateLimitAssumption DEF TypeOK, Own
<1>2. ToStore(m)' \in {0, 1}
  BY DEF ToStore
<1>3. ToSend(m)' \in Nat
  BY <1>1 DEF ToSend
<1> QED BY <1>1, <1>2, <1>3

\* A step that sends nothing and adds nothing to send or store.
LEMMA BudgetStays ==
  ASSUME TypeOK, TypeOK', NEW m \in Messages, BudgetOf(m), resets' = resets,
         delivered'[m] = delivered[m], Own(m)' <= Own(m), ToSend(m)' <= ToSend(m),
         MayStore(m)' => MayStore(m)
  PROVE  BudgetOf(m)'
<1> DEFINE B == (resets + 1) * (resets + 2)
<1>1. ToStore(m)' <= ToStore(m)
  BY DEF ToStore
<1>2. /\ Own(m) \in Nat /\ ToSend(m) \in Nat /\ ToStore(m) \in {0, 1} /\ delivered[m] \in Nat
      /\ resets \in Nat /\ B \in Nat
  BY BudgetNumbers
<1>3. Own(m)' \in Nat /\ ToSend(m)' \in Nat /\ ToStore(m)' \in {0, 1}
  BY BudgetNumbersNext
<1>4. B' = B
  OBVIOUS
<1>5. Own(m) + ToStore(m) <= resets + 1 /\ delivered[m] + ToSend(m) + ToStore(m) + ToStore(m) <= B
  BY DEF BudgetOf
<1> HIDE DEF B
<1>6. Own(m)' + ToStore(m)' <= resets' + 1
  BY <1>1, <1>2, <1>3, <1>5
<1>7. delivered'[m] + ToSend(m)' + ToStore(m)' + ToStore(m)' <= B'
  BY <1>1, <1>2, <1>3, <1>4, <1>5
<1> QED BY <1>6, <1>7 DEF BudgetOf, B

\* Sending a file spends what its flusher could still send of it.
LEMMA BudgetSend ==
  ASSUME TypeOK, TypeOK', LinesAt, Running, NEW m \in Messages, BudgetOf(m),
         NEW f \in Flushers, NEW r \in Regions, FlushSend(f, r)
  PROVE  BudgetOf(m)'
<1> DEFINE B == (resets + 1) * (resets + 2)
<1>1. /\ delivered'[m] = delivered[m] \/ delivered'[m] = delivered[m] + lines[r][m]
      /\ flushing' = flushing \cup {<<f, r>>} /\ <<f, r>> \notin flushing /\ env = "up"
      /\ UNCHANGED <<lines, env, queue, batch, todo, resets>>
  BY DEF FlushSend, Flush, fileVars, envVars, putVars, TypeOK, Running
<1>2. Own(m)' = Own(m) /\ ToStore(m)' = ToStore(m) /\ B' = B
  BY <1>1 DEF Own, ToStore, MayStore
<1>3. CASE r # RegionOf[m]
  <2>1. delivered'[m] = delivered[m]
    <3>1. ~(lines[r][m] > 0) /\ lines[r][m] \in Nat /\ delivered[m] \in Nat
      BY <1>3 DEF LinesAt, TypeOK
    <3> QED BY <1>1, <3>1
  <2>2. ToSend(m)' = ToSend(m)
    BY <1>1, <1>2, <1>3 DEF ToSend
  <2> QED BY <1>1, <1>2, <2>1, <2>2 DEF BudgetOf
<1>4. CASE r = RegionOf[m]
  <2>1. ToSend(m) = ToSend(m)' + Own(m)
    <3>1. Own(m) \in Nat
      BY BudgetNumbers
    <3> QED BY <1>1, <1>2, <1>4, <3>1 DEF ToSend, Flushers
  <2>2. delivered'[m] <= delivered[m] + Own(m) /\ delivered'[m] \in Nat
    <3>1. delivered[m] \in Nat /\ Own(m) \in Nat /\ delivered'[m] \in Nat
      BY BudgetNumbers, BudgetNumbersNext
    <3>2. Own(m) = lines[r][m]
      BY <1>4 DEF Own
    <3> QED BY <1>1, <3>1, <3>2
  <2>3. /\ delivered[m] \in Nat /\ Own(m) \in Nat /\ ToSend(m)' \in Nat /\ ToStore(m) \in {0, 1}
        /\ B \in Nat /\ ToSend(m) \in Nat
    BY BudgetNumbers, BudgetNumbersNext
  <2>4. Own(m) + ToStore(m) <= resets + 1 /\ delivered[m] + ToSend(m) + ToStore(m) + ToStore(m) <= B
    BY DEF BudgetOf
  <2> HIDE DEF B
  <2>5. delivered'[m] + ToSend(m)' + ToStore(m) + ToStore(m) <= B
    BY <2>1, <2>2, <2>3, <2>4
  <2> QED BY <1>1, <1>2, <2>4, <2>5 DEF BudgetOf, B
<1> QED BY <1>3, <1>4

\* Storing the record spends its place in the budget.
LEMMA BudgetStore ==
  ASSUME TypeOK, TypeOK', Inflight, NEW m \in Messages, BudgetOf(m), HandleRecord(m)
  PROVE  BudgetOf(m)'
<1> DEFINE B == (resets + 1) * (resets + 2)
<1>1. /\ m \in todo /\ m \in batch /\ todo' = todo \ {m} /\ batch' = batch
      /\ UNCHANGED <<queue, flushing, env, resets, delivered>>
  BY DEF HandleRecord, envVars, putVars, TypeOK
<1>2. ~MayStore(m)'
  BY <1>1 DEF MayStore
<1>3. CASE lines' = lines
  <2>1. Own(m)' = Own(m) /\ ToSend(m)' = ToSend(m)
    BY <1>1, <1>3 DEF Own, ToSend
  <2> QED BY <1>1, <1>2, <2>1, BudgetStays, BudgetNumbers
<1>4. CASE lines' = [lines EXCEPT ![RegionOf[m]][m] = @ + 1] /\ m \notin Malformed
  <2>1. Own(m)' = Own(m) + 1 /\ Own(m) \in Nat
    <3>1. RegionOf[m] \in Regions /\ Own(m) \in Nat
      BY BudgetNumbers
    <3>2. lines'[RegionOf[m]][m] = lines[RegionOf[m]][m] + 1
      BY <1>4, <3>1, StoreLines
    <3> QED BY <3>1, <3>2 DEF Own
  <2>2. ToStore(m) = 1 /\ ToStore(m)' = 0
    BY <1>1, <1>2, <1>4 DEF ToStore, MayStore, Inflight
  <2>3. ToSend(m)' <= ToSend(m) + 2
    BY <1>1, <2>1 DEF ToSend
  <2>4. /\ delivered[m] \in Nat /\ ToSend(m) \in Nat /\ ToSend(m)' \in Nat /\ B \in Nat /\ resets \in Nat
        /\ B' = B
    BY <1>1, BudgetNumbers, BudgetNumbersNext
  <2>5. Own(m) + 1 <= resets + 1 /\ delivered[m] + ToSend(m) + 1 + 1 <= B
    BY <2>2 DEF BudgetOf
  <2> HIDE DEF B
  <2>6. Own(m)' + 0 <= resets' + 1
    BY <1>1, <2>1, <2>4, <2>5
  <2>7. delivered'[m] + ToSend(m)' + 0 + 0 <= B'
    BY <1>1, <2>3, <2>4, <2>5
  <2> QED BY <2>2, <2>6, <2>7 DEF BudgetOf, B
<1> QED BY <1>3, <1>4 DEF HandleRecord, Store, fileVars

\* A new start may store the message once more, and send the file twice.
LEMMA BudgetReset ==
  ASSUME TypeOK, TypeOK', NEW m \in Messages, BudgetOf(m), Reset
  PROVE  BudgetOf(m)'
<1>1. /\ resets' = resets + 1 /\ delivered' = delivered /\ lines' = lines /\ flushing' = {}
  BY DEF Reset, fileVars, histVars, putVars
<1>2. Own(m)' = Own(m)
  BY <1>1 DEF Own
<1>3. ToSend(m)' <= Own(m) + Own(m)
  <2>1. Own(m) \in Nat
    BY BudgetNumbers
  <2> QED BY <1>1, <1>2, <2>1 DEF ToSend
<1>4. /\ Own(m) \in Nat /\ ToSend(m) \in Nat /\ ToStore(m) \in {0, 1} /\ delivered[m] \in Nat /\ resets \in Nat
      /\ ToSend(m)' \in Nat /\ ToStore(m)' \in {0, 1}
  BY BudgetNumbers, BudgetNumbersNext
<1>5. Own(m) + ToStore(m) <= resets + 1 /\ delivered[m] + ToSend(m) + ToStore(m) + ToStore(m) <= (resets + 1) * (resets + 2)
  BY DEF BudgetOf
<1>6. Own(m)' + ToStore(m)' <= resets' + 1
  BY <1>1, <1>2, <1>4, <1>5
<1>7. (resets' + 1) * (resets' + 2) = (resets + 1) * (resets + 2) + 2 * (resets + 2)
  BY <1>1, <1>4
<1>8. delivered'[m] + ToSend(m)' + ToStore(m)' + ToStore(m)' <= (resets' + 1) * (resets' + 2)
  <2> DEFINE B == (resets + 1) * (resets + 2)
             C == (resets' + 1) * (resets' + 2)
  <2>1. delivered[m] <= B /\ B \in Nat /\ C = B + 2 * (resets + 2)
    BY <1>4, <1>5, <1>7
  <2>2. ToSend(m)' + ToStore(m)' + ToStore(m)' <= 2 * (resets + 2)
    BY <1>3, <1>4, <1>5
  <2> HIDE DEF B, C
  <2>3. delivered'[m] + ToSend(m)' + ToStore(m)' + ToStore(m)' <= C
    BY <1>1, <1>4, <2>1, <2>2
  <2> QED BY <2>3 DEF C
<1> QED BY <1>6, <1>8 DEF BudgetOf

\* Every step keeps the budget of every message.
LEMMA BudgetStep ==
  ASSUME RInv, TypeOK', [Next]_vars
  PROVE  Budget'
<1>0. TypeOK /\ Running /\ LinesAt /\ Inflight
  BY DEF RInv
<1> SUFFICES ASSUME NEW m \in Messages PROVE BudgetOf(m)'
  BY DEF Budget
<1>1. BudgetOf(m) /\ Own(m) \in Nat /\ ToSend(m) \in Nat /\ RegionOf[m] \in Regions
  BY <1>0, BudgetNumbers DEF RInv, Budget
<1>2. ASSUME UNCHANGED <<lines, flushing, env, resets, delivered>>, MayStore(m)' => MayStore(m)
      PROVE  BudgetOf(m)'
  <2>1. Own(m)' = Own(m) /\ ToSend(m)' = ToSend(m)
    BY <1>2 DEF Own, ToSend
  <2> QED BY <1>0, <1>1, <1>2, <2>1, BudgetStays
<1>3. ASSUME NEW n \in Messages, HandleRecord(n)
      PROVE  BudgetOf(m)'
  <2>1. CASE n = m
    BY <1>0, <1>1, <1>3, <2>1, BudgetStore
  <2>2. CASE n # m
    <3>1. /\ UNCHANGED <<flushing, env, resets, delivered, queue, batch>> /\ todo' = todo \ {n}
          /\ lines' = lines \/ lines' = [lines EXCEPT ![RegionOf[n]][n] = @ + 1]
      BY <1>3 DEF HandleRecord, Store, fileVars, envVars, putVars
    <3>2. Own(m)' = Own(m)
      BY <1>0, <1>1, <2>2, <3>1, StoreLines DEF Own
    <3>3. ToSend(m)' = ToSend(m) /\ (MayStore(m)' => MayStore(m))
      BY <2>2, <3>1, <3>2 DEF ToSend, MayStore
    <3> QED BY <1>0, <1>1, <3>1, <3>2, <3>3, BudgetStays
  <2> QED BY <2>1, <2>2
<1>4. ASSUME NEW r \in Regions, lines' = [lines EXCEPT ![r] = NoLines],
             UNCHANGED <<env, resets, queue, batch, todo>>,
             flushing' = flushing \/ \E f \in Flushers : flushing' = flushing \ {<<f, r>>},
             delivered'[m] = delivered[m]
      PROVE  BudgetOf(m)'
  <2>1. MayStore(m)' => MayStore(m)
    BY <1>4 DEF MayStore
  <2>2. CASE r = RegionOf[m]
    <3>1. Own(m)' = 0
      BY <1>0, <1>4, <2>2, FilesShrink DEF Own
    <3>2. ToSend(m)' = 0
      BY <3>1 DEF ToSend
    <3> QED BY <1>0, <1>1, <1>4, <2>1, <3>1, <3>2, BudgetStays
  <2>3. CASE r # RegionOf[m]
    <3>1. Own(m)' = Own(m)
      BY <1>0, <1>1, <1>4, <2>3, FilesShrink DEF Own
    <3>2. <<"add", RegionOf[m]>> \in flushing' <=> <<"add", RegionOf[m]>> \in flushing
      BY <1>4, <2>3
    <3>3. <<"ticker", RegionOf[m]>> \in flushing' <=> <<"ticker", RegionOf[m]>> \in flushing
      BY <1>4, <2>3
    <3>4. ToSend(m)' = ToSend(m)
      BY <1>4, <3>1, <3>2, <3>3 DEF ToSend
    <3> QED BY <1>0, <1>1, <1>4, <2>1, <3>1, <3>4, BudgetStays
  <2> QED BY <2>2, <2>3
<1>5. ASSUME NEW f \in Flushers, NEW r \in Regions, FlushTruncate(f, r)
      PROVE  BudgetOf(m)'
  BY <1>4, <1>5 DEF FlushTruncate, envVars, histVars, putVars
<1>6. ASSUME NEW r \in Regions, DrainFile(r)
      PROVE  BudgetOf(m)'
  <2>1. BaseName(r) \notin extClients
    BY <1>0, BaseNamesAssumption DEF TypeOK
  <2> QED BY <1>4, <1>6, <2>1 DEF DrainFile, Flush, fnVars, envVars, putVars
<1>7. ASSUME NEW f \in Flushers, NEW r \in Regions, FlushSend(f, r)
      PROVE  BudgetOf(m)'
  BY <1>0, <1>1, <1>7, BudgetSend
<1>8. CASE Reset
  BY <1>0, <1>1, <1>8, BudgetReset
<1>9. CASE Respond
  <2>1. MayStore(m)' => MayStore(m)
    BY <1>0, <1>9 DEF Respond, MayStore, TypeOK
  <2> QED BY <1>2, <1>9, <2>1 DEF Respond, fileVars, envVars, histVars, putVars
<1>10. ASSUME NEW msgs \in SUBSET Messages, Invoke(msgs)
       PROVE  BudgetOf(m)'
  <2>1. MayStore(m)' => MayStore(m)
    BY <1>0, <1>10 DEF Invoke, MayStore, TypeOK
  <2> QED BY <1>2, <1>10, <2>1 DEF Invoke, fileVars, envVars, histVars, putVars
<1>11. ASSUME NEW n \in Messages, VisibilityTimeout(n)
       PROVE  BudgetOf(m)'
  <2>1. MayStore(m)' => MayStore(m)
    BY <1>0, <1>11 DEF VisibilityTimeout, MayStore, TypeOK, fnVars
  <2> QED BY <1>2, <1>11, <2>1 DEF VisibilityTimeout, fnVars, fileVars, envVars, histVars, putVars
<1>12. CASE Shutdown \/ EnvironmentGone \/ NewEnvironment
  <2>1. UNCHANGED <<resets, delivered, queue, batch, todo>>
    BY <1>12 DEF Shutdown, EnvironmentGone, NewEnvironment, fnVars, envVars, histVars, putVars
  <2>2. Own(m)' = Own(m) \/ Own(m)' = 0
    BY <1>1, <1>12, NoLinesType DEF Shutdown, EnvironmentGone, NewEnvironment, Own, fileVars
  <2>3. ToSend(m)' = 0
    <3>1. CASE Shutdown \/ EnvironmentGone
      BY <3>1 DEF Shutdown, EnvironmentGone, ToSend
    <3>2. CASE NewEnvironment
      <4>1. Own(m)' = 0
        BY <1>0, <1>1, <3>2 DEF NewEnvironment, LinesAt, Own, fileVars
      <4> QED BY <4>1 DEF ToSend
    <3> QED BY <1>12, <3>1, <3>2
  <2>4. MayStore(m)' => MayStore(m)
    BY <2>1 DEF MayStore
  <2> QED BY <1>0, <1>1, <2>1, <2>2, <2>3, <2>4, BudgetStays
<1>13. CASE FunctionInit \/ ExtensionInit \/ Register \/ EventsEnd \/ ExtensionExit \/ UNCHANGED vars
  <2>1. UNCHANGED <<lines, flushing, env, resets, delivered, queue, batch, todo>>
    BY <1>13 DEF FunctionInit, ExtensionInit, Register, EventsEnd, ExtensionExit, vars, fnVars, fileVars,
                 envVars, histVars, putVars
  <2> QED BY <1>2, <2>1 DEF MayStore
<1> QED BY <1>3, <1>5, <1>6, <1>7, <1>8, <1>9, <1>10, <1>11, <1>12, <1>13 DEF Next

-----------------------------------------------------------------------------
(* The invariant and what follows from it.                                 *)

\* The invariant holds initially.
LEMMA InitRInv == Init => RInv
<1> SUFFICES ASSUME Init PROVE RInv
  OBVIOUS
<1>1. TypeOK
  BY InitTypes
<1>2. \A r \in Regions, m \in Messages : lines[r][m] = 0
  BY NoLinesType DEF Init
<1>3. Inflight /\ Handled /\ AckedIsStored /\ Covered /\ Running
  BY DEF Init, Inflight, Handled, AckedIsStored, Covered, Running
<1>4. LinesAt
  BY <1>2 DEF Init, LinesAt
<1>5. ASSUME NEW m \in Messages
      PROVE  BudgetOf(m)
  <2>1. Own(m) = 0 /\ ToStore(m) \in {0, 1} /\ delivered[m] = 0 /\ resets = 0
    BY <1>1, <1>2, BudgetNumbers, NoLinesType DEF Init, Own
  <2>2. ToSend(m) = 0
    BY <2>1 DEF ToSend
  <2> QED BY <2>1, <2>2 DEF BudgetOf
<1> QED BY <1>1, <1>3, <1>4, <1>5 DEF RInv, Budget

\* Every step keeps the invariant.
LEMMA RInvStep == RInv /\ [Next]_vars => RInv'
<1> SUFFICES ASSUME RInv, [Next]_vars PROVE RInv'
  OBVIOUS
<1>1. TypeOK'
  BY TypesStep DEF RInv
<1>2. Inflight' /\ Handled' /\ AckedIsStored' /\ Covered' /\ Running' /\ LinesAt'
  BY InflightStep, HandledStep, CoveredStep, RunningStep, LinesStep DEF RInv
<1>3. Budget'
  BY <1>1, BudgetStep
<1> QED BY <1>1, <1>2, <1>3 DEF RInv

\* The invariant holds in every reachable state.
LEMMA RInvariant == Spec => []RInv
<1> QED BY InitRInv, RInvStep, PTL DEF Spec

\* The types hold, and a process that is down has nothing.
THEOREM EnvironmentTypes == Spec => []TypeOK
<1>1. RInv => TypeOK
  BY DEF RInv
<1> QED BY <1>1, RInvariant, PTL

\* A message SQS has deleted was appended to a file or reported, and parses,
\* whatever crashed in between.
THEOREM DeletedIsStored == Spec => []AckedIsStored
<1>1. RInv => AckedIsStored
  BY DEF RInv
<1> QED BY <1>1, RInvariant, PTL

\* A running function's ticker looks at every file with lines, but for those
\* that held lines when it started.
THEOREM TickerSeesFiles == Spec => []TickCoversFiles
<1>1. RInv => TickCoversFiles
  BY DEF RInv, Covered, TickCoversFiles
<1> QED BY <1>1, RInvariant, PTL

\* Redelivery and the two flushers duplicate a record at most so often.
THEOREM DuplicatesBounded == Spec => []DeliveredBound
<1>1. RInv => DeliveredBound
  <2> SUFFICES ASSUME RInv, NEW m \in Messages
               PROVE  delivered[m] <= (resets + 1) * (resets + 2)
    BY DEF DeliveredBound
  <2> DEFINE B == (resets + 1) * (resets + 2)
  <2>1. /\ ToSend(m) \in Nat /\ ToStore(m) \in Nat /\ delivered[m] \in Nat /\ B \in Nat
        /\ delivered[m] + ToSend(m) + ToStore(m) + ToStore(m) <= B
    BY BudgetNumbers DEF RInv, Budget, BudgetOf
  <2> HIDE DEF B
  <2>2. delivered[m] <= B
    BY <2>1
  <2> QED BY <2>2 DEF B
<1> QED BY <1>1, RInvariant, PTL
=============================================================================
