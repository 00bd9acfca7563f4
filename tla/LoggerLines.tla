----------------------------- MODULE LoggerLines -----------------------------
(***************************************************************************)
(* internal/logger: the one logger that the goroutines of a process share. *)
(*                                                                         *)
(* A level method sets the prefix of the log.Logger and then prints, two   *)
(* calls that are atomic one by one (the standard library's) and not       *)
(* together.  Init runs in the main goroutine before the others start, as  *)
(* every main function has it; Get, given no Init, does the same.          *)
(***************************************************************************)
EXTENDS Integers, Sequences

CONSTANTS Goroutines,
          Calls,      \* Calls[g]: the levels of the lines g logs, in order
          InitCalls   \* the levels given to Init, one call after the other

DEBUG == 0
INFO == 1
WARN == 2
ERROR == 3
Levels == {DEBUG, INFO, WARN, ERROR}

VARIABLES
  inits,          \* the calls of Init to come
  once, level,    \* whether Init has been done, and the level it set
  prefix,         \* the prefix of the shared log.Logger, as its level
  todo,           \* the calls each goroutine has to make
  pc,             \* where each goroutine is
  lines           \* the lines written: the level asked for, the prefix printed

vars == <<inits, once, level, prefix, todo, pc, lines>>

NoPrefix == -1

Init ==
  /\ inits = InitCalls
  /\ once = FALSE /\ level = INFO /\ prefix = NoPrefix
  /\ todo = Calls
  /\ pc = [g \in Goroutines |-> "idle"]
  /\ lines = <<>>

\* Only the first call has an effect.
InitLogger ==
  /\ inits # <<>>
  /\ once' = TRUE
  /\ level' = IF once THEN level ELSE Head(inits)
  /\ inits' = Tail(inits)
  /\ UNCHANGED <<prefix, todo, pc, lines>>

\* Without an Init, Get makes the logger of the default level.
Get ==
  /\ inits = <<>> /\ ~once
  /\ once' = TRUE
  /\ UNCHANGED <<inits, level, prefix, todo, pc, lines>>

Ready(g) == inits = <<>> /\ once /\ todo[g] # <<>>
Return(g) == /\ todo' = [todo EXCEPT ![g] = Tail(@)]
             /\ pc' = [pc EXCEPT ![g] = "idle"]

\* A line below the level is not written.
BelowLevel(g) ==
  /\ Ready(g) /\ pc[g] = "idle" /\ level > Head(todo[g])
  /\ Return(g)
  /\ UNCHANGED <<inits, once, level, prefix, lines>>

SetPrefix(g) ==
  /\ Ready(g) /\ pc[g] = "idle" /\ level <= Head(todo[g])
  /\ prefix' = Head(todo[g])
  /\ pc' = [pc EXCEPT ![g] = "print"]
  /\ UNCHANGED <<inits, once, level, todo, lines>>

Printf(g) ==
  /\ pc[g] = "print"
  /\ lines' = Append(lines, [by |-> g, level |-> Head(todo[g]), prefix |-> prefix])
  /\ Return(g)
  /\ UNCHANGED <<inits, once, level, prefix>>

Next == InitLogger \/ Get \/ \E g \in Goroutines : BelowLevel(g) \/ SetPrefix(g) \/ Printf(g)
Spec == Init /\ [][Next]_vars

-----------------------------------------------------------------------------
\* "use the ERROR filter pattern which will match any error logs the solution
\* produces": a line is printed with the prefix ERROR exactly when it was
\* logged by Error.
ErrorsMarked ==
  \A i \in DOMAIN lines : lines[i].level = ERROR <=> lines[i].prefix = ERROR
=============================================================================
