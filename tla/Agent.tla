--------------------------------- MODULE Agent ---------------------------------
(***************************************************************************)
(* One run of the agent: agent/loop.py, agent/dispatcher.py, the tools of   *)
(* agent/tools and their log. In each turn the model either answers or      *)
(* calls tools, which are executed one after the other; what they return    *)
(* goes into the conversation and, for a tool that was executed, into the   *)
(* table tool_calls. Meanwhile the user edits files, and so may processes   *)
(* that a tool started and left behind: a timeout kills the child only.     *)
(*                                                                          *)
(* Which model a turn selects, what it says and what a file holds are left  *)
(* out. A tool that only reads may succeed or not.                          *)
(***************************************************************************)
EXTENDS Transcript, FiniteSets

CONSTANTS
  Files,          \* paths the agent may write
  Barred,         \* any path resolve_path refuses
  MaxIterations,  \* max_iterations
  Asks,           \* bound: the tools models call and what they send as arguments
  MaxCalls        \* bound: tool calls in a run

Tools == {"none", "read", "search", "write", "run", "tests"}

ASSUME BarredAssumption == Barred \notin Files
ASSUME NumbersAssumption == MaxIterations \in Nat /\ MaxCalls \in Nat
ASSUME AsksAssumption == Asks \subseteq Tools \X Arguments

VARIABLES
  messages,  \* the conversation after the goal
  calls,     \* the calls of this turn that have no result yet
  result,    \* whether the tool just executed returned ok
  turns,     \* iterations begun
  at,        \* where the loop is
  log,       \* the tool_calls table
  session,   \* "ok", or "broken": in need of a rollback
  files,     \* files[f]: who wrote it last; "nobody" if it is not there
  stray,     \* whether a process of an earlier tool still runs
  fresh,     \* history: the user has saved the file since write_file looked
  lost       \* history: files of the user that the agent has replaced or
             \* removed, other than fresh ones

history == <<fresh, lost>>
vars == <<messages, calls, result, turns, at, log, session, files, stray, fresh, lost>>

(* A call: its id, which is unique in its turn, what it asks for, the form   *)
(* of its arguments, and those of write_file. "none" is no tool; "read" is   *)
(* read_file or list_dir, "run" is run_python or run_shell.                  *)
Call == [id : 1..MaxCalls, tool : Tools, args : Arguments,
         file : Files \cup {Barred}, overwrite : BOOLEAN]
Turn == [role : {"assistant"}, calls : Seq(Call)]
Result == [role : {"tool"}, call : Call, ok : BOOLEAN]

Ends == {"answered", "stopped", "failed"}

TypeOK ==
  /\ messages \in Seq(Turn \cup Result)
  /\ calls \in Seq(Call)
  /\ result \in BOOLEAN
  /\ turns \in 0..MaxIterations
  /\ at \in {"plan", "turn", "tools", "write", "log"} \cup Ends
  /\ at \in {"tools", "write", "log"} => calls # <<>>
  /\ at = "write" => Head(calls).file \in Files
  /\ log \in Seq([call : Call, ok : BOOLEAN])
  /\ session \in {"ok", "broken"}
  /\ files \in [Files -> {"nobody", "user", "agent"}]
  /\ stray \in BOOLEAN
  /\ fresh \in BOOLEAN
  /\ lost \subseteq Files

-----------------------------------------------------------------------------
(* plan_preamble: a route whose failure is swallowed, also one that leaves  *)
(* the session in need of a rollback (Router!StoreCommit).                  *)
Plan ==
  /\ at = "plan"
  /\ session' \in {"ok", "broken"}
  /\ at' = "turn"
  /\ UNCHANGED <<messages, calls, result, turns, log, files, stray, history>>

(* Mutant: a broken session is waited for. *)
TurnFailsIfOk ==
  /\ at = "turn" /\ turns < MaxIterations /\ session = "ok"
  /\ at' = "failed"
  /\ UNCHANGED <<messages, calls, result, turns, log, session, files, stray, history>>
(* agent_chat_turn raises: no model or account, or the provider's error; it *)
(* does so for sure if its session is broken.                               *)
TurnFails ==
  /\ at = "turn" /\ turns < MaxIterations
  /\ at' = "failed"
  /\ UNCHANGED <<messages, calls, result, turns, log, session, files, stray, history>>

Answer ==
  /\ at = "turn" /\ turns < MaxIterations /\ session = "ok"
  /\ turns' = turns + 1
  /\ at' = "answered"
  /\ UNCHANGED <<messages, calls, result, log, session, files, stray, history>>

(* What the model may call. Only a write has a file and an overwrite flag.   *)
Asked(id) ==
  {[id |-> id, tool |-> a[1], args |-> a[2], file |-> Barred, overwrite |-> FALSE] : a \in Asks}
  \cup {[id |-> id, tool |-> "write", args |-> "object", file |-> f, overwrite |-> o] :
          f \in Files \cup {Barred}, o \in BOOLEAN}
(* At the beginning of a turn every call has its result. *)
CallsSoFar == Len(messages) - turns

CallTools ==
  /\ at = "turn" /\ turns < MaxIterations /\ session = "ok"
  /\ \E n \in 1..(MaxCalls - CallsSoFar) :
       \E asked \in [1..n -> UNION {Asked(i) : i \in 1..n}] :
         /\ \A i \in 1..n : asked[i].id = i
         /\ calls' = asked
         /\ messages' = Append(messages, [role |-> "assistant", calls |-> asked])
  /\ turns' = turns + 1
  /\ at' = "tools"
  /\ UNCHANGED <<result, log, session, files, stray, history>>

(* The loop is over without an answer. *)
Exhaust ==
  /\ at = "turn" /\ turns = MaxIterations
  /\ at' = "stopped"
  /\ UNCHANGED <<messages, calls, result, turns, log, session, files, stray, history>>

-----------------------------------------------------------------------------
(* Mutant: the last call is not seen to be the last. *)
ReplyOn(ok) ==
  /\ messages' = Append(messages, [role |-> "tool", call |-> Head(calls), ok |-> ok])
  /\ calls' = Tail(calls)
  /\ at' = "tools"
(* The first of the calls gets its result, *)
Reply(ok) ==
  /\ messages' = Append(messages, [role |-> "tool", call |-> Head(calls), ok |-> ok])
  /\ calls' = Tail(calls)
  /\ at' = IF Tail(calls) = <<>> THEN "turn" ELSE "tools"
(* or has been executed and is to be logged first. *)
Executed(ok) ==
  /\ result' = ok
  /\ at' = "log"

(* dispatch_tool, of a call that names no tool or whose arguments are no JSON; *)
Refused == Head(calls).args = "garbled" \/ Head(calls).tool = "none"
(* of one whose arguments cannot be asked for a key: args.get raises, in all   *)
(* tools but run_tests, which has none;                                        *)
Raises == Head(calls).args = "other" /\ Head(calls).tool \notin {"none", "tests"}
(* of any other.                                                               *)
Calls(tools) ==
  /\ at = "tools" /\ ~Refused /\ ~Raises
  /\ Head(calls).tool \in tools

(* Mutant: no result for a call that cannot be executed. *)
RefuseSilently ==
  /\ at = "tools" /\ Refused
  /\ calls' = Tail(calls)
  /\ at' = IF Tail(calls) = <<>> THEN "turn" ELSE "tools"
  /\ UNCHANGED <<messages, result, turns, log, session, files, stray, history>>
Refuse ==
  /\ at = "tools" /\ Refused
  /\ Reply(FALSE)
  /\ UNCHANGED <<result, turns, log, session, files, stray, history>>

(* Mutant: what raises is reported to the model instead.                     *)
Report ==
  /\ at = "tools" /\ Raises
  /\ Reply(FALSE)
  /\ UNCHANGED <<result, turns, log, session, files, stray, history>>
Crash ==
  /\ at = "tools" /\ Raises
  /\ at' = "failed"
  /\ UNCHANGED <<messages, calls, result, turns, log, session, files, stray, history>>

(* read_file and list_dir, and run_python and run_shell where disabled,     *)
Read ==
  /\ Calls({"read"})
  /\ \E ok \in BOOLEAN : Executed(ok)
  /\ UNCHANGED <<messages, calls, turns, log, session, files, stray, history>>

(* search_codebase, which is limited in time or in files and matches.       *)
Search ==
  /\ Calls({"search"})
  /\ \E ok \in BOOLEAN : Executed(ok)
  /\ UNCHANGED <<messages, calls, turns, log, session, files, stray, history>>

(* Mutant: a file that is there is no reason to refuse.                      *)
MayReplace(c) == TRUE
MayWrite(c) == files[c.file] = "nobody" \/ c.overwrite
(* write_file, up to p.exists(). *)
WriteCheck ==
  /\ Calls({"write"})
  /\ LET c == Head(calls)
     IN \/ Executed(FALSE)
        \/ /\ c.file \in Files /\ MayWrite(c)
           /\ at' = "write"
           /\ UNCHANGED result
  /\ UNCHANGED <<messages, calls, turns, log, session, files, stray, history>>

(* p.write_text, which may fail half-way. *)
Write ==
  /\ at = "write"
  /\ LET f == Head(calls).file
     IN /\ files' = [files EXCEPT ![f] = "agent"]
        /\ lost' = IF files[f] = "user" /\ ~fresh THEN lost \cup {f} ELSE lost
  /\ fresh' = FALSE
  /\ \E ok \in BOOLEAN : Executed(ok)
  /\ UNCHANGED <<messages, calls, turns, log, session, stray>>

(* run_tests, and run_python and run_shell if enabled: the code may do       *)
(* anything to files, fail, be killed after its timeout, and leave           *)
(* processes behind.                                                        *)
Run ==
  /\ Calls({"run", "tests"})
  /\ \E changed \in SUBSET Files : \E to \in {"nobody", "agent"} :
       /\ files' = [f \in Files |-> IF f \in changed THEN to ELSE files[f]]
       /\ lost' = lost \cup {f \in changed : files[f] = "user"}
  /\ stray' \in {stray, TRUE}
  /\ \E ok \in BOOLEAN : Executed(ok)
  /\ UNCHANGED <<messages, calls, turns, log, session, fresh>>

Row(ok) == [call |-> Head(calls), ok |-> ok]
(* Mutant: only what succeeds is logged. *)
LogOk ==
  /\ at = "log"
  /\ log' = IF result THEN Append(log, Row(result)) ELSE log
  /\ Reply(result)
  /\ result' = FALSE
  /\ UNCHANGED <<turns, session, files, stray, history>>
(* run_logged: the row is committed, and the result goes to the model;      *)
Log ==
  /\ at = "log"
  /\ log' = Append(log, Row(result))
  /\ Reply(result)
  /\ result' = FALSE
  /\ UNCHANGED <<turns, session, files, stray, history>>
(* or the commit raises, and with it run_agent_loop.                        *)
LogFails ==
  /\ at = "log"
  /\ at' = "failed"
  /\ UNCHANGED <<messages, calls, result, turns, log, session, files, stray, history>>

-----------------------------------------------------------------------------
(* The user creates, changes or deletes a file (bound: until the run ends). *)
Edit(f) ==
  /\ at \notin Ends
  /\ \E by \in {"user", "nobody"} :
       /\ files' = [files EXCEPT ![f] = by]
       /\ fresh' = (fresh \/ (at = "write" /\ f = Head(calls).file /\ by = "user"))
  /\ UNCHANGED <<messages, calls, result, turns, at, log, session, stray, lost>>

(* A process left behind writes a file, or ends.                            *)
Stray ==
  /\ stray
  /\ \/ /\ \E f \in Files :
             /\ files' = [files EXCEPT ![f] = "agent"]
             /\ lost' = IF files[f] = "user" THEN lost \cup {f} ELSE lost
        /\ UNCHANGED stray
     \/ stray' = FALSE /\ UNCHANGED <<files, lost>>
  /\ UNCHANGED <<messages, calls, result, turns, at, log, session, fresh>>

Init ==
  /\ messages = <<>> /\ calls = <<>> /\ result = FALSE
  /\ turns = 0
  /\ at \in {"plan", "turn"}
  /\ log = <<>>
  /\ session = "ok"
  /\ files \in [Files -> {"nobody", "user"}]
  /\ stray = FALSE
  /\ fresh = FALSE /\ lost = {}

Step ==
  \/ Plan \/ TurnFails \/ Answer \/ CallTools \/ Exhaust
  \/ Refuse \/ Crash \/ Read \/ Search \/ WriteCheck \/ Write \/ Run \/ Log \/ LogFails

Next == Step \/ Stray \/ \E f \in Files : Edit(f)

(* Provider calls and subprocesses have timeouts, so every step is taken.    *)
Spec == Init /\ [][Next]_vars
FairSpec == Spec /\ WF_vars(Step)

-----------------------------------------------------------------------------
(* What providers demand of a conversation: the results of a turn's calls    *)
(* follow it directly, in order and without a gap, and there is a result     *)
(* for every call before the model is asked again.                           *)
After(i) == i + Len(messages[i].calls) + 1
WellPaired ==
  /\ \A i \in DOMAIN messages :
       IF IsTurn(messages[i])
       THEN i = 1 \/ \E j \in 1..(i - 1) : IsTurn(messages[j]) /\ After(j) = i
       ELSE \E j \in 1..(i - 1) : /\ IsTurn(messages[j]) /\ i < After(j)
                                  /\ messages[j].calls[i - j] = messages[i].call
  /\ at \in {"turn", "answered", "stopped"} /\ messages # <<>> =>
       \E j \in DOMAIN messages : IsTurn(messages[j]) /\ After(j) = Len(messages) + 1

(* Whichever provider the next turn selects, and whichever made the calls of *)
(* earlier ones: in what it is sent, each call is followed by a result with  *)
(* its id and, for Gemini, the name of its tool; and for Anthropic, its      *)
(* input is an object, unless it names no tool or one without arguments.     *)
TranscriptsSent ==
  at = "turn" =>
    LET a == Anthropic(messages)
        g == Gemini(messages)
    IN \A i \in DOMAIN messages : IsTurn(messages[i]) =>
         \A k \in DOMAIN messages[i].calls :
           /\ i + k \in DOMAIN messages /\ ~IsTurn(messages[i + k])
           /\ a[i + k].content[1].tool_use_id = a[i].content[k].id
           /\ g[i + k].parts[1].id = g[i].parts[k].id
           /\ g[i + k].parts[1].name = g[i].parts[k].name
           /\ a[i].content[k].input = "object" \/ a[i].content[k].name \in {"none", "tests"}

(* The log tells what the model was told, and explains what became of the    *)
(* files: each call that was executed has its row, in the order of the       *)
(* conversation; and a file the agent wrote was written by a call in the     *)
(* log, or by the one whose row is still to be committed. Only a run that    *)
(* failed may leave that one unlogged.                                       *)
Told == {i \in DOMAIN messages :
           /\ ~IsTurn(messages[i])
           /\ messages[i].call.tool # "none" /\ messages[i].call.args # "garbled"}
Place(i) == Cardinality({j \in Told : j <= i})
Runs(c) == c.tool = "tests" \/ (c.tool = "run" /\ c.args = "object")
Writes(c, f) == Runs(c) \/ (c.tool = "write" /\ c.file = f)
Accounted ==
  {log[i].call : i \in DOMAIN log} \cup
  (IF at \in {"log", "failed"} /\ calls # <<>> THEN {Head(calls)} ELSE {})
LogTells ==
  /\ Len(log) = Cardinality(Told)
  /\ \A i \in Told : log[Place(i)] = [call |-> messages[i].call, ok |-> messages[i].ok]
  /\ \A f \in Files : files[f] = "agent" => \E c \in Accounted : Writes(c, f)

(* "Refuse to clobber an existing file unless the caller explicitly opts     *)
(* in": what the user has written is lost only to code that was run, or to a *)
(* write that asked to replace it, and the log has that call; or else the    *)
(* user has saved it while write_file was about to write it.                 *)
Replaces(c, f) == Runs(c) \/ (c.tool = "write" /\ c.file = f /\ c.overwrite)
UserFilesKept == \A f \in lost : \E c \in Accounted : Replaces(c, f)

(* The run comes to an end, whatever the models call.                        *)
RunEnds == <>(at \in Ends)
=============================================================================
