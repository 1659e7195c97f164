------------------------------ MODULE AgentProofs ------------------------------
(* Proofs about Agent, for any files, iterations and calls.                  *)
EXTENDS Agent, TLAPS, FiniteSetTheorems

Message == Turn \cup Result

LEMMA MessageTypes ==
  /\ \A m \in Message : IF IsTurn(m) THEN m \in Turn /\ m.calls \in Seq(Call)
                        ELSE m \in Result /\ m.call \in Call /\ m.ok \in BOOLEAN
  /\ \A c \in Call, ok \in BOOLEAN :
       /\ [role |-> "tool", call |-> c, ok |-> ok] \in Message
       /\ ~IsTurn([role |-> "tool", call |-> c, ok |-> ok])
  /\ \A cs \in Seq(Call) : /\ [role |-> "assistant", calls |-> cs] \in Message
                           /\ IsTurn([role |-> "assistant", calls |-> cs])
BY DEF Message, Turn, Result, IsTurn

LEMMA Appending ==
  ASSUME NEW S, NEW s \in Seq(S), NEW e \in S
  PROVE  /\ Append(s, e) \in Seq(S) /\ Append(s, e) # <<>>
         /\ Len(Append(s, e)) = Len(s) + 1
         /\ DOMAIN Append(s, e) = 1..(Len(s) + 1)
         /\ \A i \in 1..Len(s) : Append(s, e)[i] = s[i]
         /\ Append(s, e)[Len(s) + 1] = e
OBVIOUS

LEMMA Dropping ==
  ASSUME NEW S, NEW s \in Seq(S), s # <<>>
  PROVE  /\ Head(s) \in S /\ Head(s) = s[1]
         /\ Tail(s) \in Seq(S)
         /\ Len(s) \in Nat \ {0} /\ Len(Tail(s)) = Len(s) - 1
         /\ \A i \in 1..Len(Tail(s)) : Tail(s)[i] = s[i + 1]
OBVIOUS

-----------------------------------------------------------------------------
(* Types. Every turn but the last has added its message.                     *)
Typed == TypeOK /\ (at # "answered" => turns <= Len(messages))

LEMMA AskedTypes ==
  ASSUME NEW i \in 1..MaxCalls
  PROVE  Asked(i) \subseteq Call /\ \A c \in Asked(i) : c.id = i
<1>1. ASSUME NEW a \in Asks
      PROVE  [id |-> i, tool |-> a[1], args |-> a[2], file |-> Barred, overwrite |-> FALSE] \in Call
  <2>1. a[1] \in Tools /\ a[2] \in Arguments
      BY AsksAssumption
  <2> QED
      BY <2>1 DEF Call
<1>2. ASSUME NEW f \in Files \cup {Barred}, NEW o \in BOOLEAN
      PROVE  [id |-> i, tool |-> "write", args |-> "object", file |-> f, overwrite |-> o] \in Call
    BY DEF Call, Tools, Arguments
<1> QED
    BY <1>1, <1>2 DEF Asked

LEMMA TypedInit == Init => Typed
<1> SUFFICES ASSUME Init PROVE Typed
    OBVIOUS
<1>1. Len(messages) = 0 /\ turns = 0 /\ turns \in 0..MaxIterations
    BY NumbersAssumption DEF Init
<1>2. messages \in Seq(Turn \cup Result) /\ calls \in Seq(Call) /\ log \in Seq([call : Call, ok : BOOLEAN])
    BY DEF Init
<1>3. at \in {"plan", "turn"} /\ at \notin {"tools", "write", "log"} /\ at # "answered"
    BY DEF Init
<1>4. files \in [Files -> {"nobody", "user", "agent"}] /\ session = "ok" /\ lost = {}
    BY DEF Init
<1>5. result \in BOOLEAN /\ stray \in BOOLEAN /\ fresh \in BOOLEAN
    BY DEF Init
<1> QED
    BY <1>1, <1>2, <1>3, <1>4, <1>5 DEF Typed, TypeOK

LEMMA CallToolsFacts ==
  ASSUME Typed, CallTools
  PROVE  /\ calls' \in Seq(Call) /\ calls' # <<>>
         /\ messages' = Append(messages, [role |-> "assistant", calls |-> calls'])
         /\ \A k \in 1..Len(calls') : calls'[k].id = k
<1>1. PICK n \in 1..(MaxCalls - CallsSoFar) :
        \E asked \in [1..n -> UNION {Asked(i) : i \in 1..n}] :
          /\ \A i \in 1..n : asked[i].id = i
          /\ calls' = asked
          /\ messages' = Append(messages, [role |-> "assistant", calls |-> asked])
    BY DEF CallTools
<1>2. PICK asked \in [1..n -> UNION {Asked(i) : i \in 1..n}] :
          /\ \A i \in 1..n : asked[i].id = i
          /\ calls' = asked
          /\ messages' = Append(messages, [role |-> "assistant", calls |-> asked])
    BY <1>1
<1>3. n \in Nat /\ n > 0 /\ n <= MaxCalls
  <2>1. CallsSoFar \in Nat
    <3>1. Len(messages) \in Nat /\ turns \in Nat /\ turns <= Len(messages)
        BY NumbersAssumption DEF Typed, TypeOK, CallTools
    <3> QED
        BY <3>1 DEF CallsSoFar
  <2> QED
      BY <2>1, NumbersAssumption
<1>4. UNION {Asked(i) : i \in 1..n} \subseteq Call
  <2>1. \A i \in 1..n : i \in 1..MaxCalls
      BY <1>3, NumbersAssumption
  <2>2. \A i \in 1..n : Asked(i) \subseteq Call
      BY <2>1, AskedTypes
  <2> QED
      BY <2>2
<1>5. asked \in [1..n -> Call]
    BY <1>4
<1>6. asked \in Seq(Call) /\ Len(asked) = n /\ asked # <<>>
    BY <1>3, <1>5
<1> QED
    BY <1>2, <1>3, <1>6

LEMMA ReplyFacts ==
  ASSUME Typed, calls # <<>>, NEW ok \in BOOLEAN, Reply(ok)
  PROVE  /\ messages' \in Seq(Message) /\ Len(messages') = Len(messages) + 1
         /\ messages' = Append(messages, [role |-> "tool", call |-> Head(calls), ok |-> ok])
         /\ calls' = Tail(calls) /\ calls' \in Seq(Call)
         /\ at' = IF calls' = <<>> THEN "turn" ELSE "tools"
<1>1. Head(calls) \in Call /\ Tail(calls) \in Seq(Call)
    BY Dropping DEF Typed, TypeOK
<1>2. messages \in Seq(Message) /\ [role |-> "tool", call |-> Head(calls), ok |-> ok] \in Message
    BY <1>1, MessageTypes DEF Typed, TypeOK, Message
<1>3. /\ messages' = Append(messages, [role |-> "tool", call |-> Head(calls), ok |-> ok])
      /\ calls' = Tail(calls)
      /\ at' = IF Tail(calls) = <<>> THEN "turn" ELSE "tools"
    BY DEF Reply
<1>4. messages' \in Seq(Message) /\ Len(messages') = Len(messages) + 1
    BY <1>2, <1>3, Appending
<1> QED
    BY <1>1, <1>3, <1>4

LEMMA ReplyStep ==
  ASSUME Typed, calls # <<>>, at \in {"tools", "log"}, NEW ok \in BOOLEAN, Reply(ok),
         log' \in Seq([call : Call, ok : BOOLEAN]), result' \in BOOLEAN,
         UNCHANGED <<turns, session, files, stray, fresh, lost>>
  PROVE  Typed'
<1>1. /\ messages' \in Seq(Message) /\ Len(messages') = Len(messages) + 1
      /\ calls' \in Seq(Call) /\ at' = IF calls' = <<>> THEN "turn" ELSE "tools"
    BY ReplyFacts
<1>2. turns' \in 0..MaxIterations /\ turns' <= Len(messages')
  <2>1. turns \in 0..MaxIterations /\ turns <= Len(messages) /\ Len(messages) \in Nat
      BY DEF Typed, TypeOK
  <2> QED
      BY <1>1, <2>1, NumbersAssumption
<1> QED
    BY <1>1, <1>2 DEF Message, Typed, TypeOK

LEMMA TypedStep == Typed /\ [Next]_vars => Typed'
<1> SUFFICES ASSUME Typed, [Next]_vars PROVE Typed'
    OBVIOUS
<1>1. CASE UNCHANGED vars
    BY <1>1 DEF Typed, TypeOK, Ends, history, vars
<1>2. CASE Plan \/ TurnFails \/ Answer \/ Exhaust
    BY <1>2, NumbersAssumption DEF Typed, TypeOK, Ends, history, Plan, TurnFails, Answer, Exhaust
<1>3. CASE CallTools
  <2>1. messages' \in Seq(Message) /\ Len(messages') = Len(messages) + 1
    <3>1. messages \in Seq(Message) /\ [role |-> "assistant", calls |-> calls'] \in Message
        BY <1>3, CallToolsFacts, MessageTypes DEF Message, Typed, TypeOK
    <3>2. messages' = Append(messages, [role |-> "assistant", calls |-> calls'])
        BY <1>3, CallToolsFacts
    <3> QED
        BY <3>1, <3>2, Appending
  <2> QED
    <3>1. calls' \in Seq(Call) /\ calls' # <<>>
        BY <1>3, CallToolsFacts
    <3>2. turns' \in 0..MaxIterations /\ turns' <= Len(messages')
        BY <1>3, <2>1, NumbersAssumption DEF CallTools, Typed, TypeOK
    <3>3. at' = "tools" /\ UNCHANGED <<result, log, session, files, stray, fresh, lost>>
        BY <1>3 DEF CallTools, history
    <3> QED
        BY <2>1, <3>1, <3>2, <3>3 DEF Message, Typed, TypeOK
<1>4. CASE Refuse
  <2>1. calls # <<>> /\ Reply(FALSE)
      BY <1>4 DEF Refuse, Typed, TypeOK
  <2>2. at \in {"tools", "log"} /\ UNCHANGED <<result, turns, log, session, files, stray, fresh, lost>>
      BY <1>4 DEF Refuse, history
  <2>3. log' \in Seq([call : Call, ok : BOOLEAN]) /\ result' \in BOOLEAN
      BY <2>2 DEF Typed, TypeOK
  <2> QED
      BY <2>1, <2>2, <2>3, ReplyStep
<1>5. CASE Crash \/ LogFails
    BY <1>5 DEF Typed, TypeOK, Ends, history, Crash, LogFails
<1>6. CASE Read \/ Search
    BY <1>6 DEF Typed, TypeOK, Ends, history, Read, Search, Calls, Executed
<1>7. CASE WriteCheck
    BY <1>7 DEF Typed, TypeOK, Ends, history, WriteCheck, Calls, Executed
<1>8. CASE Write
  <2>1. files' \in [Files -> {"nobody", "user", "agent"}] /\ lost' \subseteq Files
      BY <1>8 DEF Typed, TypeOK, Ends, history, Write
  <2> QED
      BY <1>8, <2>1 DEF Typed, TypeOK, Ends, history, Write, Executed
<1>9. CASE Run
  <2>1. files' \in [Files -> {"nobody", "user", "agent"}] /\ lost' \subseteq Files
      BY <1>9 DEF Typed, TypeOK, Ends, history, Run
  <2> QED
      BY <1>9, <2>1 DEF Typed, TypeOK, Ends, history, Run, Calls, Executed
<1>10. CASE Log
  <2>1. calls # <<>> /\ Reply(result) /\ result \in BOOLEAN
      BY <1>10 DEF Log, Typed, TypeOK
  <2>2. log' \in Seq([call : Call, ok : BOOLEAN])
    <3>1. Row(result) \in [call : Call, ok : BOOLEAN]
        BY <2>1, Dropping DEF Row, Typed, TypeOK
    <3> QED
        BY <1>10, <3>1, Appending DEF Log, Typed, TypeOK
  <2> QED
      BY <1>10, <2>1, <2>2, ReplyStep DEF Log, history
<1>11. CASE Stray
  <2>1. files' \in [Files -> {"nobody", "user", "agent"}] /\ lost' \subseteq Files
      BY <1>11 DEF Typed, TypeOK, Ends, history, Stray
  <2> QED
      BY <1>11, <2>1 DEF Typed, TypeOK, Ends, history, Stray
<1>12. ASSUME NEW f \in Files, Edit(f) PROVE Typed'
  <2>1. files' \in [Files -> {"nobody", "user", "agent"}]
      BY <1>12 DEF Typed, TypeOK, Ends, history, Edit
  <2> QED
      BY <1>12, <2>1 DEF Typed, TypeOK, Ends, history, Edit
<1> QED
    BY <1>1, <1>2, <1>3, <1>4, <1>5, <1>6, <1>7, <1>8, <1>9, <1>10, <1>11, <1>12 DEF Next, Step

(* Every state is of its type. *)
THEOREM TypeCorrect == Spec => []TypeOK
<1>1. Typed => TypeOK
    BY DEF Typed
<1> QED
    BY <1>1, TypedInit, TypedStep, PTL DEF Spec

-----------------------------------------------------------------------------
(* Files. What is accounted for stays so: an executed call is in the log by   *)
(* the time its result is in the conversation.                               *)
LEMMA AccountedGrows ==
  ASSUME Typed, [Next]_vars
  PROVE  Accounted \subseteq Accounted'
<1>1. CASE UNCHANGED <<log, calls, at>>
    BY <1>1 DEF Accounted
<1>2. CASE UNCHANGED <<log, calls>> /\ at \notin {"log", "failed"}
    BY <1>2 DEF Accounted
<1>3. CASE log' = log /\ at \notin {"log", "failed"}
    BY <1>3 DEF Accounted
<1>4. CASE Log
  <2>1. log \in Seq([call : Call, ok : BOOLEAN]) /\ calls # <<>> /\ Row(result) \in [call : Call, ok : BOOLEAN]
      BY <1>4, Dropping DEF Typed, TypeOK, Log, Row
  <2>2. log' = Append(log, Row(result))
      BY <1>4 DEF Log
  <2>3. \A i \in DOMAIN log : i \in DOMAIN log' /\ log'[i] = log[i]
      BY <2>1, <2>2, Appending
  <2>4. \E i \in DOMAIN log' : log'[i].call = Head(calls)
    <3>1. Len(log) + 1 \in DOMAIN log' /\ log'[Len(log) + 1] = Row(result)
        BY <2>1, <2>2, Appending
    <3>2. Row(result).call = Head(calls)
        BY DEF Row
    <3> QED
        BY <3>1, <3>2
  <2>5. \A c \in Accounted : (\E i \in DOMAIN log : c = log[i].call) \/ c = Head(calls)
      BY DEF Accounted
  <2> QED
      BY <2>3, <2>4, <2>5 DEF Accounted
<1>5. CASE LogFails
    BY <1>5 DEF LogFails, Accounted
<1>6. Next => \/ Log
              \/ LogFails
              \/ log' = log /\ at \notin {"log", "failed"}
              \/ UNCHANGED <<log, calls, at>>
  <2>1. Plan \/ TurnFails \/ Answer \/ CallTools \/ Exhaust => log' = log /\ at \notin {"log", "failed"}
      BY DEF Plan, TurnFails, Answer, CallTools, Exhaust
  <2>2. Refuse \/ Crash \/ Read \/ Search => log' = log /\ at \notin {"log", "failed"}
      BY DEF Refuse, Crash, Read, Search, Calls
  <2>3. WriteCheck \/ Write \/ Run => log' = log /\ at \notin {"log", "failed"}
    <3>1. WriteCheck => log' = log /\ at \notin {"log", "failed"}
        BY DEF WriteCheck, Calls
    <3>2. Write => log' = log /\ at \notin {"log", "failed"}
        BY DEF Write
    <3>3. Run => log' = log /\ at \notin {"log", "failed"}
        BY DEF Run, Calls
    <3> QED
        BY <3>1, <3>2, <3>3
  <2>4. Stray \/ (\E f \in Files : Edit(f)) => UNCHANGED <<log, calls, at>>
      BY DEF Stray, Edit
  <2> QED
    <3>1. Next => Step \/ Stray \/ \E f \in Files : Edit(f)
        BY DEF Next
    <3>2. Step => Log \/ LogFails \/ (log' = log /\ at \notin {"log", "failed"})
        BY <2>1, <2>2, <2>3 DEF Step
    <3> QED
        BY <2>4, <3>1, <3>2
<1> QED
    BY <1>1, <1>3, <1>4, <1>5, <1>6 DEF vars

(* write_file writes over a file of the user only if it was asked to or the  *)
(* user has saved the file since; only a call that was run leaves a process. *)
MayStillWrite ==
  at = "write" =>
    /\ Head(calls).tool = "write"
    /\ Head(calls).overwrite \/ fresh \/ files[Head(calls).file] # "user"
StrayWasRun == stray => \E c \in Accounted : Runs(c)
Explained == \A f \in Files : files[f] = "agent" => \E c \in Accounted : Writes(c, f)
Kept == MayStillWrite /\ StrayWasRun /\ Explained /\ UserFilesKept

LEMMA KeptInit == Init => Kept
BY DEF Init, Kept, MayStillWrite, StrayWasRun, Explained, UserFilesKept

LEMMA KeptQuiet ==
  ASSUME Kept, Accounted \subseteq Accounted', UNCHANGED <<files, lost, stray>>,
         at' # "write" \/ UNCHANGED <<at, calls, fresh>>
  PROVE  Kept'
<1>1. MayStillWrite'
    BY DEF Kept, MayStillWrite
<1>2. StrayWasRun' /\ Explained' /\ UserFilesKept'
    BY DEF Kept, StrayWasRun, Explained, UserFilesKept, Runs, Writes, Replaces
<1> QED
    BY <1>1, <1>2 DEF Kept

LEMMA KeptStep == Typed /\ Kept /\ [Next]_vars => Kept'
<1> SUFFICES ASSUME Typed, Kept, [Next]_vars PROVE Kept'
    OBVIOUS
<1>0. Accounted \subseteq Accounted'
    BY AccountedGrows
<1>1. CASE UNCHANGED vars
    BY <1>0, <1>1, KeptQuiet DEF vars
<1>2. CASE Plan \/ TurnFails \/ Answer \/ CallTools \/ Exhaust \/ Refuse \/ Crash \/ Read \/ Search
           \/ Log \/ LogFails
  <2>1. UNCHANGED <<files, lost, stray>> /\ at' # "write"
      BY <1>2 DEF Plan, TurnFails, Answer, CallTools, Exhaust, Refuse, Crash, Read, Search, Log, LogFails,
                  Reply, Executed, history
  <2> QED
      BY <1>0, <2>1, KeptQuiet
<1>3. CASE WriteCheck
  <2>1. UNCHANGED <<files, lost, stray, fresh, calls, log>> /\ Head(calls).tool = "write"
      BY <1>3 DEF WriteCheck, Calls, history
  <2>2. at' = "write" => files[Head(calls).file] = "nobody" \/ Head(calls).overwrite
      BY <1>3 DEF WriteCheck, MayWrite, Executed
  <2>3. MayStillWrite'
      BY <2>1, <2>2 DEF MayStillWrite
  <2>4. StrayWasRun' /\ Explained' /\ UserFilesKept'
      BY <1>0, <2>1 DEF Kept, StrayWasRun, Explained, UserFilesKept, Runs, Writes, Replaces
  <2> QED
      BY <2>3, <2>4 DEF Kept
<1>4. CASE Write
  <2> DEFINE c == Head(calls)
  <2>1. /\ at = "write" /\ at' = "log" /\ calls' = calls /\ calls # <<>> /\ stray' = stray
        /\ files' = [files EXCEPT ![c.file] = "agent"]
        /\ lost' = IF files[c.file] = "user" /\ ~fresh THEN lost \cup {c.file} ELSE lost
      BY <1>4 DEF Write, Executed, Typed, TypeOK
  <2>2. c \in Accounted'
      BY <2>1 DEF Accounted
  <2>3. c.tool = "write" /\ (c.overwrite \/ fresh \/ files[c.file] # "user")
      BY <2>1 DEF Kept, MayStillWrite
  <2>4. MayStillWrite' /\ StrayWasRun'
      BY <1>0, <2>1 DEF Kept, MayStillWrite, StrayWasRun, Runs
  <2>5. Explained'
    <3> SUFFICES ASSUME NEW f \in Files, files'[f] = "agent"
                 PROVE  \E d \in Accounted' : Writes(d, f)
        BY DEF Explained, Writes, Runs
    <3>1. CASE f = c.file
        BY <2>2, <2>3, <3>1 DEF Writes
    <3>2. CASE f # c.file
      <4>1. files[f] = "agent"
          BY <2>1, <3>2 DEF Typed, TypeOK
      <4> QED
          BY <1>0, <4>1 DEF Kept, Explained
    <3> QED
        BY <3>1, <3>2
  <2>6. UserFilesKept'
    <3> SUFFICES ASSUME NEW f \in lost'
                 PROVE  \E d \in Accounted' : Replaces(d, f)
        BY DEF UserFilesKept, Replaces, Runs
    <3>1. CASE f \in lost
        BY <1>0, <3>1 DEF Kept, UserFilesKept
    <3>2. CASE f \notin lost
      <4>1. f = c.file /\ files[f] = "user" /\ ~fresh
          BY <2>1, <3>2
      <4> QED
          BY <2>2, <2>3, <4>1 DEF Replaces
    <3> QED
        BY <3>1, <3>2
  <2> QED
      BY <2>4, <2>5, <2>6 DEF Kept
<1>5. CASE Run
  <2>1. PICK changed \in SUBSET Files, to \in {"nobody", "agent"} :
            /\ files' = [f \in Files |-> IF f \in changed THEN to ELSE files[f]]
            /\ lost' = lost \cup {f \in changed : files[f] = "user"}
      BY <1>5 DEF Run
  <2>2. at' = "log" /\ calls' = calls /\ calls # <<>>
      BY <1>5 DEF Run, Calls, Executed, Typed, TypeOK
  <2>3. Head(calls) \in Accounted'
      BY <2>2 DEF Accounted
  <2>4. Runs(Head(calls))
    <3>1. Head(calls) \in Call
        BY <2>2, Dropping DEF Typed, TypeOK
    <3>2. Head(calls).args \in Arguments
        BY <3>1 DEF Call
    <3> QED
        BY <1>5, <3>2 DEF Run, Calls, Refused, Raises, Arguments, Runs
  <2>5. MayStillWrite' /\ StrayWasRun'
      BY <2>2, <2>3, <2>4 DEF MayStillWrite, StrayWasRun, Runs
  <2>6. Explained' /\ UserFilesKept'
      BY <2>3, <2>4 DEF Explained, UserFilesKept, Runs, Writes, Replaces
  <2> QED
      BY <2>5, <2>6 DEF Kept
<1>6. CASE Stray
  <2>1. stray /\ UNCHANGED <<calls, at, fresh, log>>
      BY <1>6 DEF Stray
  <2>2. PICK c \in Accounted' : Runs(c)
      BY <1>0, <2>1 DEF Kept, StrayWasRun
  <2>3. StrayWasRun' /\ Explained' /\ UserFilesKept'
      BY <2>2 DEF StrayWasRun, Explained, UserFilesKept, Runs, Writes, Replaces
  <2>4. MayStillWrite'
    <3>1. at = "write" => Head(calls).file \in Files
        BY DEF Typed, TypeOK
    <3>2. \A f \in Files : files'[f] = "user" => files[f] = "user"
        BY <1>6 DEF Stray, Typed, TypeOK
    <3> QED
        BY <2>1, <3>1, <3>2 DEF Kept, MayStillWrite
  <2> QED
      BY <2>3, <2>4 DEF Kept
<1>7. ASSUME NEW f \in Files, Edit(f) PROVE Kept'
  <2>1. PICK by \in {"user", "nobody"} :
            /\ files' = [files EXCEPT ![f] = by]
            /\ fresh' = (fresh \/ (at = "write" /\ f = Head(calls).file /\ by = "user"))
      BY <1>7 DEF Edit
  <2>2. UNCHANGED <<calls, at, log, stray, lost>>
      BY <1>7 DEF Edit
  <2>3. \A g \in Files : files'[g] = "agent" => files[g] = "agent"
      BY <2>1 DEF Typed, TypeOK
  <2>4. StrayWasRun' /\ Explained' /\ UserFilesKept'
      BY <1>0, <2>2, <2>3 DEF Kept, StrayWasRun, Explained, UserFilesKept, Runs, Writes, Replaces
  <2>5. MayStillWrite'
    <3> SUFFICES ASSUME at = "write"
                 PROVE  /\ Head(calls).tool = "write"
                        /\ Head(calls).overwrite \/ fresh' \/ files'[Head(calls).file] # "user"
        BY <2>2 DEF MayStillWrite
    <3>1. Head(calls).file \in Files
        BY DEF Typed, TypeOK
    <3>2. CASE f = Head(calls).file /\ by = "user"
        BY <2>1, <3>2 DEF Kept, MayStillWrite
    <3>3. CASE f = Head(calls).file /\ by = "nobody"
      <4>1. files'[Head(calls).file] = "nobody"
          BY <2>1, <3>1, <3>3 DEF Typed, TypeOK
      <4> QED
          BY <4>1 DEF Kept, MayStillWrite
    <3>4. CASE f # Head(calls).file
      <4>1. files'[Head(calls).file] = files[Head(calls).file]
          BY <2>1, <3>1, <3>4 DEF Typed, TypeOK
      <4>2. fresh' = fresh
          BY <2>1, <3>4 DEF Typed, TypeOK
      <4> QED
          BY <4>1, <4>2 DEF Kept, MayStillWrite
    <3> QED
        BY <3>2, <3>3, <3>4
  <2> QED
      BY <2>4, <2>5 DEF Kept
<1> QED
    BY <1>1, <1>2, <1>3, <1>4, <1>5, <1>6, <1>7 DEF Next, Step

(* "Refuse to clobber an existing file unless the caller explicitly opts     *)
(* in": the files of the user that are lost were lost to a call in the log   *)
(* or about to be logged that ran code or asked to replace them.             *)
THEOREM UserFilesAreKept == Spec => []UserFilesKept
<1>1. Kept => UserFilesKept
    BY DEF Kept
<1> QED
    BY <1>1, TypedInit, TypedStep, KeptInit, KeptStep, PTL DEF Spec

-----------------------------------------------------------------------------
(* The conversation. Each turn lies behind the results of the one before,    *)
TurnsApart ==
  \A i, j \in 1..Len(messages) :
    i < j /\ IsTurn(messages[i]) /\ IsTurn(messages[j]) => After(i) <= j
(* the results there are belong to its calls, in order,                      *)
InOrder ==
  \A i \in 1..Len(messages) : IsTurn(messages[i]) =>
    \A k \in 1..Len(messages[i].calls) : i + k <= Len(messages) =>
      ~IsTurn(messages[i + k]) /\ messages[i + k].call = messages[i].calls[k]
(* the calls without a result are the rest of those of the last turn,        *)
IsLast(j) ==
  /\ IsTurn(messages[j]) /\ After(j) = Len(messages) + 1 + Len(calls)
  /\ \A k \in 1..Len(calls) : calls[k] = messages[j].calls[Len(messages) - j + k]
Pending ==
  /\ IF Len(messages) = 0 THEN calls = <<>> ELSE \E j \in 1..Len(messages) : IsLast(j)
  /\ at \in {"plan", "turn", "answered", "stopped"} => calls = <<>>
(* nothing stands between a turn and the next but its results,               *)
Paired ==
  \A i \in 1..Len(messages) :
    IF IsTurn(messages[i])
    THEN i = 1 \/ \E j \in 1..(i - 1) : IsTurn(messages[j]) /\ After(j) = i
    ELSE \E j \in 1..(i - 1) : /\ IsTurn(messages[j]) /\ i < After(j)
                               /\ messages[j].calls[i - j] = messages[i].call
(* calls are numbered in their turn,                                         *)
Numbered ==
  \A i \in 1..Len(messages) : IsTurn(messages[i]) =>
    \A k \in 1..Len(messages[i].calls) : messages[i].calls[k].id = k
(* and arguments that make a tool raise have no result.                      *)
Survives(c) == c.args = "other" => c.tool \in {"none", "tests"}
Survived ==
  /\ \A i \in 1..Len(messages) : ~IsTurn(messages[i]) => Survives(messages[i].call)
  /\ at \in {"write", "log"} => ~Refused /\ Survives(Head(calls))
Conversation == TurnsApart /\ InOrder /\ Pending /\ Paired /\ Numbered /\ Survived

LEMMA MessageFacts ==
  ASSUME Typed
  PROVE  /\ Len(messages) \in Nat /\ DOMAIN messages = 1..Len(messages) /\ Len(calls) \in Nat
         /\ \A i \in 1..Len(messages) : IsTurn(messages[i]) =>
              /\ messages[i].calls \in Seq(Call) /\ Len(messages[i].calls) \in Nat
              /\ DOMAIN messages[i].calls = 1..Len(messages[i].calls)
              /\ After(i) = i + Len(messages[i].calls) + 1 /\ After(i) \in Nat
<1>1. messages \in Seq(Message) /\ calls \in Seq(Call)
    BY DEF Typed, TypeOK, Message
<1>2. \A i \in 1..Len(messages) : messages[i] \in Message
    BY <1>1
<1>3. \A i \in 1..Len(messages) : IsTurn(messages[i]) => messages[i].calls \in Seq(Call)
    BY <1>2, MessageTypes
<1> QED
    BY <1>1, <1>3 DEF After

LEMMA LastTurn ==
  ASSUME Typed, TurnsApart, NEW j \in 1..Len(messages), IsLast(j)
  PROVE  \A i \in 1..Len(messages) : IsTurn(messages[i]) => i = j \/ (i < j /\ After(i) <= j)
<1> SUFFICES ASSUME NEW i \in 1..Len(messages), IsTurn(messages[i])
             PROVE  i = j \/ (i < j /\ After(i) <= j)
    OBVIOUS
<1>1. After(j) = Len(messages) + 1 + Len(calls) /\ IsTurn(messages[j])
    BY DEF IsLast
<1>2. j < i => After(j) <= i
    BY <1>1 DEF TurnsApart
<1>3. i < j => After(i) <= j
    BY <1>1 DEF TurnsApart
<1> QED
    BY <1>1, <1>2, <1>3, MessageFacts

(* A message more leaves those before it as they are.                        *)
LEMMA Extends ==
  ASSUME Typed, NEW m \in Message, messages' = Append(messages, m)
  PROVE  /\ Len(messages') = Len(messages) + 1
         /\ messages'[Len(messages) + 1] = m
         /\ \A i \in 1..Len(messages) : messages'[i] = messages[i] /\ After(i)' = After(i)
<1>1. messages \in Seq(Message)
    BY DEF Typed, TypeOK, Message
<1>2. /\ Len(messages') = Len(messages) + 1
      /\ messages'[Len(messages) + 1] = m
      /\ \A i \in 1..Len(messages) : messages'[i] = messages[i]
    BY <1>1, Appending
<1> QED
    BY <1>2 DEF After

LEMMA ConversationInit == Init => Conversation
<1> SUFFICES ASSUME Init PROVE Conversation
    OBVIOUS
<1>1. Len(messages) = 0 /\ calls = <<>> /\ at \notin {"write", "log"}
    BY DEF Init
<1> QED
    BY <1>1 DEF Conversation, TurnsApart, InOrder, Pending, Paired, Numbered, Survived

LEMMA ConversationQuiet ==
  ASSUME Conversation, UNCHANGED <<messages, calls>>,
         at' \in {"plan", "turn", "answered", "stopped"} => at \in {"plan", "turn", "answered", "stopped"},
         at' \in {"write", "log"} => ~Refused /\ Survives(Head(calls))
  PROVE  Conversation'
<1>1. TurnsApart' /\ InOrder' /\ Paired' /\ Numbered'
  <2>1. messages' = messages
      OBVIOUS
  <2>2. TurnsApart'
      BY <2>1 DEF Conversation, TurnsApart, After
  <2>3. InOrder'
      BY <2>1 DEF Conversation, InOrder
  <2>4. Paired'
      BY <2>1 DEF Conversation, Paired, After
  <2>5. Numbered'
      BY <2>1 DEF Conversation, Numbered
  <2> QED
      BY <2>2, <2>3, <2>4, <2>5
<1>2. Pending'
    BY DEF Conversation, Pending, IsLast, After
<1>3. Survived'
    BY DEF Conversation, Survived, Survives, Refused
<1> QED
    BY <1>1, <1>2, <1>3 DEF Conversation

LEMMA ConversationTurn ==
  ASSUME Typed, Conversation, CallTools
  PROVE  Conversation'
<1> DEFINE m == [role |-> "assistant", calls |-> calls']
<1>0. PICK L : L = Len(messages)
    OBVIOUS
<1>1. /\ calls' \in Seq(Call) /\ calls' # <<>> /\ messages' = Append(messages, m)
      /\ \A k \in 1..Len(calls') : calls'[k].id = k
    BY CallToolsFacts
<1>2. m \in Message /\ IsTurn(m) /\ m.calls = calls' /\ Len(calls') \in Nat
    BY <1>1, MessageTypes
<1>3. /\ Len(messages') = L + 1 /\ messages'[L + 1] = m
      /\ \A i \in 1..L : messages'[i] = messages[i] /\ After(i)' = After(i)
    BY <1>0, <1>1, <1>2, Extends
<1>4. After(L + 1)' = L + 1 + Len(calls') + 1
    BY <1>2, <1>3 DEF After
<1>5. L \in Nat
    BY <1>0, MessageFacts
<1>6. calls = <<>> /\ Len(calls) = 0 /\ at' = "tools"
    BY DEF CallTools, Conversation, Pending
<1>7. L # 0 => \E j \in 1..L : IsTurn(messages[j]) /\ After(j) = L + 1
    BY <1>0, <1>5, <1>6 DEF Conversation, Pending, IsLast
<1>8. \A i \in 1..L : IsTurn(messages[i]) => After(i) <= L + 1
  <2> SUFFICES ASSUME NEW i \in 1..L, IsTurn(messages[i]) PROVE After(i) <= L + 1
      OBVIOUS
  <2>1. PICK j \in 1..L : IsLast(j)
      BY <1>0, <1>5 DEF Conversation, Pending
  <2>2. i = j \/ (i < j /\ After(i) <= j)
      BY <1>0, <2>1, LastTurn DEF Conversation
  <2>3. After(j) = L + 1
      BY <1>0, <1>5, <1>6, <2>1 DEF IsLast
  <2> QED
      BY <1>0, <1>5, <2>2, <2>3, MessageFacts
<1>9. TurnsApart'
  <2> SUFFICES ASSUME NEW i \in 1..(L + 1), NEW j \in 1..(L + 1), i < j,
                      IsTurn(messages'[i]), IsTurn(messages'[j])
               PROVE  After(i)' <= j
      BY <1>3 DEF TurnsApart, After
  <2>1. i \in 1..L /\ IsTurn(messages[i]) /\ After(i)' = After(i)
      BY <1>3, <1>5
  <2>2. CASE j = L + 1
      BY <1>8, <2>1, <2>2
  <2>3. CASE j \in 1..L
      BY <1>0, <1>3, <2>1, <2>3 DEF Conversation, TurnsApart
  <2> QED
      BY <1>5, <2>2, <2>3
<1>10. InOrder'
  <2> SUFFICES ASSUME NEW i \in 1..(L + 1), IsTurn(messages'[i]),
                      NEW k \in 1..Len(messages'[i].calls), i + k <= L + 1
               PROVE  ~IsTurn(messages'[i + k]) /\ messages'[i + k].call = messages'[i].calls[k]
      BY <1>3 DEF InOrder
  <2>1. k \in Nat /\ k > 0
      BY <1>0, <1>2, <1>3, <1>5, MessageFacts
  <2>2. i \in 1..L /\ messages'[i] = messages[i]
      BY <1>3, <1>5, <2>1
  <2>3. i + k <= L
      BY <1>0, <1>5, <1>8, <2>1, <2>2, MessageFacts
  <2>4. messages'[i + k] = messages[i + k]
      BY <1>3, <1>5, <2>1, <2>2, <2>3
  <2> QED
      BY <1>0, <2>2, <2>3, <2>4 DEF Conversation, InOrder
<1>11. Pending'
  <2>1. IsLast(L + 1)'
      BY <1>1, <1>2, <1>3, <1>4, <1>5 DEF IsLast
  <2> QED
      BY <1>3, <1>5, <1>6, <2>1 DEF Pending
<1>12. Paired'
  <2> SUFFICES ASSUME NEW i \in 1..(L + 1)
               PROVE  IF IsTurn(messages'[i])
                      THEN i = 1 \/ \E j \in 1..(i - 1) : IsTurn(messages'[j]) /\ After(j)' = i
                      ELSE \E j \in 1..(i - 1) : /\ IsTurn(messages'[j]) /\ i < After(j)'
                                                 /\ messages'[j].calls[i - j] = messages'[i].call
      BY <1>3 DEF Paired, After
  <2>1. CASE i = L + 1
      BY <1>2, <1>3, <1>5, <1>7, <2>1
  <2>2. CASE i \in 1..L
    <3>1. \A j \in 1..(i - 1) : messages'[j] = messages[j] /\ After(j)' = After(j)
        BY <1>3, <1>5, <2>2
    <3> QED
        BY <1>0, <1>3, <2>2, <3>1 DEF Conversation, Paired
  <2> QED
      BY <1>5, <2>1, <2>2
<1>13. Numbered'
  <2> SUFFICES ASSUME NEW i \in 1..(L + 1), IsTurn(messages'[i])
               PROVE  \A k \in 1..Len(messages'[i].calls) : messages'[i].calls[k].id = k
      BY <1>3 DEF Numbered
  <2>1. CASE i = L + 1
      BY <1>1, <1>2, <1>3, <2>1
  <2>2. CASE i \in 1..L
      BY <1>0, <1>3, <2>2 DEF Conversation, Numbered
  <2> QED
      BY <1>5, <2>1, <2>2
<1>14. Survived'
    BY <1>0, <1>2, <1>3, <1>5, <1>6 DEF Conversation, Survived, Survives
<1> QED
    BY <1>9, <1>10, <1>11, <1>12, <1>13, <1>14 DEF Conversation

LEMMA ConversationReply ==
  ASSUME Typed, Conversation, calls # <<>>, NEW ok \in BOOLEAN, Reply(ok), Survives(Head(calls))
  PROVE  Conversation'
<1> DEFINE m == [role |-> "tool", call |-> Head(calls), ok |-> ok]
<1>0. PICK L : L = Len(messages)
    OBVIOUS
<1>1. /\ Head(calls) \in Call /\ Head(calls) = calls[1]
      /\ Len(calls) \in Nat \ {0} /\ Len(Tail(calls)) = Len(calls) - 1
      /\ \A k \in 1..Len(Tail(calls)) : Tail(calls)[k] = calls[k + 1]
    BY Dropping DEF Typed, TypeOK
<1>2. m \in Message /\ ~IsTurn(m) /\ m.call = Head(calls)
    BY <1>1, MessageTypes
<1>3. /\ Len(messages') = L + 1 /\ messages'[L + 1] = m
      /\ \A i \in 1..L : messages'[i] = messages[i] /\ After(i)' = After(i)
  <2>1. messages' = Append(messages, m)
      BY DEF Reply
  <2> QED
      BY <1>0, <1>2, <2>1, Extends
<1>4. L \in Nat /\ calls' = Tail(calls) /\ at' = IF Tail(calls) = <<>> THEN "turn" ELSE "tools"
    BY <1>0, MessageFacts DEF Reply
<1>5. PICK last \in 1..L : IsLast(last)
    BY <1>0, <1>1, <1>4 DEF Conversation, Pending
<1>6. /\ IsTurn(messages[last]) /\ After(last) = L + 1 + Len(calls)
      /\ \A k \in 1..Len(calls) : calls[k] = messages[last].calls[L - last + k]
      /\ messages[last].calls[L - last + 1] = Head(calls)
  <2>1. /\ IsTurn(messages[last]) /\ After(last) = L + 1 + Len(calls)
        /\ \A k \in 1..Len(calls) : calls[k] = messages[last].calls[L - last + k]
      BY <1>0, <1>5 DEF IsLast
  <2> QED
      BY <1>1, <2>1
<1>7. \A i \in 1..L : IsTurn(messages[i]) => i = last \/ After(i) <= L
    BY <1>0, <1>4, <1>5, LastTurn, MessageFacts DEF Conversation
<1>8. \A i \in 1..(L + 1) : IsTurn(messages'[i]) => i \in 1..L /\ messages'[i] = messages[i]
    BY <1>2, <1>3, <1>4
<1>9. TurnsApart'
  <2> SUFFICES ASSUME NEW i \in 1..(L + 1), NEW j \in 1..(L + 1), i < j,
                      IsTurn(messages'[i]), IsTurn(messages'[j])
               PROVE  After(i)' <= j
      BY <1>3 DEF TurnsApart, After
  <2>1. i \in 1..L /\ j \in 1..L /\ IsTurn(messages[i]) /\ IsTurn(messages[j]) /\ After(i)' = After(i)
      BY <1>3, <1>8
  <2> QED
      BY <1>0, <2>1 DEF Conversation, TurnsApart
<1>10. InOrder'
  <2> SUFFICES ASSUME NEW i \in 1..(L + 1), IsTurn(messages'[i]),
                      NEW k \in 1..Len(messages'[i].calls), i + k <= L + 1
               PROVE  ~IsTurn(messages'[i + k]) /\ messages'[i + k].call = messages'[i].calls[k]
      BY <1>3 DEF InOrder
  <2>1. i \in 1..L /\ messages'[i] = messages[i] /\ IsTurn(messages[i])
      BY <1>8
  <2>0. i \in Nat /\ k \in Nat
      BY <1>0, <1>4, <2>1, MessageFacts
  <2>2. k \in Nat /\ k > 0 /\ k <= Len(messages[i].calls) /\ After(i) = i + Len(messages[i].calls) + 1
        /\ Len(messages[i].calls) \in Nat
      BY <1>0, <2>1, MessageFacts
  <2>3. CASE i + k = L + 1
    <3>1. i = last /\ k = L - last + 1
        BY <1>4, <1>7, <2>1, <2>2, <2>3
    <3> QED
        BY <1>2, <1>3, <1>6, <2>1, <2>3, <3>1
  <2>4. CASE i + k <= L
    <3>1. messages'[i + k] = messages[i + k]
        BY <1>3, <1>4, <2>1, <2>2, <2>4
    <3> QED
        BY <1>0, <2>1, <2>4, <3>1 DEF Conversation, InOrder
  <2>5. i + k = L + 1 \/ i + k <= L
      BY <1>4, <2>0
  <2> QED
      BY <2>3, <2>4, <2>5
<1>11. Pending'
  <2>1. messages'[last] = messages[last] /\ After(last)' = After(last)
      BY <1>3
  <2>2. After(last)' = L + 1 + 1 + Len(calls')
      BY <1>1, <1>4, <1>6, <2>1
  <2>3. ASSUME NEW k \in 1..Len(calls')
        PROVE  calls'[k] = messages'[last].calls[Len(messages') - last + k]
    <3>1. k + 1 \in 1..Len(calls) /\ calls'[k] = calls[k + 1] /\ k \in Nat
        BY <1>1, <1>4
    <3>2. calls[k + 1] = messages[last].calls[L - last + (k + 1)]
        BY <1>6, <3>1
    <3>3. L - last + (k + 1) = Len(messages') - last + k
        BY <1>3, <1>4, <3>1
    <3> QED
        BY <2>1, <3>1, <3>2, <3>3
  <2>4. IsLast(last)'
    <3>1. IsTurn(messages'[last]) /\ After(last)' = Len(messages') + 1 + Len(calls')
        BY <1>3, <1>6, <2>1, <2>2
    <3> QED
        BY <2>3, <3>1 DEF IsLast
  <2> QED
      BY <1>3, <1>4, <2>4 DEF Pending
<1>12. Paired'
  <2> SUFFICES ASSUME NEW i \in 1..(L + 1)
               PROVE  IF IsTurn(messages'[i])
                      THEN i = 1 \/ \E j \in 1..(i - 1) : IsTurn(messages'[j]) /\ After(j)' = i
                      ELSE \E j \in 1..(i - 1) : /\ IsTurn(messages'[j]) /\ i < After(j)'
                                                 /\ messages'[j].calls[i - j] = messages'[i].call
      BY <1>3 DEF Paired, After
  <2>1. CASE i = L + 1
    <3>1. last \in 1..(i - 1) /\ messages'[last] = messages[last] /\ After(last)' = After(last)
        BY <1>3, <1>4, <2>1
    <3>2. i < After(last)
        BY <1>1, <1>4, <1>6, <2>1
    <3>3. i - last = L - last + 1
        BY <1>4, <2>1
    <3> QED
        BY <1>2, <1>3, <1>6, <2>1, <3>1, <3>2, <3>3
  <2>2. CASE i \in 1..L
    <3>1. \A j \in 1..(i - 1) : messages'[j] = messages[j] /\ After(j)' = After(j)
        BY <1>3, <1>4, <2>2
    <3> QED
        BY <1>0, <1>3, <2>2, <3>1 DEF Conversation, Paired
  <2> QED
      BY <1>4, <2>1, <2>2
<1>13. Numbered'
  <2> SUFFICES ASSUME NEW i \in 1..(L + 1), IsTurn(messages'[i])
               PROVE  \A k \in 1..Len(messages'[i].calls) : messages'[i].calls[k].id = k
      BY <1>3 DEF Numbered
  <2>1. i \in 1..L /\ messages'[i] = messages[i] /\ IsTurn(messages[i])
      BY <1>8
  <2> QED
      BY <1>0, <2>1 DEF Conversation, Numbered
<1>14. Survived'
  <2>1. at' \notin {"write", "log"}
      BY <1>4
  <2>2. \A i \in 1..(L + 1) : ~IsTurn(messages'[i]) => Survives(messages'[i].call)
    <3> SUFFICES ASSUME NEW i \in 1..(L + 1), ~IsTurn(messages'[i])
                 PROVE  Survives(messages'[i].call)
        OBVIOUS
    <3>1. CASE i = L + 1
        BY <1>2, <1>3, <3>1
    <3>2. CASE i \in 1..L
        BY <1>0, <1>3, <3>2 DEF Conversation, Survived
    <3> QED
        BY <1>4, <3>1, <3>2
  <2> QED
    <3>1. \A i \in 1..Len(messages') : ~IsTurn(messages'[i]) => Survives(messages'[i].call)
        BY <1>3, <2>2
    <3> QED
        BY <2>1, <3>1 DEF Survived, Survives
<1> QED
    BY <1>9, <1>10, <1>11, <1>12, <1>13, <1>14 DEF Conversation

LEMMA ConversationStep == Typed /\ Conversation /\ [Next]_vars => Conversation'
<1> SUFFICES ASSUME Typed, Conversation, [Next]_vars PROVE Conversation'
    OBVIOUS
<1>0. /\ at \in {"write", "log"} => ~Refused /\ Survives(Head(calls))
      /\ at \in {"tools", "write", "log"} => calls # <<>>
    BY DEF Conversation, Survived, Typed, TypeOK
<1>1. CASE UNCHANGED <<messages, calls, at>>
    BY <1>0, <1>1, ConversationQuiet
<1>2. CASE Plan \/ TurnFails \/ Answer \/ Exhaust
    BY <1>2, ConversationQuiet DEF Plan, TurnFails, Answer, Exhaust
<1>3. CASE CallTools
    BY <1>3, ConversationTurn
<1>4. CASE Refuse
  <2>1. calls # <<>> /\ Reply(FALSE)
      BY <1>0, <1>4 DEF Refuse
  <2>2. Survives(Head(calls))
      BY <1>4 DEF Refuse, Refused, Survives
  <2> QED
      BY <2>1, <2>2, ConversationReply
<1>5. CASE Crash \/ LogFails
    BY <1>5, ConversationQuiet DEF Crash, LogFails
<1>6. CASE Read \/ Search
  <2>1. UNCHANGED <<messages, calls>> /\ at' = "log" /\ ~Refused /\ ~Raises
      BY <1>6 DEF Read, Search, Calls, Executed
  <2> QED
      BY <2>1, ConversationQuiet DEF Raises, Survives
<1>7. CASE WriteCheck
  <2>1. UNCHANGED <<messages, calls>> /\ at' \in {"write", "log"} /\ ~Refused /\ ~Raises
      BY <1>7 DEF WriteCheck, Calls, Executed
  <2> QED
      BY <2>1, ConversationQuiet DEF Raises, Survives
<1>8. CASE Write
  <2>1. UNCHANGED <<messages, calls>> /\ at = "write" /\ at' = "log"
      BY <1>8 DEF Write, Executed
  <2> QED
      BY <1>0, <2>1, ConversationQuiet
<1>9. CASE Run
  <2>1. UNCHANGED <<messages, calls>> /\ at' = "log" /\ ~Refused /\ ~Raises
      BY <1>9 DEF Run, Calls, Executed
  <2> QED
      BY <2>1, ConversationQuiet DEF Raises, Survives
<1>10. CASE Log
  <2>1. Reply(result) /\ result \in BOOLEAN /\ calls # <<>> /\ Survives(Head(calls))
      BY <1>0, <1>10 DEF Log, Typed, TypeOK
  <2> QED
      BY <2>1, ConversationReply
<1>11. Stray \/ (\E f \in Files : Edit(f)) => UNCHANGED <<messages, calls, at>>
    BY DEF Stray, Edit
<1>12. UNCHANGED vars => UNCHANGED <<messages, calls, at>>
    BY DEF vars
<1> QED
    BY <1>1, <1>2, <1>3, <1>4, <1>5, <1>6, <1>7, <1>8, <1>9, <1>10, <1>11, <1>12 DEF Next, Step

(* The results of a turn's calls follow it directly, in order and without a  *)
(* gap, and every call has its result before the model is asked again.       *)
THEOREM ResultsFollowTheirCalls == Spec => []WellPaired
<1>1. Typed /\ Conversation => WellPaired
  <2> SUFFICES ASSUME Typed, Conversation PROVE WellPaired
      OBVIOUS
  <2>1. DOMAIN messages = 1..Len(messages) /\ Len(messages) \in Nat /\ (messages # <<>> => Len(messages) # 0)
      BY MessageFacts DEF Typed, TypeOK
  <2>2. at \in {"turn", "answered", "stopped"} /\ messages # <<>> =>
          \E j \in 1..Len(messages) : IsTurn(messages[j]) /\ After(j) = Len(messages) + 1
    <3> SUFFICES ASSUME at \in {"turn", "answered", "stopped"}, messages # <<>>
                 PROVE  \E j \in 1..Len(messages) : IsTurn(messages[j]) /\ After(j) = Len(messages) + 1
        OBVIOUS
    <3>1. calls = <<>> /\ \E j \in 1..Len(messages) : IsLast(j)
        BY <2>1 DEF Conversation, Pending
    <3> QED
        BY <2>1, <3>1 DEF IsLast
  <2> QED
      BY <2>1, <2>2 DEF Conversation, Paired, WellPaired
<1> QED
    BY <1>1, TypedInit, TypedStep, ConversationInit, ConversationStep, PTL DEF Spec

(* The name Gemini's adapter finds is that of the call the result belongs to. *)
LEMMA NameFound ==
  ASSUME Typed, Conversation, NEW i \in 1..Len(messages), IsTurn(messages[i]),
         NEW k \in 1..Len(messages[i].calls), i + k <= Len(messages)
  PROVE  tool_id_to_name(messages, i + k, messages[i].calls[k].id) = messages[i].calls[k].tool
<1> DEFINE id == messages[i].calls[k].id
           is == {j \in DOMAIN messages : j < i + k /\ Registers(messages[j], id)}
<1>1. /\ DOMAIN messages = 1..Len(messages) /\ Len(messages) \in Nat
      /\ DOMAIN messages[i].calls = 1..Len(messages[i].calls) /\ Len(messages[i].calls) \in Nat
      /\ After(i) = i + Len(messages[i].calls) + 1
    BY MessageFacts
<1>2. i \in is
    BY <1>1 DEF Registers
<1>3. ASSUME NEW j \in is PROVE j <= i
  <2>1. j \in 1..Len(messages) /\ j < i + k /\ IsTurn(messages[j])
      BY <1>1 DEF Registers
  <2>2. i < j => After(i) <= j
      BY <2>1 DEF Conversation, TurnsApart
  <2> QED
      BY <1>1, <2>1, <2>2
<1>4. Latest(is) = i
  <2>1. \E j \in is : \A l \in is : l <= j
      BY <1>2, <1>3
  <2>2. Latest(is) \in is /\ \A l \in is : l <= Latest(is)
      BY <2>1 DEF Latest
  <2>3. i <= Latest(is) /\ Latest(is) <= i
      BY <1>2, <1>3, <2>2
  <2>4. Latest(is) \in Nat
      BY <1>1, <2>2
  <2> QED
      BY <2>3, <2>4
<1>5. Name(messages[i], id) = messages[i].calls[k].tool
  <2>1. \A l \in 1..Len(messages[i].calls) : messages[i].calls[l].id = l
      BY DEF Conversation, Numbered
  <2>2. (CHOOSE l \in DOMAIN messages[i].calls : messages[i].calls[l].id = id) = k
      BY <1>1, <2>1
  <2> QED
      BY <2>2 DEF Name
<1>6. tool_id_to_name(messages, i + k, id) = IF is = {} THEN "" ELSE Name(messages[Latest(is)], id)
    BY DEF tool_id_to_name
<1> QED
    BY <1>2, <1>4, <1>5, <1>6

(* Whichever provider the next turn selects, in what it is sent each call is *)
(* followed by a result with its id and its name, and has an object for its  *)
(* arguments unless it names no tool or one without arguments.               *)
THEOREM TranscriptsAreSent == Spec => []TranscriptsSent
<1>1. Typed /\ Conversation => TranscriptsSent
  <2> DEFINE a == Anthropic(messages)
             g == Gemini(messages)
  <2> SUFFICES ASSUME Typed, Conversation, at = "turn",
                      NEW i \in DOMAIN messages, IsTurn(messages[i]),
                      NEW k \in DOMAIN messages[i].calls
               PROVE  /\ i + k \in DOMAIN messages /\ ~IsTurn(messages[i + k])
                      /\ a[i + k].content[1].tool_use_id = a[i].content[k].id
                      /\ g[i + k].parts[1].id = g[i].parts[k].id
                      /\ g[i + k].parts[1].name = g[i].parts[k].name
                      /\ a[i].content[k].input = "object" \/ a[i].content[k].name \in {"none", "tests"}
      BY DEF TranscriptsSent
  <2> DEFINE c == messages[i].calls[k]
  <2>1. /\ Len(messages) \in Nat /\ i \in 1..Len(messages) /\ DOMAIN messages = 1..Len(messages)
        /\ messages[i].calls \in Seq(Call) /\ Len(messages[i].calls) \in Nat
        /\ k \in 1..Len(messages[i].calls) /\ After(i) = i + Len(messages[i].calls) + 1
      BY MessageFacts
  <2>2. i + k <= Len(messages)
    <3>1. PICK j \in 1..Len(messages) : IsLast(j)
        BY <2>1 DEF Conversation, Pending
    <3>2. calls = <<>>
        BY DEF Conversation, Pending
    <3>3. After(j) = Len(messages) + 1
        BY <2>1, <3>1, <3>2 DEF IsLast
    <3>4. i = j \/ After(i) <= j
        BY <2>1, <3>1, LastTurn DEF Conversation
    <3> QED
        BY <2>1, <3>3, <3>4
  <2>3. i + k \in DOMAIN messages /\ ~IsTurn(messages[i + k]) /\ messages[i + k].call = c
      BY <2>1, <2>2 DEF Conversation, InOrder
  <2>4. /\ a[i].content[k] = ToolUse(c)
        /\ a[i + k].content[1].tool_use_id = c.id
      BY <2>1, <2>3 DEF Anthropic
  <2>5. /\ g[i].parts[k] = FunctionCall(c)
        /\ g[i + k].parts[1] = [id |-> c.id, name |-> tool_id_to_name(messages, i + k, c.id)]
      BY <2>1, <2>3 DEF Gemini
  <2>6. tool_id_to_name(messages, i + k, c.id) = c.tool
      BY <2>1, <2>2, NameFound
  <2>7. ToolUse(c).input = "object" \/ ToolUse(c).name \in {"none", "tests"}
    <3>1. c \in Call
        BY <2>1
    <3>2. c.args \in Arguments
        BY <3>1 DEF Call
    <3>3. Survives(c)
        BY <2>1, <2>3 DEF Conversation, Survived
    <3> QED
        BY <3>2, <3>3 DEF ToolUse, Survives, Arguments
  <2> QED
      BY <2>3, <2>4, <2>5, <2>6, <2>7 DEF ToolUse, FunctionCall
<1> QED
    BY <1>1, TypedInit, TypedStep, ConversationInit, ConversationStep, PTL DEF Spec

-----------------------------------------------------------------------------
(* The log. It has a row for each result of a call that was executed.        *)
Logged ==
  /\ Len(log) = Cardinality(Told)
  /\ \A i \in Told : log[Place(i)] = [call |-> messages[i].call, ok |-> messages[i].ok]

LEMMA ToldFacts ==
  ASSUME Typed
  PROVE  /\ IsFiniteSet(Told) /\ Told \subseteq 1..Len(messages)
         /\ \A i \in Told : Place(i) \in 1..Cardinality(Told)
<1>1. Told \subseteq 1..Len(messages) /\ Len(messages) \in Nat
    BY MessageFacts DEF Told
<1>2. IsFiniteSet(1..Len(messages))
    BY <1>1, FS_Interval
<1>3. IsFiniteSet(Told) /\ Cardinality(Told) \in Nat
    BY <1>1, <1>2, FS_Subset, FS_CardinalityType
<1>4. ASSUME NEW i \in Told PROVE Place(i) \in 1..Cardinality(Told)
  <2> DEFINE P == {j \in Told : j <= i}
  <2>1. P \subseteq Told /\ i \in P
      BY <1>1
  <2>2. IsFiniteSet(P) /\ Cardinality(P) <= Cardinality(Told)
      BY <1>3, <2>1, FS_Subset
  <2>3. Cardinality(P) \in Nat /\ Cardinality(P) # 0
      BY <2>1, <2>2, FS_CardinalityType, FS_EmptySet
  <2> QED
      BY <1>3, <2>2, <2>3 DEF Place
<1> QED
    BY <1>1, <1>3, <1>4

LEMMA LoggedInit == Init => Logged
<1> SUFFICES ASSUME Init PROVE Logged
    OBVIOUS
<1>1. DOMAIN messages = {} /\ Len(log) = 0
    BY DEF Init
<1>2. Told = {}
    BY <1>1 DEF Told
<1> QED
    BY <1>1, <1>2, FS_EmptySet DEF Logged

(* A message that is not of an executed call changes nothing.                *)
LEMMA LoggedUntold ==
  ASSUME Typed, Logged, NEW m \in Message, messages' = Append(messages, m), log' = log,
         IsTurn(m) \/ m.call.tool = "none" \/ m.call.args = "garbled"
  PROVE  Logged'
<1>0. PICK L : L = Len(messages)
    OBVIOUS
<1>1. /\ L \in Nat /\ Len(messages') = L + 1 /\ messages'[L + 1] = m
      /\ DOMAIN messages = 1..L /\ DOMAIN messages' = 1..(L + 1)
      /\ \A i \in 1..L : messages'[i] = messages[i]
  <2>1. messages \in Seq(Message)
      BY DEF Typed, TypeOK, Message
  <2> QED
      BY <1>0, <2>1, Appending
<1>2. Told' = Told
  <2>1. \A i \in 1..(L + 1) : i \in Told' <=> i \in Told
    <3> SUFFICES ASSUME NEW i \in 1..(L + 1) PROVE i \in Told' <=> i \in Told
        OBVIOUS
    <3>1. CASE i = L + 1
        BY <1>1, <3>1 DEF Told
    <3>2. CASE i \in 1..L
        BY <1>1, <3>2 DEF Told
    <3> QED
        BY <1>1, <3>1, <3>2
  <2>2. Told' \subseteq 1..(L + 1) /\ Told \subseteq 1..(L + 1)
      BY <1>1 DEF Told
  <2> QED
      BY <2>1, <2>2
<1>3. \A i \in Told : Place(i)' = Place(i) /\ messages'[i] = messages[i]
    BY <1>1, <1>2 DEF Place, Told
<1> QED
    BY <1>2, <1>3 DEF Logged

LEMMA LoggedLog ==
  ASSUME Typed, Logged, Conversation, Log
  PROVE  Logged'
<1> DEFINE m == [role |-> "tool", call |-> Head(calls), ok |-> result]
           row == [call |-> Head(calls), ok |-> result]
<1>0. PICK L, C : L = Len(messages) /\ C = Cardinality(Told)
    OBVIOUS
<1>1. /\ calls # <<>> /\ result \in BOOLEAN /\ Head(calls) \in Call
      /\ Head(calls).args # "garbled" /\ Head(calls).tool # "none"
  <2>1. at = "log" /\ calls # <<>> /\ result \in BOOLEAN /\ ~Refused
      BY DEF Log, Typed, TypeOK, Conversation, Survived
  <2> QED
      BY <2>1, Dropping DEF Refused, Typed, TypeOK
<1>2. m \in Message /\ ~IsTurn(m)
    BY <1>1, MessageTypes
<1>3. /\ L \in Nat /\ Len(messages') = L + 1 /\ messages'[L + 1] = m
      /\ DOMAIN messages = 1..L /\ DOMAIN messages' = 1..(L + 1)
      /\ \A i \in 1..L : messages'[i] = messages[i]
  <2>1. messages \in Seq(Message) /\ messages' = Append(messages, m)
      BY DEF Typed, TypeOK, Message, Log, Reply
  <2> QED
      BY <1>0, <1>2, <2>1, Appending
<1>L. L \in Nat
    BY <1>3
<1>4. IsFiniteSet(Told) /\ C \in Nat /\ Told \subseteq 1..L /\ \A i \in Told : Place(i) \in 1..C
    BY <1>0, ToldFacts, FS_CardinalityType
<1>5. /\ Len(log) = C /\ Len(log') = C + 1 /\ log'[C + 1] = row
      /\ \A i \in 1..C : log'[i] = log[i]
  <2>1. log \in Seq([call : Call, ok : BOOLEAN]) /\ row \in [call : Call, ok : BOOLEAN]
      BY <1>1 DEF Typed, TypeOK
  <2>2. log' = Append(log, row)
      BY DEF Log, Row
  <2>3. Len(log) = C
      BY <1>0 DEF Logged
  <2> QED
      BY <2>1, <2>2, <2>3, Appending
<1>6. Told' = Told \cup {L + 1} /\ L + 1 \notin Told
  <2>1. \A i \in 1..L : i \in Told' <=> i \in Told
      BY <1>3 DEF Told
  <2>2. L + 1 \in Told'
      BY <1>1, <1>2, <1>3 DEF Told
  <2>3. Told' \subseteq 1..(L + 1)
      BY <1>3 DEF Told
  <2>4. \A i \in 1..(L + 1) : i = L + 1 \/ i \in 1..L
      BY <1>L
  <2>5. L + 1 \notin Told /\ Told \subseteq 1..(L + 1)
      BY <1>L, <1>4
  <2>6. \A i : i \in Told' <=> i \in Told \/ i = L + 1
      BY <2>1, <2>2, <2>3, <2>4, <2>5
  <2> QED
      BY <2>5, <2>6
<1>7. Cardinality(Told') = C + 1
    BY <1>0, <1>4, <1>6, FS_AddElement
<1>8. ASSUME NEW i \in Told'
      PROVE  log'[Place(i)'] = [call |-> messages'[i].call, ok |-> messages'[i].ok]
  <2>1. CASE i = L + 1
    <3>1. {j \in Told' : j <= i} = Told'
      <4>1. \A j \in Told' : j \in 1..(L + 1)
          BY <1>L, <1>4, <1>6
      <4>2. \A j \in Told' : j <= i
          BY <1>L, <2>1, <4>1
      <4> QED
          BY <4>2
    <3>2. Place(i)' = C + 1
        BY <1>7, <3>1 DEF Place
    <3> QED
        BY <1>3, <1>5, <2>1, <3>2
  <2>2. CASE i \in Told
    <3>0. i \in 1..L /\ ~(L + 1 <= i)
        BY <1>L, <1>4, <2>2
    <3>1. i \in 1..L /\ {j \in Told' : j <= i} = {j \in Told : j <= i}
        BY <1>6, <3>0
    <3>2. Place(i)' = Place(i)
        BY <3>1 DEF Place
    <3>3. log[Place(i)] = [call |-> messages[i].call, ok |-> messages[i].ok]
        BY <2>2 DEF Logged
    <3> QED
        BY <1>3, <1>4, <1>5, <2>2, <3>1, <3>2, <3>3
  <2> QED
      BY <1>6, <2>1, <2>2
<1> QED
    BY <1>5, <1>7, <1>8 DEF Logged

LEMMA LoggedStep == Typed /\ Conversation /\ Logged /\ [Next]_vars => Logged'
<1> SUFFICES ASSUME Typed, Conversation, Logged, [Next]_vars PROVE Logged'
    OBVIOUS
<1>1. CASE UNCHANGED <<messages, log>>
    BY <1>1 DEF Logged, Told, Place
<1>2. CASE CallTools
  <2> DEFINE m == [role |-> "assistant", calls |-> calls']
  <2>1. calls' \in Seq(Call) /\ messages' = Append(messages, m)
      BY <1>2, CallToolsFacts
  <2>2. m \in Message /\ IsTurn(m) /\ log' = log
      BY <1>2, <2>1, MessageTypes DEF CallTools
  <2> QED
      BY <2>1, <2>2, LoggedUntold
<1>3. CASE Refuse
  <2> DEFINE m == [role |-> "tool", call |-> Head(calls), ok |-> FALSE]
  <2>1. calls # <<>> /\ messages' = Append(messages, m) /\ log' = log
        /\ (Head(calls).tool = "none" \/ Head(calls).args = "garbled")
      BY <1>3 DEF Refuse, Refused, Reply, Typed, TypeOK
  <2>2. Head(calls) \in Call
      BY <2>1, Dropping DEF Typed, TypeOK
  <2>3. m \in Message /\ m.call = Head(calls)
      BY <2>2, MessageTypes
  <2> QED
      BY <2>1, <2>3, LoggedUntold
<1>4. CASE Log
    BY <1>4, LoggedLog
<1>5. Plan \/ TurnFails \/ Answer \/ Exhaust \/ Crash \/ LogFails => UNCHANGED <<messages, log>>
    BY DEF Plan, TurnFails, Answer, Exhaust, Crash, LogFails
<1>6. Read \/ Search \/ WriteCheck \/ Write \/ Run => UNCHANGED <<messages, log>>
    BY DEF Read, Search, WriteCheck, Write, Run
<1>7. Stray \/ (\E f \in Files : Edit(f)) => UNCHANGED <<messages, log>>
    BY DEF Stray, Edit
<1>8. UNCHANGED vars => UNCHANGED <<messages, log>>
    BY DEF vars
<1> QED
    BY <1>1, <1>2, <1>3, <1>4, <1>5, <1>6, <1>7, <1>8 DEF Next, Step

(* The log tells what the model was told, row by row, and it or the call     *)
(* about to be logged explains every file the agent has written.             *)
THEOREM TheLogTells == Spec => []LogTells
<1>1. Logged /\ Kept => LogTells
    BY DEF Logged, Kept, Explained, LogTells
<1> QED
    BY <1>1, TypedInit, TypedStep, ConversationInit, ConversationStep, LoggedInit, LoggedStep,
       KeptInit, KeptStep, PTL DEF Spec
=============================================================================
