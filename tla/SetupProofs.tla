------------------------------ MODULE SetupProofs ------------------------------
(* Proofs about Setup, for any number of processes and crashes.              *)
EXTENDS Setup, TLAPS, SequenceTheorems

(* The steps of a list, of its parts, and of the short lists the code uses.  *)
LEMMA OfConcat == \A s, t \in Seq(Step) : s \o t \in Seq(Step) /\ Of(s \o t) = Of(s) \cup Of(t)
<1> SUFFICES ASSUME NEW s \in Seq(Step), NEW t \in Seq(Step)
             PROVE  Of(s \o t) = Of(s) \cup Of(t)
    OBVIOUS
<1>1. /\ Len(s \o t) = Len(s) + Len(t)
      /\ \A i \in 1..Len(s) : (s \o t)[i] = s[i]
      /\ \A i \in 1..Len(t) : (s \o t)[Len(s) + i] = t[i]
    OBVIOUS
<1>2. Of(s \o t) \subseteq Of(s) \cup Of(t)
  <2> SUFFICES ASSUME NEW i \in 1..Len(s \o t) PROVE (s \o t)[i] \in Of(s) \cup Of(t)
      BY DEF Of
  <2>1. CASE i \in 1..Len(s)
      BY <2>1, <1>1 DEF Of
  <2>2. CASE i \notin 1..Len(s)
    <3>1. i - Len(s) \in 1..Len(t) /\ i = Len(s) + (i - Len(s))
        BY <2>2, <1>1
    <3> QED
        BY <3>1, <1>1 DEF Of
  <2> QED
      BY <2>1, <2>2
<1>3. Of(s) \subseteq Of(s \o t)
    BY <1>1 DEF Of
<1>4. Of(t) \subseteq Of(s \o t)
  <2> SUFFICES ASSUME NEW i \in 1..Len(t) PROVE t[i] \in Of(s \o t)
      BY DEF Of
  <2> Len(s) + i \in 1..Len(s \o t)
      BY <1>1
  <2> QED
      BY <1>1 DEF Of
<1> QED
    BY <1>2, <1>3, <1>4

LEMMA OfTail ==
  \A s \in Seq(Step) : s # <<>> => /\ Head(s) \in Step
                                   /\ Tail(s) \in Seq(Step)
                                   /\ Of(s) = {Head(s)} \cup Of(Tail(s))
<1> SUFFICES ASSUME NEW s \in Seq(Step), s # <<>>
             PROVE  Of(s) = {Head(s)} \cup Of(Tail(s))
    OBVIOUS
<1>1. /\ Len(s) \in Nat \ {0} /\ Len(Tail(s)) = Len(s) - 1 /\ Head(s) = s[1]
      /\ \A i \in 1..Len(Tail(s)) : Tail(s)[i] = s[i + 1]
    OBVIOUS
<1>2. \A i \in 2..Len(s) : i - 1 \in 1..Len(Tail(s)) /\ s[i] = Tail(s)[i - 1]
    BY <1>1
<1>3. Of(s) \subseteq {Head(s)} \cup Of(Tail(s))
  <2> SUFFICES ASSUME NEW i \in 1..Len(s) PROVE s[i] \in {Head(s)} \cup Of(Tail(s))
      BY DEF Of
  <2>1. CASE i = 1
      BY <2>1, <1>1
  <2>2. CASE i \in 2..Len(s)
      BY <2>2, <1>2 DEF Of
  <2> QED
      BY <2>1, <2>2, <1>1
<1>4. Head(s) \in Of(s)
    BY <1>1 DEF Of
<1>5. Of(Tail(s)) \subseteq Of(s)
  <2> SUFFICES ASSUME NEW i \in 1..Len(Tail(s)) PROVE Tail(s)[i] \in Of(s)
      BY DEF Of
  <2> i + 1 \in 1..Len(s)
      BY <1>1
  <2> QED
      BY <1>1 DEF Of
<1> QED
    BY <1>3, <1>4, <1>5

LEMMA OfFew ==
  /\ Of(<<>>) = {}
  /\ \A a : Of(<<a>>) = {a}
  /\ \A a, b : Of(<<a, b>>) = {a, b}
  /\ \A a, b, c : Of(<<a, b, c>>) = {a, b, c}
  /\ \A a, b, c, d : Of(<<a, b, c, d>>) = {a, b, c, d}
<1>1. Of(<<>>) = {}
    BY DEF Of
<1>2. ASSUME NEW a PROVE Of(<<a>>) = {a}
    BY DEF Of
<1>3. ASSUME NEW a, NEW b PROVE Of(<<a, b>>) = {a, b}
  <2> 1..2 = {1, 2}
      OBVIOUS
  <2> QED
      BY DEF Of
<1>4. ASSUME NEW a, NEW b, NEW c PROVE Of(<<a, b, c>>) = {a, b, c}
  <2> 1..3 = {1, 2, 3}
      OBVIOUS
  <2> QED
      BY DEF Of
<1>5. ASSUME NEW a, NEW b, NEW c, NEW d PROVE Of(<<a, b, c, d>>) = {a, b, c, d}
  <2> 1..4 = {1, 2, 3, 4}
      OBVIOUS
  <2> QED
      BY DEF Of
<1> QED
    BY <1>1, <1>2, <1>3, <1>4, <1>5

-----------------------------------------------------------------------------
(* What is left of a command: steps on files and schema, in any order, and   *)
(* then at most one of a few endings.                                        *)
Plain == {"config", "truncate", "fill", "open", "inspect", "provider"} \cup COLUMNS \cup TABLES
Endings ==
  {<<>>, <<"boot">>, <<"refresh">>, <<"provision">>, <<"key", "insert">>,
   <<"erase", "write", "insert">>, <<"write", "insert">>, <<"insert">>}
Shaped(t) == \E a \in Seq(Plain), b \in Endings : t = a \o b

LEMMA PlainSteps == Plain \subseteq Step /\ Endings \subseteq Seq(Step) /\ Seq(Plain) \subseteq Seq(Step)
<1>1. Plain \subseteq Step
    BY DEF Plain, Step
<1>2. Endings \subseteq Seq(Step)
    BY DEF Endings, Step
<1> QED
    BY <1>1, <1>2, SeqMonotonic

LEMMA ConcatSteps == \A r, s, t \in Seq(Step) : (r \o s) \o t = r \o (s \o t)
BY ConcatAssociative

LEMMA ShapedPrefix ==
  ASSUME NEW s \in Seq(Plain), NEW t, Shaped(t)
  PROVE  Shaped(s \o t)
<1> PICK a \in Seq(Plain), b \in Endings : t = a \o b
    BY DEF Shaped
<1>0. s \in Seq(Step) /\ a \in Seq(Step) /\ b \in Seq(Step)
    BY PlainSteps
<1>1. (s \o a) \o b = s \o (a \o b)
    BY <1>0, ConcatSteps
<1>2. s \o a \in Seq(Plain)
    OBVIOUS
<1> QED
    BY <1>1, <1>2 DEF Shaped

LEMMA ShapedTail ==
  ASSUME NEW t, Shaped(t), t # <<>>
  PROVE  /\ t \in Seq(Step)
         /\ Shaped(Tail(t))
         /\ Head(t) \in Plain \/ t \in Endings
<1> PICK a \in Seq(Plain), b \in Endings : t = a \o b
    BY DEF Shaped
<1>0. a \in Seq(Step) /\ b \in Seq(Step)
    BY PlainSteps
<1>1. CASE a = <<>>
  <2>1. t = b
      BY <1>1, <1>0
  <2>2. Tail(b) \in Endings
    <3>1. CASE b = <<"erase", "write", "insert">>
      <4> Tail(b) = <<"write", "insert">>
          BY <3>1
      <4> QED
          BY DEF Endings
    <3>2. CASE b = <<"key", "insert">> \/ b = <<"write", "insert">>
      <4>1. Tail(<<"key", "insert">>) = <<"insert">> /\ Tail(<<"write", "insert">>) = <<"insert">>
          OBVIOUS
      <4> QED
          BY <3>2, <4>1 DEF Endings
    <3>3. CASE b \in {<<"boot">>, <<"refresh">>, <<"provision">>, <<"insert">>}
      <4> Tail(b) = <<>>
          BY <3>3
      <4> QED
          BY DEF Endings
    <3> QED
        BY <2>1, <3>1, <3>2, <3>3 DEF Endings
  <2>3. Tail(b) = <<>> \o Tail(b) /\ <<>> \in Seq(Plain)
      BY <1>0, <2>1
  <2> QED
      BY <2>1, <2>2, <2>3, <1>0 DEF Shaped
<1>2. CASE a # <<>>
  <2>1. Head(t) = Head(a) /\ Head(a) \in Plain /\ Tail(a) \in Seq(Plain)
      BY <1>2, <1>0
  <2>2. Tail(t) = Tail(a) \o b
    <3> DEFINE u == Tail(a) \o b
    <3>1. u \in Seq(Step) /\ t \in Seq(Step) /\ Tail(t) \in Seq(Step)
        BY <1>0, <1>2
    <3>2. Len(u) = Len(Tail(t))
        BY <1>0, <1>2
    <3>3. \A i \in 1..Len(u) : u[i] = Tail(t)[i]
        BY <1>0, <1>2
    <3>4. \A x, y \in Seq(Step) :
            Len(x) = Len(y) /\ (\A i \in 1..Len(x) : x[i] = y[i]) => x = y
        BY SeqEqual
    <3> HIDE DEF u
    <3>5. u = Tail(t)
        BY <3>1, <3>2, <3>3, <3>4
    <3> QED
        BY <3>5 DEF u
  <2>3. Shaped(Tail(t))
      BY <2>1, <2>2 DEF Shaped
  <2>4. t \in Seq(Step)
      BY <1>0
  <2>5. Head(t) \in Plain
      BY <2>1
  <2> QED
      BY <2>3, <2>4, <2>5
<1> QED
    BY <1>1, <1>2

LEMMA ShapedLists ==
  /\ \A b \in Endings : Shaped(b)
  /\ \A p \in Plain : <<p>> \in Seq(Plain)
  /\ \A p, q \in Plain : <<p, q>> \in Seq(Plain)
<1>1. ASSUME NEW b \in Endings PROVE Shaped(b)
  <2> b = <<>> \o b /\ <<>> \in Seq(Plain)
      BY PlainSteps
  <2> QED
      BY DEF Shaped
<1> QED
    BY <1>1

-----------------------------------------------------------------------------
(* What a step does to its process, and that it does nothing to others.      *)
Turns(p, t, u, k) ==
  /\ op' \in [Procs -> Op]
  /\ op'[p].todo = t /\ op'[p].up = u /\ op'[p].key = k
  /\ \A q \in Procs \ {p} : op'[q] = op[q]

LEMMA Turning ==
  ASSUME TypeOK, NEW p \in Procs
  PROVE  /\ \A t \in Seq(Step) : op' = [op EXCEPT ![p].todo = t] => Turns(p, t, op[p].up, op[p].key)
         /\ \A t \in Seq(Step), k \in Keys :
              op' = [op EXCEPT ![p].todo = t, ![p].key = k] => Turns(p, t, op[p].up, k)
         /\ \A t \in Seq(Step) :
              op' = [op EXCEPT ![p].todo = t, ![p].up = TRUE] => Turns(p, t, TRUE, op[p].key)
         /\ End(p) => Turns(p, <<>>, op[p].up, NoKey)
         /\ op' = [op EXCEPT ![p] = Gone] => Turns(p, <<>>, FALSE, NoKey)
<1>1. op \in [Procs -> Op] /\ <<>> \in Seq(Step) /\ Gone \in Op
    BY DEF TypeOK, Op, Gone
<1>2. op[p] = [todo |-> op[p].todo, up |-> op[p].up, key |-> op[p].key]
    BY <1>1 DEF Op
<1>3. ASSUME NEW t \in Seq(Step), op' = [op EXCEPT ![p].todo = t]
      PROVE  Turns(p, t, op[p].up, op[p].key)
    BY <1>1, <1>2, <1>3 DEF Turns, Op
<1>4. ASSUME NEW t \in Seq(Step), NEW k \in Keys, op' = [op EXCEPT ![p].todo = t, ![p].key = k]
      PROVE  Turns(p, t, op[p].up, k)
    BY <1>1, <1>2, <1>4 DEF Turns, Op
<1>5. ASSUME NEW t \in Seq(Step), op' = [op EXCEPT ![p].todo = t, ![p].up = TRUE]
      PROVE  Turns(p, t, TRUE, op[p].key)
    BY <1>1, <1>2, <1>5 DEF Turns, Op
<1>6. ASSUME End(p) PROVE Turns(p, <<>>, op[p].up, NoKey)
    BY <1>1, <1>2, <1>6 DEF Turns, Op, End
<1>7. ASSUME op' = [op EXCEPT ![p] = Gone] PROVE Turns(p, <<>>, FALSE, NoKey)
    BY <1>1, <1>7 DEF Turns, Op, Gone
<1> QED
    BY <1>3, <1>4, <1>5, <1>6, <1>7

Shapes == \A p \in Procs : Shaped(op[p].todo)

LEMMA Standing ==
  ASSUME TypeOK, Shapes, NEW p \in Procs, NEW step, At(p, step)
  PROVE  /\ op[p].todo \in Seq(Step) /\ Rest(p) \in Seq(Step)
         /\ Shaped(Rest(p))
         /\ Of(op[p].todo) = {step} \cup Of(Rest(p))
         /\ step \in Plain \/ op[p].todo \in Endings
BY ShapedTail, OfTail DEF TypeOK, Op, Shapes, At, Rest

(* The steps that are not plain come last. *)
LEMMA AtEnding ==
  ASSUME TypeOK, Shapes, NEW p \in Procs
  PROVE  /\ At(p, "boot") => Rest(p) = <<>>
         /\ At(p, "refresh") => Rest(p) = <<>>
         /\ At(p, "provision") => Rest(p) = <<>>
         /\ At(p, "insert") => op[p].todo = <<"insert">> /\ Rest(p) = <<>>
         /\ At(p, "key") => op[p].todo = <<"key", "insert">> /\ Rest(p) = <<"insert">>
         /\ At(p, "erase") => /\ op[p].todo = <<"erase", "write", "insert">>
                              /\ Rest(p) = <<"write", "insert">>
         /\ At(p, "write") => op[p].todo = <<"write", "insert">> /\ Rest(p) = <<"insert">>
<1> DEFINE t == op[p].todo
<1>1. \A s \in {"boot", "refresh", "provision", "insert", "key", "erase", "write"} :
        At(p, s) => t \in Endings /\ t # <<>> /\ Head(t) = s
  <2>1. \A s \in {"boot", "refresh", "provision", "insert", "key", "erase", "write"} : s \notin Plain
      BY DEF Plain, COLUMNS, TABLES
  <2> QED
      BY <2>1, Standing DEF At
<1>2. /\ Head(<<"boot">>) = "boot" /\ Tail(<<"boot">>) = <<>>
      /\ Head(<<"refresh">>) = "refresh" /\ Tail(<<"refresh">>) = <<>>
      /\ Head(<<"provision">>) = "provision" /\ Tail(<<"provision">>) = <<>>
      /\ Head(<<"insert">>) = "insert" /\ Tail(<<"insert">>) = <<>>
    OBVIOUS
<1>3. /\ Head(<<"key", "insert">>) = "key" /\ Tail(<<"key", "insert">>) = <<"insert">>
      /\ Head(<<"write", "insert">>) = "write" /\ Tail(<<"write", "insert">>) = <<"insert">>
      /\ Head(<<"erase", "write", "insert">>) = "erase"
      /\ Tail(<<"erase", "write", "insert">>) = <<"write", "insert">>
    OBVIOUS
<1> HIDE DEF t
<1>4. ASSUME NEW s \in {"boot", "refresh", "provision", "insert"}, At(p, s)
      PROVE  t = <<s>>
    BY <1>1, <1>2, <1>3, <1>4 DEF Endings
<1>5. /\ At(p, "key") => t = <<"key", "insert">>
      /\ At(p, "erase") => t = <<"erase", "write", "insert">>
      /\ At(p, "write") => t = <<"write", "insert">>
    BY <1>1, <1>2, <1>3 DEF Endings
<1> QED
    BY <1>2, <1>3, <1>4, <1>5 DEF Rest, t

LEMMA LastSteps ==
  ASSUME TypeOK, Shapes, NEW p \in Procs
  PROVE  /\ At(p, "boot") => Of(op[p].todo) = {"boot"}
         /\ At(p, "refresh") => Of(op[p].todo) = {"refresh"}
         /\ At(p, "insert") => Of(op[p].todo) = {"insert"}
         /\ At(p, "key") => Of(op[p].todo) = {"key", "insert"}
<1>1. ASSUME NEW step \in {"boot", "refresh"}, At(p, step) PROVE Of(op[p].todo) = {step}
  <2>1. Of(op[p].todo) = {step} \cup Of(Rest(p))
      BY <1>1, Standing
  <2>2. Rest(p) = <<>>
      BY <1>1, AtEnding
  <2> QED
      BY <2>1, <2>2, OfFew
<1>2. At(p, "insert") => Of(op[p].todo) = {"insert"}
    BY AtEnding, OfFew
<1>3. ASSUME At(p, "key") PROVE Of(op[p].todo) = {"key", "insert"}
  <2>1. op[p].todo = <<"key", "insert">>
      BY <1>3, AtEnding
  <2> QED
      BY <2>1, OfFew
<1> QED
    BY <1>1, <1>2, <1>3

LEMMA Continuing ==
  ASSUME TypeOK, Shapes, NEW p \in Procs, NEW step, At(p, step), NEW s \in Seq(Plain), Continue(p, s)
  PROVE  /\ Turns(p, s \o Rest(p), op[p].up, op[p].key)
         /\ Shaped(op'[p].todo)
         /\ Of(op[p].todo) = {step} \cup Of(Rest(p))
         /\ Of(op'[p].todo) = Of(s) \cup Of(Rest(p))
<1>1. s \in Seq(Step) /\ s \o Rest(p) \in Seq(Step)
    BY Standing, PlainSteps
<1>2. Turns(p, s \o Rest(p), op[p].up, op[p].key)
    BY <1>1, Turning DEF Continue
<1>3. Shaped(s \o Rest(p))
    BY Standing, ShapedPrefix
<1> QED
    BY <1>1, <1>2, <1>3, Standing, OfConcat DEF Turns

(* The lists of steps that commands and steps put in front. *)
LEMMA OfUnless ==
  ASSUME NEW present, NEW x \in Plain
  PROVE  Unless(present, x) \in Seq(Plain) /\ Of(Unless(present, x)) = {x} \ present
BY OfFew DEF Unless

LEMMA OfMissing ==
  ASSUME NEW ts, NEW cs
  PROVE  /\ create_all(ts) \in Seq(Plain)
         /\ Of(create_all(ts)) = TABLES \ ts
         /\ _ensure_account_columns(ts, cs) \in Seq(Plain)
         /\ Of(_ensure_account_columns(ts, cs)) =
              IF "connected_accounts" \in ts THEN COLUMNS \ cs ELSE {}
<1> DEFINE U(x) == Unless(ts, x)
           V(x) == Unless(cs, x)
<1>1. \A x \in Plain : /\ U(x) \in Seq(Plain) /\ Of(U(x)) = {x} \ ts
                       /\ V(x) \in Seq(Plain) /\ Of(V(x)) = {x} \ cs
    BY OfUnless
<1>2. TABLES \subseteq Plain /\ COLUMNS \subseteq Plain
    BY DEF Plain
<1> HIDE DEF U, V
<1>3. \A a, b \in Seq(Plain) : a \o b \in Seq(Plain) /\ Of(a \o b) = Of(a) \cup Of(b)
    BY PlainSteps, OfConcat
<1>4. /\ (U("connected_accounts") \o U("exact_cache")) \o U("model_registry") \in Seq(Plain)
      /\ Of((U("connected_accounts") \o U("exact_cache")) \o U("model_registry")) = TABLES \ ts
  <2> DEFINE A == U("connected_accounts")
             B == U("exact_cache")
             C == U("model_registry")
  <2>1. /\ A \in Seq(Plain) /\ Of(A) = {"connected_accounts"} \ ts
        /\ B \in Seq(Plain) /\ Of(B) = {"exact_cache"} \ ts
        /\ C \in Seq(Plain) /\ Of(C) = {"model_registry"} \ ts
      BY <1>1, <1>2 DEF TABLES
  <2> HIDE DEF A, B, C
  <2>2. A \o B \in Seq(Plain) /\ Of(A \o B) = Of(A) \cup Of(B)
      BY <2>1, <1>3
  <2>3. (A \o B) \o C \in Seq(Plain) /\ Of((A \o B) \o C) = Of(A \o B) \cup Of(C)
      BY <2>1, <2>2, <1>3
  <2>4. (A \o B) \o C \in Seq(Plain) /\ Of((A \o B) \o C) = TABLES \ ts
      BY <2>1, <2>2, <2>3 DEF TABLES
  <2> QED
      BY <2>4 DEF A, B, C
<1>5. /\ V("source_type") \o V("base_url") \in Seq(Plain)
      /\ Of(V("source_type") \o V("base_url")) = COLUMNS \ cs
  <2> DEFINE A == V("source_type")
             B == V("base_url")
  <2>1. /\ A \in Seq(Plain) /\ Of(A) = {"source_type"} \ cs
        /\ B \in Seq(Plain) /\ Of(B) = {"base_url"} \ cs
      BY <1>1, <1>2 DEF COLUMNS
  <2> HIDE DEF A, B
  <2>2. A \o B \in Seq(Plain) /\ Of(A \o B) = Of(A) \cup Of(B)
      BY <2>1, <1>3
  <2>3. A \o B \in Seq(Plain) /\ Of(A \o B) = COLUMNS \ cs
      BY <2>1, <2>2 DEF COLUMNS
  <2> QED
      BY <2>3 DEF A, B
<1>6. <<>> \in Seq(Plain) /\ Of(<<>>) = {}
    BY OfFew
<1>7. /\ create_all(ts) \in Seq(Plain)
      /\ Of(create_all(ts)) = TABLES \ ts
    BY <1>4 DEF create_all, U
<1>8. /\ _ensure_account_columns(ts, cs) \in Seq(Plain)
      /\ Of(_ensure_account_columns(ts, cs)) =
              IF "connected_accounts" \in ts THEN COLUMNS \ cs ELSE {}
    BY <1>5, <1>6 DEF _ensure_account_columns, V
<1> QED
    BY <1>7, <1>8

LEMMA Programs ==
  /\ run_init = <<"config", "open", "inspect">>
  /\ \A cmd \in Commands :
       /\ Program(cmd) \in Seq(Step) /\ Shaped(Program(cmd))
       /\ Of(Program(cmd)) \in {{"config", "open", "inspect"}, {"config", "open", "inspect", "boot"},
                                {"boot"}, {"open", "provider", "key", "insert"}, {"open", "provision"}}
  /\ \A cmd \in ShellCommands :
       /\ ShellProgram(cmd) \in Seq(Step) /\ Shaped(ShellProgram(cmd))
       /\ Of(ShellProgram(cmd)) \in {{"config", "open", "inspect", "refresh"}, {"provider", "key", "insert"},
                                     {"provision"}}
<1>1. run_init = <<"config", "open", "inspect">>
    BY DEF run_init
<1>2. run_init \in Seq(Plain)
    BY <1>1 DEF Plain
<1>3. /\ <<"open">> \in Seq(Plain) /\ <<"provider">> \in Seq(Plain)
      /\ <<"open", "provider">> \in Seq(Plain)
    BY DEF Plain
<1>4. Endings \subseteq Seq(Step) /\ \A b \in Endings : Shaped(b)
    BY PlainSteps, ShapedLists
<1>5. \A a \in Seq(Plain), b \in Endings :
        a \o b \in Seq(Step) /\ Shaped(a \o b) /\ Of(a \o b) = Of(a) \cup Of(b)
    BY <1>4, PlainSteps, ShapedPrefix, OfConcat
<1>6. /\ <<>> \in Endings /\ <<"boot">> \in Endings /\ <<"refresh">> \in Endings
      /\ <<"provision">> \in Endings /\ <<"key", "insert">> \in Endings
    BY DEF Endings
<1>7. Of(run_init) = {"config", "open", "inspect"}
    BY <1>1, OfFew
<1>8. run_init = run_init \o <<>>
    BY <1>1
<1>9. ASSUME NEW cmd \in Commands
      PROVE  /\ Program(cmd) \in Seq(Step) /\ Shaped(Program(cmd))
             /\ Of(Program(cmd)) \in {{"config", "open", "inspect"}, {"config", "open", "inspect", "boot"},
                                      {"boot"}, {"open", "provider", "key", "insert"}, {"open", "provision"}}
  <2>1. CASE cmd = "init"
      BY <2>1, <1>2, <1>5, <1>6, <1>7, <1>8 DEF Program
  <2>2. CASE cmd = "init_tty"
    <3>1. Program(cmd) = run_init \o <<"boot">>
        BY <2>2 DEF Program
    <3>2. Of(run_init \o <<"boot">>) = {"config", "open", "inspect"} \cup {"boot"}
        BY <1>2, <1>5, <1>6, <1>7, OfFew
    <3> QED
        BY <3>1, <3>2, <1>2, <1>5, <1>6
  <2>3. CASE cmd = "shell"
      BY <2>3, <1>4, <1>6, OfFew DEF Program
  <2>4. CASE cmd = "connect"
    <3>1. Program(cmd) = <<"open", "provider">> \o <<"key", "insert">>
        BY <2>4 DEF Program
    <3>2. Program(cmd) \in Seq(Step) /\ Shaped(Program(cmd))
        BY <3>1, <1>3, <1>5, <1>6
    <3>3. Program(cmd) = <<"open", "provider", "key", "insert">>
        BY <2>4 DEF Program
    <3>4. Of(<<"open", "provider", "key", "insert">>) = {"open", "provider", "key", "insert"}
        BY OfFew
    <3> QED
        BY <3>2, <3>3, <3>4
  <2>5. CASE cmd = "route"
    <3>1. Program(cmd) = <<"open">> \o <<"provision">>
        BY <2>5 DEF Program
    <3>2. Program(cmd) \in Seq(Step) /\ Shaped(Program(cmd))
        BY <3>1, <1>3, <1>5, <1>6
    <3>3. Program(cmd) = <<"open", "provision">>
        BY <2>5 DEF Program
    <3>4. Of(<<"open", "provision">>) = {"open", "provision"}
        BY OfFew
    <3> QED
        BY <3>2, <3>3, <3>4
  <2> QED
      BY <2>1, <2>2, <2>3, <2>4, <2>5 DEF Commands
<1>10. ASSUME NEW cmd \in ShellCommands
       PROVE  /\ ShellProgram(cmd) \in Seq(Step) /\ Shaped(ShellProgram(cmd))
              /\ Of(ShellProgram(cmd)) \in {{"config", "open", "inspect", "refresh"}, {"provider", "key", "insert"},
                                            {"provision"}}
  <2>1. CASE cmd = "init"
    <3>1. ShellProgram(cmd) = run_init \o <<"refresh">>
        BY <2>1 DEF ShellProgram
    <3>2. Of(run_init \o <<"refresh">>) = {"config", "open", "inspect"} \cup {"refresh"}
        BY <1>2, <1>5, <1>6, <1>7, OfFew
    <3> QED
        BY <3>1, <3>2, <1>2, <1>5, <1>6
  <2>2. CASE cmd = "connect"
    <3>1. ShellProgram(cmd) = <<"provider">> \o <<"key", "insert">>
        BY <2>2 DEF ShellProgram
    <3>2. ShellProgram(cmd) \in Seq(Step) /\ Shaped(ShellProgram(cmd))
        BY <3>1, <1>3, <1>5, <1>6
    <3>3. ShellProgram(cmd) = <<"provider", "key", "insert">>
        BY <2>2 DEF ShellProgram
    <3>4. Of(<<"provider", "key", "insert">>) = {"provider", "key", "insert"}
        BY OfFew
    <3> QED
        BY <3>2, <3>3, <3>4
  <2>3. CASE cmd = "route"
      BY <2>3, <1>4, <1>6, OfFew DEF ShellProgram
  <2> QED
      BY <2>1, <2>2, <2>3 DEF ShellCommands
<1> QED
    BY <1>1, <1>9, <1>10

-----------------------------------------------------------------------------
(* Every action, in terms of the steps that are left afterwards.             *)
Ends(p) == Turns(p, <<>>, op[p].up, NoKey)
Goes(p, step, new) ==
  /\ op' \in [Procs -> Op]
  /\ op'[p].up = op[p].up /\ op'[p].key = op[p].key
  /\ \A q \in Procs \ {p} : op'[q] = op[q]
  /\ Shaped(op'[p].todo)
  /\ Of(op[p].todo) = {step} \cup Of(Rest(p))
  /\ Of(op'[p].todo) = new \cup Of(Rest(p))

LEMMA Going ==
  ASSUME TypeOK, Shapes, NEW p \in Procs, NEW step, At(p, step), NEW s \in Seq(Plain), Continue(p, s)
  PROVE  Goes(p, step, Of(s))
BY Continuing DEF Goes, Turns

LEMMA FileSteps ==
  ASSUME TypeOK, Shapes, NEW p \in Procs
  PROVE  /\ Look(p) => Goes(p, "config", IF config = "absent" THEN {"truncate", "fill"} ELSE {})
         /\ Truncate(p) => Goes(p, "truncate", {})
         /\ Fill(p) => Goes(p, "fill", {})
<1>1. <<"truncate", "fill">> \in Seq(Plain) /\ <<>> \in Seq(Plain)
    BY DEF Plain
<1>2. Of(<<"truncate", "fill">>) = {"truncate", "fill"} /\ Of(<<>>) = {}
    BY OfFew
<1> QED
    BY <1>1, <1>2, Going DEF Look, LookConfig, Truncate, Fill

LEMMA SchemaSteps ==
  ASSUME TypeOK, Shapes, NEW p \in Procs
  PROVE  /\ Open(p) => Goes(p, "open", IF "connected_accounts" \in tables THEN COLUMNS \ columns ELSE {})
         /\ \A c \in COLUMNS : Alter(p, c) => Ends(p) \/ Goes(p, c, {})
         /\ Inspect(p) => Goes(p, "inspect", TABLES \ tables)
         /\ Provision(p) => Goes(p, "provision", {"exact_cache"} \ tables)
         /\ \A t \in TABLES : Create(p, t) => Ends(p) \/ Goes(p, t, {})
<1>1. <<>> \in Seq(Plain) /\ Of(<<>>) = {}
    BY OfFew
<1>2. "exact_cache" \in Plain
    BY DEF Plain, TABLES
<1>3. ASSUME Open(p)
      PROVE  Goes(p, "open", IF "connected_accounts" \in tables THEN COLUMNS \ columns ELSE {})
  <2> DEFINE s == _ensure_account_columns(tables, columns)
  <2>1. s \in Seq(Plain) /\ Of(s) = IF "connected_accounts" \in tables THEN COLUMNS \ columns ELSE {}
      BY OfMissing
  <2>2. At(p, "open") /\ Continue(p, s)
      BY <1>3 DEF Open
  <2> HIDE DEF s
  <2>3. Goes(p, "open", Of(s))
      BY <2>1, <2>2, Going
  <2> QED
      BY <2>1, <2>3
<1>4. ASSUME NEW c \in COLUMNS, Alter(p, c) PROVE Ends(p) \/ Goes(p, c, {})
    BY <1>1, <1>4, Going, Turning DEF Alter, Ends
<1>5. ASSUME Inspect(p) PROVE Goes(p, "inspect", TABLES \ tables)
  <2> DEFINE s == create_all(tables)
  <2>1. s \in Seq(Plain) /\ Of(s) = TABLES \ tables
      BY OfMissing
  <2>2. At(p, "inspect") /\ Continue(p, s)
      BY <1>5 DEF Inspect
  <2> HIDE DEF s
  <2>3. Goes(p, "inspect", Of(s))
      BY <2>1, <2>2, Going
  <2> QED
      BY <2>1, <2>3
<1>6. ASSUME Provision(p) PROVE Goes(p, "provision", {"exact_cache"} \ tables)
  <2> DEFINE s == Unless(tables, "exact_cache")
  <2>1. s \in Seq(Plain) /\ Of(s) = {"exact_cache"} \ tables
      BY <1>2, OfUnless
  <2>2. At(p, "provision") /\ Continue(p, s)
      BY <1>6 DEF Provision
  <2> HIDE DEF s
  <2>3. Goes(p, "provision", Of(s))
      BY <2>1, <2>2, Going
  <2> QED
      BY <2>1, <2>3
<1>7. ASSUME NEW t \in TABLES, Create(p, t) PROVE Ends(p) \/ Goes(p, t, {})
    BY <1>1, <1>7, Going, Turning DEF Create, Ends
<1> QED
    BY <1>3, <1>4, <1>5, <1>6, <1>7

LEMMA BootSteps ==
  ASSUME TypeOK, Shapes, NEW p \in Procs
  PROVE  /\ Boot(p) =>
              /\ op' \in [Procs -> Op]
              /\ op'[p].up = op[p].up /\ op'[p].key = op[p].key
              /\ \A q \in Procs \ {p} : op'[q] = op[q]
              /\ Shaped(op'[p].todo)
              /\ Of(op'[p].todo) \ {"config"} = {"open", "inspect", "refresh"}
         /\ Refresh(p) => \/ Ends(p)
                          \/ /\ Turns(p, <<>>, TRUE, op[p].key)
                             /\ Of(op[p].todo) = {"refresh"}
                             /\ Accounts /\ "model_registry" \in tables
<1>1. ASSUME Boot(p)
      PROVE  /\ op' \in [Procs -> Op]
             /\ op'[p].up = op[p].up /\ op'[p].key = op[p].key
             /\ \A q \in Procs \ {p} : op'[q] = op[q]
             /\ Shaped(op'[p].todo)
             /\ Of(op'[p].todo) \ {"config"} = {"open", "inspect", "refresh"}
  <2> DEFINE i == IF db THEN <<>> ELSE run_init
             m == i \o create_all_tables
             s == m \o <<"open", "refresh">>
  <2>1. /\ i \in Seq(Plain) /\ Of(i) \ {"config"} \subseteq {"open", "inspect"}
        /\ create_all_tables \in Seq(Plain) /\ Of(create_all_tables) = {"open", "inspect"}
    <3>1. run_init = <<"config", "open", "inspect">> /\ <<>> \in Seq(Plain)
        BY Programs
    <3>2. run_init \in Seq(Plain) /\ Of(run_init) = {"config", "open", "inspect"} /\ Of(<<>>) = {}
        BY <3>1, OfFew DEF Plain
    <3>3. <<"open", "inspect">> \in Seq(Plain) /\ Of(<<"open", "inspect">>) = {"open", "inspect"}
        BY OfFew DEF Plain
    <3> QED
        BY <3>1, <3>2, <3>3 DEF create_all_tables
  <2>2. /\ <<"open">> \in Seq(Plain) /\ <<"refresh">> \in Endings
        /\ <<"open", "refresh">> = <<"open">> \o <<"refresh">>
      BY DEF Plain, Endings
  <2>3. Shaped(<<"open", "refresh">>)
      BY <2>2 DEF Shaped
  <2>4. m \in Seq(Plain) /\ m \in Seq(Step) /\ Of(m) = Of(i) \cup {"open", "inspect"}
    <3> HIDE DEF i
    <3>1. i \in Seq(Step) /\ create_all_tables \in Seq(Step)
        BY <2>1, PlainSteps
    <3>2. Of(m) = Of(i) \cup Of(create_all_tables) /\ m \in Seq(Step)
        BY <3>1, OfConcat
    <3>3. m \in Seq(Plain)
        BY <2>1
    <3> QED
        BY <2>1, <3>2, <3>3
  <2>5. <<"open", "refresh">> \in Seq(Step) /\ Of(<<"open", "refresh">>) = {"open", "refresh"}
      BY OfFew DEF Step
  <2> HIDE DEF i, m
  <2>6. /\ s \in Seq(Step) /\ Shaped(s)
        /\ Of(s) = Of(m) \cup {"open", "refresh"}
    <3> DEFINE e == <<"open", "refresh">>
    <3> HIDE DEF e
    <3>1. Shaped(e) /\ e \in Seq(Step) /\ Of(e) = {"open", "refresh"}
        BY <2>3, <2>5 DEF e
    <3>2. m \o e \in Seq(Step) /\ Shaped(m \o e) /\ Of(m \o e) = Of(m) \cup Of(e)
        BY <2>4, <3>1, ShapedPrefix, OfConcat
    <3> QED
        BY <3>1, <3>2 DEF e
  <2>7. Rest(p) = <<>>
      BY <1>1, AtEnding DEF Boot
  <2> HIDE DEF s
  <2>8. s \o Rest(p) = s
      BY <2>6, <2>7
  <2>9. op' = [op EXCEPT ![p].todo = s]
      BY <1>1, <2>8 DEF Boot, Continue, i, m, s
  <2>10. Turns(p, s, op[p].up, op[p].key)
      BY <2>6, <2>9, Turning
  <2>11. Of(s) \ {"config"} = {"open", "inspect", "refresh"}
      BY <2>1, <2>4, <2>6
  <2> QED
      BY <2>6, <2>10, <2>11 DEF Turns
<1>2. ASSUME Refresh(p)
      PROVE  \/ Ends(p)
             \/ /\ Turns(p, <<>>, TRUE, op[p].key)
                /\ Of(op[p].todo) = {"refresh"}
                /\ Accounts /\ "model_registry" \in tables
  <2>1. At(p, "refresh") /\ Rest(p) = <<>> /\ Of(op[p].todo) = {"refresh"} \cup Of(<<>>)
      BY <1>2, AtEnding, Standing DEF Refresh
  <2>2. Of(op[p].todo) = {"refresh"} /\ <<>> \in Seq(Step)
      BY <2>1, OfFew
  <2> QED
      BY <1>2, <2>1, <2>2, Turning DEF Refresh, Ends
<1> QED
    BY <1>1, <1>2

LEMMA ProviderSteps ==
  ASSUME TypeOK, Shapes, NEW p \in Procs
  PROVE  /\ Accepted(p) => Goes(p, "provider", {})
         /\ Refused(p) => Ends(p)
<1>1. ASSUME Accepted(p) PROVE Goes(p, "provider", {})
  <2>1. <<>> \in Seq(Plain) /\ Of(<<>>) = {}
      BY OfFew
  <2> QED
      BY <1>1, <2>1, Going DEF Accepted
<1>2. ASSUME Refused(p) PROVE Ends(p)
    BY <1>2, Turning DEF Refused, Ends
<1> QED
    BY <1>1, <1>2

LEMMA KeySteps ==
  ASSUME TypeOK, Shapes, NEW p \in Procs
  PROVE  /\ Generate(p) => /\ op[p].todo = <<"key", "insert">>
                           /\ Turns(p, <<"erase", "write", "insert">>, op[p].up, p)
         /\ Load(p) => \/ Ends(p)
                       \/ /\ op[p].todo = <<"key", "insert">> /\ keyfile \in Keys
                          /\ Turns(p, <<"insert">>, op[p].up, keyfile)
         /\ Erase(p) => /\ op[p].todo = <<"erase", "write", "insert">>
                        /\ Turns(p, <<"write", "insert">>, op[p].up, op[p].key)
         /\ Write(p) => /\ op[p].todo = <<"write", "insert">>
                        /\ Turns(p, <<"insert">>, op[p].up, op[p].key)
         /\ Insert(p) => op[p].todo = <<"insert">> /\ Ends(p)
<1>1. /\ <<"erase", "write", "insert">> \in Seq(Step)
      /\ <<"write", "insert">> \in Seq(Step) /\ <<"insert">> \in Seq(Step)
      /\ <<"erase", "write">> \o <<"insert">> = <<"erase", "write", "insert">>
      /\ <<>> \o <<"write", "insert">> = <<"write", "insert">>
      /\ <<>> \o <<"insert">> = <<"insert">>
  <2>1. {"erase", "write", "insert"} \subseteq Step
      BY DEF Step
  <2>2. /\ <<"erase", "write", "insert">> \in Seq(Step)
        /\ <<"write", "insert">> \in Seq(Step) /\ <<"insert">> \in Seq(Step)
      BY <2>1
  <2>3. <<"erase", "write">> \o <<"insert">> = <<"erase", "write", "insert">>
    <3> DEFINE s == <<"erase", "write">>
               t == <<"insert">>
               u == <<"erase", "write", "insert">>
    <3>1. /\ s \in Seq(Step) /\ Len(s) = 2 /\ s[1] = "erase" /\ s[2] = "write"
          /\ t \in Seq(Step) /\ Len(t) = 1 /\ t[1] = "insert"
          /\ u \in Seq(Step) /\ Len(u) = 3 /\ u[1] = "erase" /\ u[2] = "write" /\ u[3] = "insert"
        BY <2>1
    <3> HIDE DEF s, t, u
    <3>2. /\ s \o t \in Seq(Step) /\ Len(s \o t) = 3
          /\ (s \o t)[1] = "erase" /\ (s \o t)[2] = "write" /\ (s \o t)[3] = "insert"
      <4>1. /\ s \o t \in Seq(Step) /\ Len(s \o t) = Len(s) + Len(t)
            /\ \A i \in 1..Len(s) + Len(t) :
                 (s \o t)[i] = IF i <= Len(s) THEN s[i] ELSE t[i - Len(s)]
          BY <3>1, ConcatProperties
      <4>2. 1 \in 1..Len(s) + Len(t) /\ 2 \in 1..Len(s) + Len(t) /\ 3 \in 1..Len(s) + Len(t)
          BY <3>1
      <4> QED
          BY <3>1, <4>1, <4>2
    <3>3. \A i \in 1..3 : (s \o t)[i] = u[i]
      <4> 1..3 = {1, 2, 3}
          OBVIOUS
      <4> QED
          BY <3>1, <3>2
    <3>4. \A x, y \in Seq(Step) :
            Len(x) = Len(y) /\ (\A i \in 1..Len(x) : x[i] = y[i]) => x = y
        BY SeqEqual
    <3>5. s \o t = u
        BY <3>1, <3>2, <3>3, <3>4
    <3> QED
        BY <3>5 DEF s, t, u
  <2>4. /\ <<>> \o <<"write", "insert">> = <<"write", "insert">>
        /\ <<>> \o <<"insert">> = <<"insert">>
      BY <2>2, ConcatEmptySeq
  <2> QED
      BY <2>2, <2>3, <2>4
<1>2. ASSUME Generate(p)
      PROVE  /\ op[p].todo = <<"key", "insert">>
             /\ Turns(p, <<"erase", "write", "insert">>, op[p].up, p)
    BY <1>1, <1>2, AtEnding, Turning DEF Generate, Keys
<1>3. ASSUME Load(p)
      PROVE  \/ Ends(p)
             \/ /\ op[p].todo = <<"key", "insert">> /\ keyfile \in Keys
                /\ Turns(p, <<"insert">>, op[p].up, keyfile)
    BY <1>1, <1>3, AtEnding, Turning DEF Load, Ends
<1>4. ASSUME Erase(p)
      PROVE  /\ op[p].todo = <<"erase", "write", "insert">>
             /\ Turns(p, <<"write", "insert">>, op[p].up, op[p].key)
    BY <1>1, <1>4, AtEnding, Turning DEF Erase, Continue
<1>5. ASSUME Write(p)
      PROVE  /\ op[p].todo = <<"write", "insert">>
             /\ Turns(p, <<"insert">>, op[p].up, op[p].key)
    BY <1>1, <1>5, AtEnding, Turning DEF Write, Continue
<1>6. ASSUME Insert(p) PROVE op[p].todo = <<"insert">> /\ Ends(p)
    BY <1>6, AtEnding, Turning DEF Insert, Ends
<1> QED
    BY <1>2, <1>3, <1>4, <1>5, <1>6

LEMMA UserSteps ==
  ASSUME TypeOK, Shapes, NEW p \in Procs
  PROVE  /\ \A cmd \in Commands : Start(p, cmd) => Turns(p, Program(cmd), op[p].up, op[p].key)
         /\ \A cmd \in ShellCommands : Enter(p, cmd) => Turns(p, ShellProgram(cmd), op[p].up, op[p].key)
         /\ Quit(p) => Turns(p, <<>>, FALSE, NoKey)
         /\ Crash(p) => Turns(p, <<>>, FALSE, NoKey)
BY Programs, Turning DEF Start, Enter, Quit, Crash

-----------------------------------------------------------------------------
(* Types, the shape of what is left, and when a process holds a key: from     *)
(* the answer of ensure_key until its command is over.                       *)
HoldsKey(p) ==
  /\ Generating(p) => op[p].key = p
  /\ op[p].key \in Keys <=> Ahead(p, "insert") /\ ~Ahead(p, "key")
Holding == \A p \in Procs : HoldsKey(p)
Typed == TypeOK /\ Shapes /\ Holding

LEMMA TypedInit == Init => Typed
<1> SUFFICES ASSUME Init PROVE Typed
    OBVIOUS
<1>1. <<>> \in Seq(Step) /\ <<>> \in Endings /\ Shaped(<<>>)
    BY ShapedLists DEF Endings
<1>2. Gone \in Op /\ Gone.todo = <<>>
    BY <1>1 DEF Gone, Op
<1>3. op = [p \in Procs |-> Gone]
    BY DEF Init
<1>4. TypeOK
    BY <1>2, <1>3 DEF Init, TypeOK, Config, Keys, TABLES, COLUMNS
<1> QED
  <2>1. \A p \in Procs : op[p] = Gone
      BY <1>3
  <2>2. Shapes
      BY <1>1, <1>2, <2>1 DEF Shapes
  <2>3. Of(<<>>) = {} /\ NoKey \notin Keys
      BY OfFew, KeysAssumption DEF Keys
  <2>4. Holding
      BY <2>1, <2>3 DEF Holding, HoldsKey, Generating, Ahead, Gone
  <2> QED
      BY <1>4, <2>2, <2>4 DEF Typed

(* What one process does to the steps that are left is enough. *)
Moves(p) ==
  /\ op' \in [Procs -> Op]
  /\ \A q \in Procs \ {p} : op'[q] = op[q]
  /\ Shaped(op'[p].todo)
  /\ HoldsKey(p)'

LEMMA MovesOne == ASSUME Typed, NEW p \in Procs, Moves(p) PROVE Shapes' /\ Holding'
<1>1. \A q \in Procs \ {p} : HoldsKey(q)'
    BY DEF Typed, Holding, HoldsKey, Generating, Ahead, Moves
<1>2. Shapes'
    BY DEF Typed, Shapes, Moves
<1> QED
    BY <1>1, <1>2 DEF Holding, Moves

LEMMA GoesMoves ==
  ASSUME Typed, NEW p \in Procs, NEW step \in Plain \cup {"provision"}, NEW new \in SUBSET Plain,
         Goes(p, step, new)
  PROVE  Moves(p)
<1>1. \A k \in {"key", "erase", "write", "insert"} : k # step /\ k \notin new
    BY DEF Plain, COLUMNS, TABLES
<1>2. \A k \in {"key", "erase", "write", "insert"} : Ahead(p, k)' <=> Ahead(p, k)
    BY <1>1 DEF Goes, Ahead
<1> QED
    BY <1>2 DEF Typed, Holding, HoldsKey, Generating, Goes, Moves

LEMMA EndsMoves == ASSUME Typed, NEW p \in Procs, NEW u, Turns(p, <<>>, u, NoKey) PROVE Moves(p)
<1>1. Of(<<>>) = {} /\ Shaped(<<>>) /\ NoKey \notin Keys
    BY OfFew, ShapedLists, KeysAssumption DEF Endings, Keys
<1> QED
    BY <1>1 DEF Turns, Moves, HoldsKey, Generating, Ahead

LEMMA BeginMoves ==
  ASSUME Typed, NEW p \in Procs, ~Ahead(p, "insert"), Shaped(op'[p].todo),
         op' \in [Procs -> Op], \A q \in Procs \ {p} : op'[q] = op[q], op'[p].key = op[p].key,
         ~Generating(p)', Ahead(p, "insert")' => Ahead(p, "key")'
  PROVE  Moves(p)
BY DEF Typed, Holding, HoldsKey, Moves

LEMMA WorkMoves == ASSUME Typed, NEW p \in Procs, Work(p) PROVE Moves(p)
<1> USE DEF Typed
<1>0. /\ {"config", "truncate", "fill", "open", "inspect", "exact_cache"} \subseteq Plain
      /\ COLUMNS \subseteq Plain /\ TABLES \subseteq Plain
    BY DEF Plain, TABLES
<1>1. CASE Look(p)
    BY <1>0, <1>1, FileSteps, GoesMoves
<1>2. CASE Truncate(p) \/ Fill(p)
    BY <1>0, <1>2, FileSteps, GoesMoves
<1>3. CASE Open(p)
  <2>1. (IF "connected_accounts" \in tables THEN COLUMNS \ columns ELSE {}) \in SUBSET Plain
      BY <1>0
  <2> QED
      BY <1>0, <1>3, <2>1, SchemaSteps, GoesMoves
<1>4. ASSUME NEW c \in COLUMNS, Alter(p, c) PROVE Moves(p)
    BY <1>0, <1>4, SchemaSteps, GoesMoves, EndsMoves DEF Ends
<1>5. CASE Inspect(p) \/ Provision(p)
    BY <1>0, <1>5, SchemaSteps, GoesMoves
<1>6. ASSUME NEW t \in TABLES, Create(p, t) PROVE Moves(p)
    BY <1>0, <1>6, SchemaSteps, GoesMoves, EndsMoves DEF Ends
<1>7. CASE Boot(p)
  <2>1. Of(op[p].todo) = {"boot"}
      BY <1>7, LastSteps DEF Boot
  <2>2. ~Generating(p)' /\ ~Ahead(p, "insert")'
    <3>1. Of(op'[p].todo) \ {"config"} = {"open", "inspect", "refresh"}
        BY <1>7, BootSteps
    <3> QED
        BY <3>1 DEF Generating, Ahead
  <2> QED
      BY <2>1, <2>2, <1>7, BootSteps, BeginMoves DEF Ahead
<1>8. CASE Refresh(p)
  <2>1. CASE Ends(p)
      BY <2>1, EndsMoves DEF Ends
  <2>2. CASE Turns(p, <<>>, TRUE, op[p].key) /\ Of(op[p].todo) = {"refresh"}
    <3>1. Of(<<>>) = {} /\ Shaped(<<>>)
        BY OfFew, ShapedLists DEF Endings
    <3> QED
        BY <2>2, <3>1, BeginMoves DEF Turns, Generating, Ahead
  <2> QED
      BY <1>8, <2>1, <2>2, BootSteps
<1>9. /\ Shaped(<<"erase", "write", "insert">>) /\ Shaped(<<"write", "insert">>) /\ Shaped(<<"insert">>)
      /\ Of(<<"erase", "write", "insert">>) = {"erase", "write", "insert"}
      /\ Of(<<"write", "insert">>) = {"write", "insert"} /\ Of(<<"insert">>) = {"insert"}
    BY OfFew, ShapedLists DEF Endings
<1>10. CASE Generate(p)
    BY <1>9, <1>10, KeySteps DEF Turns, Moves, HoldsKey, Generating, Ahead, Keys
<1>11. CASE Load(p)
  <2>1. CASE Ends(p)
      BY <2>1, EndsMoves DEF Ends
  <2>2. CASE Turns(p, <<"insert">>, op[p].up, keyfile) /\ keyfile \in Keys
      BY <1>9, <2>2 DEF Turns, Moves, HoldsKey, Generating, Ahead
  <2> QED
      BY <1>11, <2>1, <2>2, KeySteps
<1>12. CASE Erase(p) \/ Write(p)
  <2>1. Generating(p) /\ op[p].key = p
      BY <1>9, <1>12, KeySteps DEF Generating, Ahead, Holding, HoldsKey
  <2> QED
      BY <1>9, <1>12, <2>1, KeySteps DEF Turns, Moves, HoldsKey, Generating, Ahead, Keys
<1>13. CASE Insert(p)
    BY <1>13, KeySteps, EndsMoves DEF Ends
<1>14. CASE Accepted(p)
    BY <1>14, ProviderSteps, GoesMoves DEF Plain
<1>15. CASE Refused(p)
    BY <1>15, ProviderSteps, EndsMoves DEF Ends
<1> QED
    BY <1>1, <1>2, <1>3, <1>4, <1>5, <1>6, <1>7, <1>8, <1>10, <1>11, <1>12, <1>13, <1>14, <1>15
    DEF Work

LEMMA UserMoves ==
  ASSUME Typed, NEW p \in Procs,
         \/ \E cmd \in Commands : Start(p, cmd)
         \/ \E cmd \in ShellCommands : Enter(p, cmd)
         \/ Quit(p) \/ Crash(p)
  PROVE  Moves(p)
<1> USE DEF Typed
<1>1. Idle(p) => ~Ahead(p, "insert")
    BY OfFew DEF Idle, Ahead
<1>2. ASSUME NEW cmd \in Commands, Start(p, cmd) PROVE Moves(p)
  <2>1. Turns(p, Program(cmd), op[p].up, op[p].key)
      BY <1>2, UserSteps
  <2>2. Shaped(Program(cmd))
      BY Programs
  <2>3. ~Generating(p)' /\ (Ahead(p, "insert")' => Ahead(p, "key")')
    <3>1. Of(Program(cmd)) \in {{"config", "open", "inspect"}, {"config", "open", "inspect", "boot"},
                                {"boot"}, {"open", "provider", "key", "insert"}, {"open", "provision"}}
        BY Programs
    <3>2. /\ {"erase", "write"} \cap Of(Program(cmd)) = {}
          /\ "insert" \in Of(Program(cmd)) => "key" \in Of(Program(cmd))
        BY <3>1
    <3>3. op'[p].todo = Program(cmd)
        BY <2>1 DEF Turns
    <3> QED
        BY <3>2, <3>3 DEF Generating, Ahead
  <2> QED
      BY <1>1, <1>2, <2>1, <2>2, <2>3, BeginMoves DEF Start, Turns
<1>3. ASSUME NEW cmd \in ShellCommands, Enter(p, cmd) PROVE Moves(p)
  <2>1. Turns(p, ShellProgram(cmd), op[p].up, op[p].key) /\ Shaped(ShellProgram(cmd))
      BY <1>3, UserSteps, Programs
  <2>2. ~Generating(p)' /\ (Ahead(p, "insert")' => Ahead(p, "key")')
    <3>1. Of(ShellProgram(cmd)) \in {{"config", "open", "inspect", "refresh"}, {"provider", "key", "insert"},
                                     {"provision"}}
        BY Programs
    <3>2. /\ {"erase", "write"} \cap Of(ShellProgram(cmd)) = {}
          /\ "insert" \in Of(ShellProgram(cmd)) => "key" \in Of(ShellProgram(cmd))
        BY <3>1
    <3>3. op'[p].todo = ShellProgram(cmd)
        BY <2>1 DEF Turns
    <3> QED
        BY <3>2, <3>3 DEF Generating, Ahead
  <2> QED
      BY <1>1, <1>3, <2>1, <2>2, BeginMoves DEF Enter, Turns
<1>4. CASE Quit(p) \/ Crash(p)
    BY <1>4, UserSteps, EndsMoves
<1> QED
    BY <1>2, <1>3, <1>4

(* What the steps leave behind is of the right type. *)
LEMMA WorkTyped ==
  ASSUME Typed, NEW p \in Procs, Work(p), op' \in [Procs -> Op]
  PROVE  TypeOK'
<1> USE DEF Typed, TypeOK
<1>1. CASE Look(p)
    BY <1>1 DEF Look, home
<1>2. CASE Truncate(p) \/ Fill(p)
    BY <1>2 DEF Truncate, Fill, Config
<1>3. CASE Open(p)
    BY <1>3 DEF Open
<1>4. ASSUME NEW c \in COLUMNS, Alter(p, c) PROVE TypeOK'
    BY <1>4 DEF Alter
<1>5. CASE Inspect(p) \/ Provision(p)
    BY <1>5 DEF Inspect, Provision, home
<1>6. ASSUME NEW t \in TABLES, Create(p, t) PROVE TypeOK'
    BY <1>6 DEF Create
<1>7. CASE Boot(p) \/ Refresh(p)
    BY <1>7 DEF Boot, Refresh, home
<1>8. CASE Generate(p)
    BY <1>8 DEF Generate, home
<1>9. CASE Load(p)
    BY <1>9 DEF Load, home
<1>10. CASE Erase(p)
    BY <1>10 DEF Erase
<1>11. CASE Write(p)
  <2>1. op[p].key \in Keys
    <3>1. op[p].todo = <<"write", "insert">> /\ Of(<<"write", "insert">>) = {"write", "insert"}
        BY <1>11, KeySteps, OfFew
    <3> QED
        BY <3>1 DEF Holding, HoldsKey, Ahead
  <2> QED
      BY <1>11, <2>1 DEF Write
<1>12. CASE Insert(p)
  <2>1. op[p].key \in Keys
    <3>1. op[p].todo = <<"insert">> /\ Of(<<"insert">>) = {"insert"}
        BY <1>12, KeySteps, OfFew
    <3> QED
        BY <3>1 DEF Holding, HoldsKey, Ahead
  <2> QED
      BY <1>12, <2>1 DEF Insert
<1>13. CASE Accepted(p) \/ Refused(p)
    BY <1>13 DEF Accepted, Refused, home
<1> QED
    BY <1>1, <1>2, <1>3, <1>4, <1>5, <1>6, <1>7, <1>8, <1>9, <1>10, <1>11, <1>12, <1>13 DEF Work

LEMMA TypedStep == Typed /\ [Next]_vars => Typed'
<1> SUFFICES ASSUME Typed, [Next]_vars PROVE Typed'
    OBVIOUS
<1>1. CASE UNCHANGED vars
    BY <1>1 DEF Typed, TypeOK, Shapes, Holding, HoldsKey, Generating, Ahead, vars
<1>2. CASE Edit
  <2>1. UNCHANGED op /\ TypeOK'
      BY <1>2 DEF Edit, Typed, TypeOK, Config
  <2> QED
      BY <2>1 DEF Typed, Shapes, Holding, HoldsKey, Generating, Ahead
<1>3. ASSUME NEW p \in Procs, Work(p) PROVE Typed'
    BY <1>3, WorkMoves, WorkTyped, MovesOne DEF Moves, Typed
<1>4. ASSUME NEW p \in Procs,
             \/ \E cmd \in Commands : Start(p, cmd)
             \/ \E cmd \in ShellCommands : Enter(p, cmd)
             \/ Quit(p) \/ Crash(p)
      PROVE  Typed'
  <2>1. Moves(p)
      BY <1>4, UserMoves
  <2>2. UNCHANGED <<home, raced>> /\ crashes' \in Nat
      BY <1>4 DEF Start, Enter, Quit, Crash, Typed, TypeOK
  <2>3. TypeOK'
      BY <2>1, <2>2 DEF Moves, home, Typed, TypeOK
  <2> QED
      BY <2>1, <2>3, MovesOne DEF Typed
<1> QED
    BY <1>1, <1>2, <1>3, <1>4 DEF Next

(* Every state is of its type. *)
THEOREM TypeCorrect == Spec => []TypeOK
<1>1. Typed => TypeOK
    BY DEF Typed
<1> QED
    BY <1>1, TypedInit, TypedStep, PTL DEF Spec

-----------------------------------------------------------------------------
(* No init is about to write over a configuration that is the user's.        *)
EditSafe == config = "edited" => \A p \in Procs : ~Writing(p)

LEMMA WorkWriting ==
  ASSUME Typed, NEW p \in Procs, Work(p), Writing(p)'
  PROVE  Writing(p) \/ (Look(p) /\ config = "absent")
<1> USE DEF Typed, Writing, Ahead
<1>1. {"truncate", "fill"} \cap (COLUMNS \cup TABLES \cup {"open", "inspect", "refresh"}) = {}
    BY DEF COLUMNS, TABLES
<1>2. ASSUME NEW u, NEW k, Turns(p, <<>>, u, k) PROVE FALSE
    BY <1>2, OfFew DEF Turns
<1>3. ASSUME NEW step, NEW new, Goes(p, step, new), new \cap {"truncate", "fill"} = {}
      PROVE  Writing(p)
    BY <1>3 DEF Goes
<1>4. CASE Look(p)
    BY <1>4, <1>3, FileSteps
<1>5. CASE Truncate(p) \/ Fill(p)
    BY <1>5, <1>3, FileSteps
<1>6. CASE Open(p)
    BY <1>6, <1>1, <1>3, SchemaSteps
<1>7. ASSUME NEW c \in COLUMNS, Alter(p, c) PROVE Writing(p)
    BY <1>7, <1>2, <1>3, SchemaSteps DEF Ends
<1>8. CASE Inspect(p) \/ Provision(p)
  <2>1. (TABLES \ tables) \cap {"truncate", "fill"} = {} /\ {"exact_cache"} \cap {"truncate", "fill"} = {}
      BY <1>1
  <2> QED
      BY <1>8, <2>1, <1>3, SchemaSteps
<1>9. ASSUME NEW t \in TABLES, Create(p, t) PROVE Writing(p)
    BY <1>9, <1>2, <1>3, SchemaSteps DEF Ends
<1>10. CASE Boot(p)
  <2>1. Of(op'[p].todo) \ {"config"} = {"open", "inspect", "refresh"}
      BY <1>10, BootSteps
  <2> QED
      BY <1>1, <2>1
<1>11. CASE Refresh(p)
    BY <1>11, <1>2, BootSteps DEF Ends
<1>12. Of(<<"erase", "write", "insert">>) = {"erase", "write", "insert"}
       /\ Of(<<"write", "insert">>) = {"write", "insert"} /\ Of(<<"insert">>) = {"insert"}
    BY OfFew
<1>13. CASE Generate(p) \/ Load(p) \/ Erase(p) \/ Write(p) \/ Insert(p)
    BY <1>13, <1>2, <1>12, KeySteps DEF Turns, Ends
<1>14. CASE Accepted(p) \/ Refused(p)
    BY <1>14, <1>2, <1>3, ProviderSteps DEF Ends
<1> QED
    BY <1>4, <1>5, <1>6, <1>7, <1>8, <1>9, <1>10, <1>11, <1>13, <1>14 DEF Work

LEMMA UserWriting ==
  ASSUME Typed, NEW p \in Procs,
         \/ \E cmd \in Commands : Start(p, cmd)
         \/ \E cmd \in ShellCommands : Enter(p, cmd)
         \/ Quit(p) \/ Crash(p)
  PROVE  ~Writing(p)'
<1> USE DEF Typed, Writing, Ahead
<1>1. ASSUME NEW cmd \in Commands, Start(p, cmd) PROVE ~Writing(p)'
  <2>1. {"truncate", "fill"} \cap Of(Program(cmd)) = {}
      BY Programs
  <2> QED
      BY <1>1, <2>1, UserSteps DEF Turns
<1>2. ASSUME NEW cmd \in ShellCommands, Enter(p, cmd) PROVE ~Writing(p)'
  <2>1. {"truncate", "fill"} \cap Of(ShellProgram(cmd)) = {}
      BY Programs
  <2> QED
      BY <1>2, <2>1, UserSteps DEF Turns
<1>3. CASE Quit(p) \/ Crash(p)
    BY <1>3, UserSteps, OfFew DEF Turns
<1> QED
    BY <1>1, <1>2, <1>3

LEMMA EditStep ==
  Typed /\ EditSafe /\ [Next]_vars => EditSafe' /\ (config = "edited" => config' = "edited")
<1> SUFFICES ASSUME Typed, EditSafe, [Next]_vars
             PROVE  EditSafe' /\ (config = "edited" => config' = "edited")
    OBVIOUS
<1>1. CASE UNCHANGED vars
    BY <1>1 DEF EditSafe, Writing, Ahead, vars
<1>2. CASE Edit
    BY <1>2 DEF Edit, EditSafe, Writing, Ahead
<1>3. ASSUME NEW p \in Procs, Work(p)
      PROVE  EditSafe' /\ (config = "edited" => config' = "edited")
  <2>1. \A q \in Procs \ {p} : Writing(q)' <=> Writing(q)
      BY <1>3, WorkMoves DEF Moves, Writing, Ahead
  <2>2. CASE Truncate(p) \/ Fill(p)
    <3>1. Writing(p) /\ config' # "edited"
        BY <2>2, FileSteps DEF Typed, Truncate, Fill, Goes, Writing, Ahead
    <3> QED
        BY <3>1 DEF EditSafe
  <2>3. CASE ~Truncate(p) /\ ~Fill(p)
    <3>1. config' = config
        BY <1>3, <2>3 DEF Work, home, Look, Open, Alter, Inspect, Provision, Create, Boot, Refresh,
                          Accepted, Refused, Generate, Load, Erase, Write, Insert
    <3> QED
        BY <1>3, <2>1, <3>1, WorkWriting DEF EditSafe
  <2> QED
      BY <2>2, <2>3
<1>4. ASSUME NEW p \in Procs,
             \/ \E cmd \in Commands : Start(p, cmd)
             \/ \E cmd \in ShellCommands : Enter(p, cmd)
             \/ Quit(p) \/ Crash(p)
      PROVE  EditSafe' /\ (config = "edited" => config' = "edited")
  <2>1. \A q \in Procs \ {p} : Writing(q)' <=> Writing(q)
      BY <1>4, UserMoves DEF Moves, Writing, Ahead
  <2>2. config' = config
      BY <1>4 DEF Start, Enter, Quit, Crash, home
  <2> QED
      BY <1>4, <2>1, <2>2, UserWriting DEF EditSafe
<1> QED
    BY <1>1, <1>2, <1>3, <1>4 DEF Next

LEMMA EditInit == Init => EditSafe
BY OfFew DEF Init, EditSafe, Writing, Ahead, Gone

(* A configuration that the user has saved is never overwritten. *)
THEOREM EditsAreKept == Spec => EditsKept
<1>1. Init => Typed /\ EditSafe
    BY TypedInit, EditInit
<1>2. (Typed /\ EditSafe) /\ [Next]_vars => (Typed /\ EditSafe)'
    BY TypedStep, EditStep
<1>3. (Typed /\ EditSafe) /\ [Next]_vars => [config = "edited" => config' = "edited"]_vars
    BY EditStep
<1> QED
    BY <1>1, <1>2, <1>3, PTL DEF Spec, EditsKept

-----------------------------------------------------------------------------
(* What a process has seen of the schema stays true, or it is about to make   *)
(* it true.                                                                  *)
Opened(p) ==
  ~Ahead(p, "open") /\ (Ahead(p, "key") \/ Ahead(p, "insert") \/ Ahead(p, "refresh")) =>
    \A c \in COLUMNS : c \in columns \/ "connected_accounts" \notin tables \/ Ahead(p, c)
Inspected(p) ==
  ~Ahead(p, "inspect") /\ Ahead(p, "refresh") => \A t \in TABLES : t \in tables \/ Ahead(p, t)
Served(p) == op[p].up => tables = TABLES /\ columns = COLUMNS
Ready(p) == Opened(p) /\ Inspected(p) /\ Served(p)
SchemaSafe == \A p \in Procs : Ready(p)

(* The schema only grows. *)
Grows ==
  /\ tables \subseteq tables' /\ columns \subseteq columns'
  /\ "connected_accounts" \in tables' \ tables => columns' = COLUMNS

LEMMA NextGrows == Typed /\ [Next]_vars => Grows
<1> SUFFICES ASSUME Typed, [Next]_vars PROVE Grows
    OBVIOUS
<1> USE DEF Grows, Typed, TypeOK
<1>1. CASE UNCHANGED vars
    BY <1>1 DEF vars
<1>2. CASE Edit
    BY <1>2 DEF Edit
<1>3. ASSUME NEW p \in Procs, Work(p) PROVE Grows
  <2>1. CASE \E c \in COLUMNS : Alter(p, c)
      BY <2>1 DEF Alter
  <2>2. CASE \E t \in TABLES : Create(p, t)
      BY <2>2 DEF Create
  <2>3. CASE /\ ~\E c \in COLUMNS : Alter(p, c)
             /\ ~\E t \in TABLES : Create(p, t)
      BY <1>3, <2>3 DEF Work, home, Look, Truncate, Fill, Open, Inspect, Provision, Boot, Refresh,
                        Accepted, Refused, Generate, Load, Erase, Write, Insert
  <2> QED
      BY <2>1, <2>2, <2>3
<1>4. ASSUME NEW p \in Procs,
             \/ \E cmd \in Commands : Start(p, cmd)
             \/ \E cmd \in ShellCommands : Enter(p, cmd)
             \/ Quit(p) \/ Crash(p)
      PROVE  Grows
    BY <1>4 DEF Start, Enter, Quit, Crash, home
<1> QED
    BY <1>1, <1>2, <1>3, <1>4 DEF Next

(* Nothing that others do takes it from a process. *)
LEMMA ReadyStays ==
  ASSUME Typed, Typed', Grows, NEW q \in Procs, Ready(q), op'[q] = op[q]
  PROVE  Ready(q)'
<1>1. Opened(q)'
    BY DEF Ready, Opened, Grows, Ahead
<1>2. Inspected(q)'
    BY DEF Ready, Inspected, Grows, Ahead
<1>3. Served(q)'
    BY DEF Ready, Served, Grows, Typed, TypeOK
<1> QED
    BY <1>1, <1>2, <1>3 DEF Ready

(* A step that is neither a look at the schema nor a change of it. *)
LEMMA ReadyGoes ==
  ASSUME Typed, Typed', Grows, NEW p \in Procs, Ready(p),
         NEW step \in {"config", "truncate", "fill", "provision", "boot", "provider", "key", "erase",
                       "write"}
                      \cup COLUMNS \cup TABLES,
         NEW new,
         op'[p].up = op[p].up,
         Of(op[p].todo) = {step} \cup Of(Rest(p)),
         Of(op'[p].todo) = new \cup Of(Rest(p)),
         new \cap {"open", "inspect", "key", "insert", "refresh"} = {},
         step \in COLUMNS => step \in columns',
         step \in TABLES => step \in tables'
  PROVE  Ready(p)'
<1>1. "open" # step /\ "inspect" # step
    BY DEF COLUMNS, TABLES
<1>2. Opened(p)'
    BY <1>1 DEF Ready, Opened, Grows, Ahead
<1>3. Inspected(p)'
    BY <1>1 DEF Ready, Inspected, Grows, Ahead
<1>4. Served(p)'
    BY DEF Ready, Served, Grows, Typed, TypeOK
<1> QED
    BY <1>2, <1>3, <1>4 DEF Ready

LEMMA ReadyEnds ==
  ASSUME Typed, Typed', Grows, NEW p \in Procs, Ready(p), Of(op'[p].todo) = {},
         op'[p].up => op[p].up
  PROVE  Ready(p)'
BY DEF Ready, Opened, Inspected, Served, Ahead, Grows, Typed, TypeOK

LEMMA WorkReady ==
  ASSUME Typed, Typed', Grows, NEW p \in Procs, Ready(p), Work(p)
  PROVE  Ready(p)'
<1>0. TypeOK /\ Shapes
    BY DEF Typed
<1>1. ASSUME Ends(p) PROVE Ready(p)'
    BY <1>1, ReadyEnds, OfFew DEF Ends, Turns
<1> DEFINE Look5 == {"open", "inspect", "key", "insert", "refresh"}
           Mine == {"config", "truncate", "fill", "provision", "provider"} \cup COLUMNS \cup TABLES
<1>2. ASSUME NEW step \in Mine, NEW new, Goes(p, step, new), new \cap Look5 = {},
             step \in COLUMNS => step \in columns', step \in TABLES => step \in tables'
      PROVE  Ready(p)'
    BY <1>2, ReadyGoes DEF Goes
<1>3. CASE Look(p)
  <2>1. \E new : Goes(p, "config", new) /\ new \subseteq {"truncate", "fill"}
      BY <1>0, <1>3, FileSteps
  <2> QED
      BY <2>1, <1>2 DEF COLUMNS, TABLES
<1>4. CASE Truncate(p) \/ Fill(p)
  <2>1. Goes(p, "truncate", {}) \/ Goes(p, "fill", {})
      BY <1>0, <1>4, FileSteps
  <2> QED
      BY <2>1, <1>2 DEF COLUMNS, TABLES
<1>5. CASE Open(p)
  <2> DEFINE new == IF "connected_accounts" \in tables THEN COLUMNS \ columns ELSE {}
  <2>1. Goes(p, "open", new) /\ UNCHANGED <<tables, columns>>
      BY <1>0, <1>5, SchemaSteps DEF Open
  <2>2. "inspect" \notin new /\ "refresh" \notin new /\ "open" \notin TABLES
      BY DEF COLUMNS, TABLES
  <2>3. Opened(p)'
      BY <2>1 DEF Opened, Goes, Ahead
  <2>4. Inspected(p)'
      BY <2>1, <2>2 DEF Ready, Inspected, Goes, Ahead
  <2>5. Served(p)'
      BY <2>1 DEF Ready, Served, Goes
  <2> QED
      BY <2>3, <2>4, <2>5 DEF Ready
<1>6. ASSUME NEW c \in COLUMNS, Alter(p, c) PROVE Ready(p)'
  <2>1. c \in columns' /\ c \notin TABLES
      BY <1>6 DEF Alter, COLUMNS, TABLES
  <2>2. Ends(p) \/ Goes(p, c, {})
      BY <1>0, <1>6, SchemaSteps
  <2> QED
      BY <1>1, <1>2, <2>1, <2>2
<1>7. CASE Inspect(p)
  <2>1. Goes(p, "inspect", TABLES \ tables) /\ UNCHANGED <<tables, columns>>
      BY <1>0, <1>7, SchemaSteps DEF Inspect, home
  <2>2. TABLES \cap {"open", "key", "insert", "refresh"} = {} /\ "inspect" \notin COLUMNS
      BY DEF TABLES, COLUMNS
  <2>3. Opened(p)'
      BY <2>1, <2>2 DEF Ready, Opened, Goes, Ahead
  <2>4. Inspected(p)'
      BY <2>1 DEF Inspected, Goes, Ahead
  <2>5. Served(p)'
      BY <2>1 DEF Ready, Served, Goes
  <2> QED
      BY <2>3, <2>4, <2>5 DEF Ready
<1>8. CASE Provision(p)
  <2>1. Goes(p, "provision", {"exact_cache"} \ tables)
      BY <1>0, <1>8, SchemaSteps
  <2>2. ({"exact_cache"} \ tables) \cap Look5 = {}
      OBVIOUS
  <2>3. "provision" \in Mine /\ "provision" \notin COLUMNS \cup TABLES
      BY DEF COLUMNS, TABLES
  <2> HIDE DEF Look5, Mine
  <2> QED
      BY <2>1, <2>2, <2>3, <1>2
<1>9. ASSUME NEW t \in TABLES, Create(p, t) PROVE Ready(p)'
  <2>1. t \in tables' /\ t \notin COLUMNS
      BY <1>9 DEF Create, COLUMNS, TABLES
  <2>2. Ends(p) \/ Goes(p, t, {})
      BY <1>0, <1>9, SchemaSteps
  <2> QED
      BY <1>1, <1>2, <2>1, <2>2
<1>10. CASE Boot(p)
  <2>1. /\ Ahead(p, "open")' /\ Ahead(p, "inspect")'
        /\ op'[p].up = op[p].up /\ UNCHANGED <<tables, columns>>
    <3>1. {"open", "inspect"} \subseteq Of(op'[p].todo) /\ op'[p].up = op[p].up
        BY <1>0, <1>10, BootSteps
    <3> QED
        BY <1>10, <3>1 DEF Boot, home, Ahead
  <2> QED
      BY <2>1 DEF Ready, Opened, Inspected, Served
<1>11. CASE Refresh(p)
  <2>1. CASE /\ Turns(p, <<>>, TRUE, op[p].key)
             /\ Of(op[p].todo) = {"refresh"}
             /\ Accounts /\ "model_registry" \in tables
    <3>1. UNCHANGED <<tables, columns>>
        BY <1>11 DEF Refresh, home
    <3>2. tables = TABLES /\ columns = COLUMNS
      <4>1. \A t \in TABLES : t \in tables
          BY <2>1 DEF Ready, Inspected, Ahead, TABLES
      <4> QED
          BY <2>1, <4>1, <1>0 DEF Accounts, TypeOK
    <3>3. Of(op'[p].todo) = {}
        BY <2>1, OfFew DEF Turns
    <3> QED
        BY <3>1, <3>2, <3>3 DEF Ready, Opened, Inspected, Served, Ahead
  <2> QED
      BY <1>0, <1>1, <1>11, <2>1, BootSteps
<1>12. /\ Of(<<"key", "insert">>) = {"key", "insert"}
       /\ Of(<<"erase", "write", "insert">>) = {"erase", "write", "insert"}
       /\ Of(<<"write", "insert">>) = {"write", "insert"} /\ Of(<<"insert">>) = {"insert"}
    BY OfFew
<1>13. ASSUME Of(op[p].todo) \in {{"key", "insert"}, {"erase", "write", "insert"}, {"write", "insert"}},
              Of(op'[p].todo) \in {{"erase", "write", "insert"}, {"write", "insert"}, {"insert"}},
              op'[p].up = op[p].up, UNCHANGED <<tables, columns>>
       PROVE  Ready(p)'
  <2>1. \A x \in COLUMNS \cup TABLES \cup {"open", "inspect", "refresh"} :
          x \notin {"key", "insert", "erase", "write"}
      BY DEF COLUMNS, TABLES
  <2>2. /\ ~Ahead(p, "open") /\ (Ahead(p, "key") \/ Ahead(p, "insert"))
        /\ ~Ahead(p, "refresh")'
        /\ \A c \in COLUMNS : ~Ahead(p, c)
      BY <1>13, <2>1 DEF Ahead
  <2>3. Opened(p)'
      BY <1>13, <2>2 DEF Ready, Opened
  <2> QED
      BY <1>13, <2>2, <2>3 DEF Ready, Inspected, Served
<1>14. CASE Generate(p) \/ Load(p) \/ Erase(p) \/ Write(p)
  <2>1. UNCHANGED <<tables, columns>>
      BY <1>14 DEF Generate, Load, Erase, Write, home
  <2> QED
      BY <1>0, <1>1, <1>12, <1>13, <1>14, <2>1, KeySteps DEF Turns
<1>15. CASE Insert(p)
    BY <1>0, <1>1, <1>15, KeySteps
<1>16. CASE Accepted(p) \/ Refused(p)
  <2>1. Goes(p, "provider", {}) \/ Ends(p)
      BY <1>0, <1>16, ProviderSteps
  <2>2. "provider" \in Mine /\ "provider" \notin COLUMNS \cup TABLES /\ {} \cap Look5 = {}
      BY DEF COLUMNS, TABLES
  <2> HIDE DEF Look5, Mine
  <2> QED
      BY <2>1, <2>2, <1>1, <1>2
<1> QED
    BY <1>3, <1>4, <1>5, <1>6, <1>7, <1>8, <1>9, <1>10, <1>11, <1>14, <1>15, <1>16
    DEF Work

LEMMA UserReady ==
  ASSUME Typed, Typed', Grows, NEW p \in Procs, Ready(p),
         \/ \E cmd \in Commands : Start(p, cmd)
         \/ \E cmd \in ShellCommands : Enter(p, cmd)
         \/ Quit(p) \/ Crash(p)
  PROVE  Ready(p)'
<1>0. TypeOK /\ Shapes
    BY DEF Typed
<1>1. UNCHANGED <<tables, columns>>
    BY DEF Start, Enter, Quit, Crash, home
<1>2. ASSUME NEW cmd \in Commands, Start(p, cmd) PROVE Ready(p)'
  <2>1. Turns(p, Program(cmd), op[p].up, op[p].key)
      BY <1>0, <1>2, UserSteps
  <2>2. LET R == Of(Program(cmd))
        IN  \/ "open" \in R /\ "refresh" \notin R
            \/ R \cap {"key", "insert", "refresh"} = {}
      BY Programs
  <2>3. op'[p].todo = Program(cmd) /\ op'[p].up = op[p].up
      BY <2>1 DEF Turns
  <2> QED
      BY <1>1, <2>2, <2>3 DEF Ready, Opened, Inspected, Served, Ahead
<1>3. ASSUME NEW cmd \in ShellCommands, Enter(p, cmd) PROVE Ready(p)'
  <2>1. Turns(p, ShellProgram(cmd), op[p].up, op[p].key)
      BY <1>0, <1>3, UserSteps
  <2>2. op[p].up /\ columns = COLUMNS /\ tables = TABLES
      BY <1>3 DEF Enter, Ready, Served
  <2> QED
      BY <1>1, <2>1, <2>2 DEF Turns, Ready, Opened, Inspected, Served
<1>4. CASE Quit(p) \/ Crash(p)
    BY <1>0, <1>4, UserSteps, OfFew, ReadyEnds DEF Turns
<1> QED
    BY <1>2, <1>3, <1>4

LEMMA ReadyStep == Typed /\ SchemaSafe /\ [Next]_vars => SchemaSafe'
<1> SUFFICES ASSUME Typed, SchemaSafe, [Next]_vars, NEW q \in Procs PROVE Ready(q)'
    BY DEF SchemaSafe
<1>1. Typed' /\ Grows /\ Ready(q)
    BY TypedStep, NextGrows DEF SchemaSafe
<1>2. CASE op'[q] = op[q]
    BY <1>1, <1>2, ReadyStays
<1>3. ASSUME NEW p \in Procs, Work(p) PROVE Ready(q)'
  <2>1. p = q \/ op'[q] = op[q]
      BY <1>3, WorkMoves DEF Moves
  <2> QED
      BY <1>1, <1>2, <1>3, <2>1, WorkReady
<1>4. ASSUME NEW p \in Procs,
             \/ \E cmd \in Commands : Start(p, cmd)
             \/ \E cmd \in ShellCommands : Enter(p, cmd)
             \/ Quit(p) \/ Crash(p)
      PROVE  Ready(q)'
  <2>1. p = q \/ op'[q] = op[q]
      BY <1>4, UserMoves DEF Moves
  <2> QED
      BY <1>1, <1>2, <1>4, <2>1, UserReady
<1>5. CASE UNCHANGED vars \/ Edit
    BY <1>2, <1>5 DEF vars, Edit
<1> QED
    BY <1>3, <1>4, <1>5 DEF Next

LEMMA ReadyInit == Init => SchemaSafe
BY OfFew DEF Init, SchemaSafe, Ready, Opened, Inspected, Served, Ahead, Gone

(* A process that uses the database has the schema it was written for. *)
THEOREM SchemaIsReady == Spec => []SchemaReady
<1>1. Init => Typed /\ SchemaSafe
    BY TypedInit, ReadyInit
<1>2. (Typed /\ SchemaSafe) /\ [Next]_vars => (Typed /\ SchemaSafe)'
    BY TypedStep, ReadyStep
<1>3. Typed /\ SchemaSafe => SchemaReady
  <2> SUFFICES ASSUME Typed, SchemaSafe, NEW p \in Procs
               PROVE  /\ op[p].up => tables = TABLES
                      /\ op[p].up \/ At(p, "key") \/ At(p, "insert") \/ At(p, "refresh") =>
                           ("connected_accounts" \in tables => columns = COLUMNS)
      BY DEF SchemaReady
  <2>1. Opened(p) /\ Served(p) /\ columns \subseteq COLUMNS
      BY DEF SchemaSafe, Ready, Typed, TypeOK
  <2>2. ASSUME At(p, "key") \/ At(p, "insert") \/ At(p, "refresh"), "connected_accounts" \in tables
        PROVE  columns = COLUMNS
    <3>1. Of(op[p].todo) \in {{"key", "insert"}, {"insert"}, {"refresh"}}
        BY <2>2, LastSteps DEF Typed
    <3>2. COLUMNS \cap {"key", "insert", "refresh", "open"} = {}
        BY DEF COLUMNS
    <3>3. ~Ahead(p, "open") /\ (Ahead(p, "key") \/ Ahead(p, "insert") \/ Ahead(p, "refresh"))
          /\ \A c \in COLUMNS : ~Ahead(p, c)
        BY <3>1, <3>2 DEF Ahead
    <3> QED
        BY <2>1, <2>2, <3>3 DEF Opened
  <2> QED
      BY <2>1, <2>2 DEF Served
<1> QED
    BY <1>1, <1>2, <1>3, PTL DEF Spec

-----------------------------------------------------------------------------
(* As long as no two processes have raced for the key file: one that writes   *)
(* it is alone with a key, and no token is stored; any other process with a   *)
(* key has that of the file.                                                 *)
Alone(p) ==
  /\ tokens = {} /\ keyfile \notin Keys
  /\ \A q \in Procs \ {p} : ~Generating(q) /\ op[q].key = NoKey
KeySafe ==
  ~raced =>
    /\ \A p \in Procs : Generating(p) => Alone(p)
    /\ \A p \in Procs : op[p].key # NoKey /\ ~Generating(p) => keyfile = op[p].key
    /\ \A k \in tokens : keyfile = k

LEMMA KeyInit == Init => KeySafe
<1> SUFFICES ASSUME Init PROVE KeySafe
    OBVIOUS
<1>1. \A p \in Procs : ~Generating(p) /\ op[p].key = NoKey
    BY OfFew DEF Init, Gone, Generating, Ahead
<1>2. \A k \in tokens : keyfile = k
    BY DEF Init
<1> QED
    BY <1>1, <1>2 DEF KeySafe

(* A step that is not about keys: it ends the command, or goes on with it. *)
LEMMA KeyStays ==
  ASSUME KeySafe, NEW p \in Procs, UNCHANGED <<keyfile, tokens, raced>>,
         \A q \in Procs \ {p} : op'[q] = op[q],
         \/ op'[p].key = NoKey /\ ~Generating(p)'
         \/ op'[p].key = op[p].key /\ (Generating(p)' <=> Generating(p))
  PROVE  KeySafe'
<1>1. \A q \in Procs \ {p} : op'[q].key = op[q].key /\ (Generating(q)' <=> Generating(q))
    BY DEF Generating, Ahead
<1> QED
    BY <1>1 DEF KeySafe, Alone

LEMMA WorkKeys == ASSUME Typed, KeySafe, NEW p \in Procs, Work(p) PROVE KeySafe'
<1>0. TypeOK /\ Shapes /\ HoldsKey(p) /\ NoKey \notin Keys /\ {"absent", "empty"} \cap Keys = {}
    BY KeysAssumption, FilesAssumption DEF Typed, Holding, Keys
<1>1. \A q \in Procs \ {p} : op'[q] = op[q]
    BY WorkMoves DEF Moves
<1>2. \A q \in Procs \ {p} : op'[q].key = op[q].key /\ (Generating(q)' <=> Generating(q))
    BY <1>1 DEF Generating, Ahead
<1>3. ASSUME UNCHANGED <<keyfile, tokens, raced>>, Ends(p) PROVE KeySafe'
  <2>1. op'[p].key = NoKey /\ ~Generating(p)'
      BY <1>3, OfFew DEF Ends, Turns, Generating, Ahead
  <2> QED
      BY <1>1, <1>3, <2>1, KeyStays
<1>4. ASSUME UNCHANGED <<keyfile, tokens, raced>>,
             NEW step, NEW new, Goes(p, step, new), ({step} \cup new) \cap {"erase", "write"} = {}
      PROVE  KeySafe'
  <2>1. op'[p].key = op[p].key /\ (Generating(p)' <=> Generating(p))
      BY <1>4 DEF Goes, Generating, Ahead
  <2> QED
      BY <1>1, <1>4, <2>1, KeyStays
<1>5. CASE Look(p) \/ Truncate(p) \/ Fill(p)
  <2>1. \/ Goes(p, "config", {"truncate", "fill"}) \/ Goes(p, "config", {})
        \/ Goes(p, "truncate", {}) \/ Goes(p, "fill", {})
      BY <1>0, <1>5, FileSteps
  <2>2. UNCHANGED <<keyfile, tokens, raced>>
      BY <1>5 DEF Look, Truncate, Fill, home
  <2> QED
      BY <1>4, <2>1, <2>2
<1>6. CASE Open(p) \/ Inspect(p) \/ Provision(p)
  <2>1. \E new \in SUBSET (COLUMNS \cup TABLES) :
          Goes(p, "open", new) \/ Goes(p, "inspect", new) \/ Goes(p, "provision", new)
    <3>1. /\ (IF "connected_accounts" \in tables THEN COLUMNS \ columns ELSE {})
               \in SUBSET (COLUMNS \cup TABLES)
          /\ TABLES \ tables \in SUBSET (COLUMNS \cup TABLES)
          /\ {"exact_cache"} \ tables \in SUBSET (COLUMNS \cup TABLES)
        BY DEF TABLES
    <3> QED
        BY <1>0, <1>6, <3>1, SchemaSteps
  <2>2. UNCHANGED <<keyfile, tokens, raced>>
      BY <1>6 DEF Open, Inspect, Provision, home
  <2>3. (COLUMNS \cup TABLES) \cap {"erase", "write"} = {}
      BY DEF COLUMNS, TABLES
  <2> QED
      BY <1>4, <2>1, <2>2, <2>3
<1>7. CASE (\E c \in COLUMNS : Alter(p, c)) \/ (\E t \in TABLES : Create(p, t))
  <2>1. Ends(p) \/ \E x \in COLUMNS \cup TABLES : Goes(p, x, {})
      BY <1>0, <1>7, SchemaSteps
  <2>2. UNCHANGED <<keyfile, tokens, raced>>
      BY <1>7 DEF Alter, Create
  <2>3. (COLUMNS \cup TABLES) \cap {"erase", "write"} = {}
      BY DEF COLUMNS, TABLES
  <2> QED
      BY <1>3, <1>4, <2>1, <2>2, <2>3
<1>8. CASE Boot(p)
  <2>1. UNCHANGED <<keyfile, tokens, raced>>
      BY <1>8 DEF Boot, home
  <2>2. op'[p].key = op[p].key /\ Of(op'[p].todo) \ {"config"} = {"open", "inspect", "refresh"}
      BY <1>0, <1>8, BootSteps
  <2>3. Of(op[p].todo) = {"boot"}
      BY <1>8, LastSteps DEF Boot, Typed
  <2>4. ~Generating(p) /\ ~Generating(p)'
      BY <2>2, <2>3 DEF Generating, Ahead
  <2> QED
      BY <1>1, <2>1, <2>2, <2>4, KeyStays
<1>9. CASE Refresh(p)
  <2>1. UNCHANGED <<keyfile, tokens, raced>>
      BY <1>9 DEF Refresh, home
  <2>2. CASE Turns(p, <<>>, TRUE, op[p].key) /\ Of(op[p].todo) = {"refresh"}
    <3>1. op'[p].key = op[p].key /\ ~Generating(p) /\ ~Generating(p)'
        BY <2>2, OfFew DEF Turns, Generating, Ahead
    <3> QED
        BY <1>1, <2>1, <3>1, KeyStays
  <2> QED
      BY <1>0, <1>3, <1>9, <2>1, <2>2, BootSteps
<1>10. /\ Of(<<"key", "insert">>) = {"key", "insert"}
       /\ Of(<<"erase", "write", "insert">>) = {"erase", "write", "insert"}
       /\ Of(<<"write", "insert">>) = {"write", "insert"} /\ Of(<<"insert">>) = {"insert"}
    BY OfFew
<1>11. CASE Generate(p)
  <2> SUFFICES ASSUME ~raced' PROVE KeySafe'
      BY DEF KeySafe
  <2>1. ~raced /\ (\A q \in Procs : ~Generating(q)) /\ keyfile = "absent" /\ UNCHANGED <<keyfile, tokens>>
      BY <1>11 DEF Generate, NoKeyFile, home
  <2>2. tokens = {} /\ \A q \in Procs : op[q].key = NoKey
    <3>1. \A q \in Procs : op[q].key \in Keys \cup {NoKey}
        BY <1>0 DEF TypeOK, Op
    <3>2. tokens \subseteq Keys
        BY <1>0 DEF TypeOK
    <3> QED
        BY <1>0, <2>1, <3>1, <3>2 DEF KeySafe
  <2>3. Generating(p)'
      BY <1>0, <1>10, <1>11, KeySteps DEF Turns, Generating, Ahead
  <2>4. Alone(p)'
      BY <1>0, <1>2, <2>1, <2>2 DEF Alone
  <2> QED
      BY <1>2, <2>1, <2>2, <2>3, <2>4 DEF KeySafe
<1>12. CASE Load(p)
  <2>1. UNCHANGED <<keyfile, tokens, raced>>
      BY <1>12 DEF Load, home
  <2>2. CASE Turns(p, <<"insert">>, op[p].up, keyfile) /\ keyfile \in Keys
    <3>1. ~Generating(p)' /\ op'[p].key = keyfile
        BY <1>10, <2>2 DEF Turns, Generating, Ahead
    <3>2. ~raced => \A q \in Procs : ~Generating(q)
        BY <2>2 DEF KeySafe, Alone
    <3> QED
        BY <1>2, <2>1, <3>1, <3>2 DEF KeySafe
  <2> QED
      BY <1>0, <1>3, <1>12, <2>1, <2>2, KeySteps
<1>13. CASE Erase(p)
  <2>1. keyfile' = "empty" /\ UNCHANGED <<tokens, raced>>
      BY <1>13 DEF Erase
  <2>2. Generating(p) /\ Generating(p)'
      BY <1>0, <1>10, <1>13, KeySteps DEF Turns, Generating, Ahead
  <2> QED
      BY <1>0, <1>2, <2>1, <2>2 DEF KeySafe, Alone
<1>14. CASE Write(p)
  <2>1. keyfile' = op[p].key /\ UNCHANGED <<tokens, raced>>
      BY <1>14 DEF Write
  <2>2. Generating(p) /\ ~Generating(p)' /\ op'[p].key = op[p].key
      BY <1>0, <1>10, <1>14, KeySteps DEF Turns, Generating, Ahead
  <2> QED
      BY <1>0, <1>2, <2>1, <2>2 DEF KeySafe, Alone
<1>15. CASE Insert(p)
  <2>1. keyfile' = keyfile /\ raced' = raced /\ tokens' \subseteq tokens \cup {op[p].key}
      BY <1>15 DEF Insert
  <2>2. Of(op[p].todo) = {"insert"} /\ Ends(p)
      BY <1>0, <1>10, <1>15, KeySteps
  <2>3. ~Generating(p) /\ op[p].key \in Keys /\ op'[p].key = NoKey /\ ~Generating(p)'
      BY <1>0, <2>2, OfFew DEF Ends, Turns, HoldsKey, Generating, Ahead
  <2>4. ~raced => keyfile = op[p].key /\ \A q \in Procs : ~Generating(q)
      BY <1>0, <2>3 DEF KeySafe, Alone
  <2> QED
      BY <1>2, <2>1, <2>3, <2>4 DEF KeySafe
<1>16. CASE Accepted(p) \/ Refused(p)
  <2>1. Goes(p, "provider", {}) \/ Ends(p)
      BY <1>0, <1>16, ProviderSteps
  <2>2. UNCHANGED <<keyfile, tokens, raced>>
      BY <1>16 DEF Accepted, Refused, home
  <2> QED
      BY <1>3, <1>4, <2>1, <2>2
<1> QED
    BY <1>5, <1>6, <1>7, <1>8, <1>9, <1>11, <1>12, <1>13, <1>14, <1>15, <1>16 DEF Work

LEMMA UserKeys ==
  ASSUME Typed, KeySafe, NEW p \in Procs,
         \/ \E cmd \in Commands : Start(p, cmd)
         \/ \E cmd \in ShellCommands : Enter(p, cmd)
         \/ Quit(p) \/ Crash(p)
  PROVE  KeySafe'
<1>0. TypeOK /\ Shapes
    BY DEF Typed
<1>1. /\ UNCHANGED <<keyfile, tokens, raced>>
      /\ \A q \in Procs \ {p} : op'[q] = op[q]
    BY UserMoves DEF Moves, Start, Enter, Quit, Crash, home
<1>2. Idle(p) => ~Generating(p)
    BY OfFew DEF Idle, Generating, Ahead
<1>3. ASSUME NEW cmd \in Commands, Start(p, cmd) PROVE KeySafe'
  <2>1. {"erase", "write"} \cap Of(Program(cmd)) = {}
      BY Programs
  <2>2. op'[p].key = op[p].key /\ ~Generating(p)' /\ ~Generating(p)
      BY <1>0, <1>2, <1>3, <2>1, UserSteps DEF Turns, Start, Generating, Ahead
  <2> QED
      BY <1>1, <2>2, KeyStays
<1>4. ASSUME NEW cmd \in ShellCommands, Enter(p, cmd) PROVE KeySafe'
  <2>1. {"erase", "write"} \cap Of(ShellProgram(cmd)) = {}
      BY Programs
  <2>2. op'[p].key = op[p].key /\ ~Generating(p)' /\ ~Generating(p)
      BY <1>0, <1>2, <1>4, <2>1, UserSteps DEF Turns, Enter, Generating, Ahead
  <2> QED
      BY <1>1, <2>2, KeyStays
<1>5. CASE Quit(p) \/ Crash(p)
  <2>1. op'[p].key = NoKey /\ ~Generating(p)'
      BY <1>0, <1>5, UserSteps, OfFew DEF Turns, Generating, Ahead
  <2> QED
      BY <1>1, <2>1, KeyStays
<1> QED
    BY <1>3, <1>4, <1>5

LEMMA KeyStep == Typed /\ KeySafe /\ [Next]_vars => KeySafe'
<1> SUFFICES ASSUME Typed, KeySafe, [Next]_vars PROVE KeySafe'
    OBVIOUS
<1>1. CASE UNCHANGED vars \/ Edit
    BY <1>1 DEF vars, Edit, KeySafe, Alone, Generating, Ahead
<1> QED
    BY <1>1, WorkKeys, UserKeys DEF Next

(* Every stored token can be read with the key that the file holds. *)
THEOREM TokensAreReadable == Spec => []TokensReadable
<1>1. Init => Typed /\ KeySafe
    BY TypedInit, KeyInit
<1>2. (Typed /\ KeySafe) /\ [Next]_vars => (Typed /\ KeySafe)'
    BY TypedStep, KeyStep
<1>3. Typed /\ KeySafe => TokensReadable
    BY DEF KeySafe, TokensReadable
<1> QED
    BY <1>1, <1>2, <1>3, PTL DEF Spec
=============================================================================
