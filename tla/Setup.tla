--------------------------------- MODULE Setup ---------------------------------
(***************************************************************************)
(* How a home directory comes to be: the configuration, the Fernet key file *)
(* and the schema of the database. services/init_service.py,                *)
(* db/session.py, utils/crypto.py, and the commands that get there first.   *)
(*                                                                          *)
(* Nothing here is a transaction. A file is created empty before it is      *)
(* written, each ALTER and CREATE TABLE is committed by itself, and what to *)
(* write is decided by a look at what there is. Commands of several         *)
(* processes interleave at every step, and a process may be killed at any:  *)
(* an exception ends its command, a crash the process with it.              *)
(*                                                                          *)
(* Covered: crashes between any two steps, a user who edits the             *)
(* configuration, the home of an older release. Not covered: a write that   *)
(* is torn, a full disk, a file that is removed.                            *)
(***************************************************************************)
EXTENDS Integers, Sequences, FiniteSets

CONSTANTS
  Procs,       \* processes; one that was killed may be started again
  OldKey,      \* the key of an older release's home
  NoKey,
  MaxCrashes   \* bound

ASSUME KeysAssumption == OldKey \notin Procs /\ NoKey \notin Procs \cup {OldKey}
ASSUME FilesAssumption == {"absent", "empty"} \cap (Procs \cup {OldKey}) = {}
ASSUME CrashesAssumption == MaxCrashes \in Nat

VARIABLES
  config,   \* config.toml
  keyfile,  \* the key file: the key it holds, or why it holds none
  db,       \* whether the database file exists
  tables,   \* its tables
  columns,  \* the columns later releases have added to connected_accounts
  tokens,   \* the keys that stored tokens are encrypted with
  op,       \* what each process is doing
  crashes,  \* how many there have been
  raced     \* history: a process found no key file while another was writing it

home == <<config, keyfile, db, tables, columns, tokens>>
vars == <<config, keyfile, db, tables, columns, tokens, op, crashes, raced>>

(* The key that a process generates is new; it does so once, as the file     *)
(* exists from then on.                                                      *)
Keys == Procs \cup {OldKey}
COLUMNS == {"source_type", "base_url"}
(* Those of the schema that something below is about. *)
TABLES == {"connected_accounts", "exact_cache", "model_registry"}

(* edited: the user's. risked: the user's as well, but it came to be while   *)
(* an init was about to write the file it had not found.                     *)
Config == {"absent", "empty", "default", "edited", "risked"}
Step == {"config", "truncate", "fill", "open", "inspect", "provision", "boot", "refresh",
         "provider", "key", "erase", "write", "insert"} \cup COLUMNS \cup TABLES

(* todo: the steps that are left of its command. up: it is a shell that     *)
(* waits for commands or carries one out. key: what ensure_key returned.     *)
Op == [todo : Seq(Step), up : BOOLEAN, key : Keys \cup {NoKey}]
Gone == [todo |-> <<>>, up |-> FALSE, key |-> NoKey]

-----------------------------------------------------------------------------
(* Commands *)

create_all_tables == <<"open", "inspect">>
run_init == <<"config", "open", "inspect">>

(* orchestrator init, the same on a terminal, the shell, connect, and route  *)
(* as far as its cache.                                                      *)
Commands == {"init", "init_tty", "shell", "connect", "route"}
Program(cmd) ==
  CASE cmd = "init" -> run_init
    [] cmd = "init_tty" -> run_init \o <<"boot">>
    [] cmd = "shell" -> <<"boot">>
    [] cmd = "connect" -> <<"open", "provider", "key", "insert">>
    [] cmd = "route" -> <<"open", "provision">>

(* In a shell they use the session it has. *)
ShellCommands == {"init", "connect", "route"}
ShellProgram(cmd) ==
  CASE cmd = "init" -> run_init \o <<"refresh">>
    [] cmd = "connect" -> <<"provider", "key", "insert">>
    [] cmd = "route" -> <<"provision">>

Idle(p) == op[p].todo = <<>>
Start(p, cmd) ==
  /\ Idle(p) /\ ~op[p].up
  /\ op' = [op EXCEPT ![p].todo = Program(cmd)]
  /\ UNCHANGED <<home, crashes, raced>>
Enter(p, cmd) ==
  /\ Idle(p) /\ op[p].up
  /\ op' = [op EXCEPT ![p].todo = ShellProgram(cmd)]
  /\ UNCHANGED <<home, crashes, raced>>
Quit(p) ==
  /\ Idle(p) /\ op[p].up
  /\ op' = [op EXCEPT ![p] = Gone]
  /\ UNCHANGED <<home, crashes, raced>>

-----------------------------------------------------------------------------
(* Steps *)

Of(steps) == {steps[i] : i \in 1..Len(steps)}
Ahead(p, step) == step \in Of(op[p].todo)
At(p, step) == op[p].todo # <<>> /\ Head(op[p].todo) = step
Rest(p) == Tail(op[p].todo)
Continue(p, steps) == op' = [op EXCEPT ![p].todo = steps \o Rest(p)]
(* The command is over, or an exception ends it: a shell reports that.       *)
End(p) == op' = [op EXCEPT ![p].todo = <<>>, ![p].key = NoKey]
Unless(present, x) == IF x \in present THEN <<>> ELSE <<x>>

(* Mutant: it is not asked whether there is one.                            *)
LookAway(p) == Continue(p, <<"truncate", "fill">>)
(* run_init: the default configuration, if there is none. *)
LookConfig(p) == Continue(p, IF config = "absent" THEN <<"truncate", "fill">> ELSE <<>>)
Look(p) ==
  /\ At(p, "config")
  /\ LookConfig(p)
  /\ UNCHANGED <<home, crashes, raced>>
Truncate(p) ==
  /\ At(p, "truncate")
  /\ config' = "empty"
  /\ Continue(p, <<>>)
  /\ UNCHANGED <<keyfile, db, tables, columns, tokens, crashes, raced>>
Fill(p) ==
  /\ At(p, "fill")
  /\ config' = "default"
  /\ Continue(p, <<>>)
  /\ UNCHANGED <<keyfile, db, tables, columns, tokens, crashes, raced>>

(* The user's editor saves the configuration.                               *)
Writing(p) == Ahead(p, "truncate") \/ Ahead(p, "fill")
Edit ==
  /\ config # "edited"
  /\ config' = IF \E p \in Procs : Writing(p) THEN "risked" ELSE "edited"
  /\ UNCHANGED <<keyfile, db, tables, columns, tokens, op, crashes, raced>>

(* Mutants: one look for the two columns; none at all.                      *)
AlterBoth(ts, cs) ==
  IF "connected_accounts" \notin ts \/ "source_type" \in cs THEN <<>>
  ELSE <<"source_type", "base_url">>
AlterAlways(ts, cs) ==
  IF "connected_accounts" \notin ts THEN <<>> ELSE <<"source_type", "base_url">>
(* get_engine: SQLite creates the file; _ensure_account_columns looks at the *)
(* table, if there is one, and adds what it has missed.                      *)
_ensure_account_columns(ts, cs) ==
  IF "connected_accounts" \notin ts THEN <<>>
  ELSE Unless(cs, "source_type") \o Unless(cs, "base_url")
Open(p) ==
  /\ At(p, "open")
  /\ db' = TRUE
  /\ Continue(p, _ensure_account_columns(tables, columns))
  /\ UNCHANGED <<config, keyfile, tables, columns, tokens, crashes, raced>>
(* ALTER TABLE raises if the column has come to exist.                      *)
Alter(p, c) ==
  /\ At(p, c)
  /\ IF c \in columns THEN End(p) ELSE Continue(p, <<>>)
  /\ columns' = columns \cup {c}
  /\ UNCHANGED <<config, keyfile, db, tables, tokens, crashes, raced>>

(* Mutant: checkfirst=False.                                                *)
Unchecked(ts) == <<"connected_accounts", "exact_cache", "model_registry">>
(* create_all: which tables are missing is asked before the first is created. *)
create_all(ts) ==
  Unless(ts, "connected_accounts") \o Unless(ts, "exact_cache") \o Unless(ts, "model_registry")
Inspect(p) ==
  /\ At(p, "inspect")
  /\ Continue(p, create_all(tables))
  /\ UNCHANGED <<home, crashes, raced>>
(* ExactCache does the same for its own table, on first use.                *)
Provision(p) ==
  /\ At(p, "provision")
  /\ Continue(p, Unless(tables, "exact_cache"))
  /\ UNCHANGED <<home, crashes, raced>>
(* CREATE TABLE raises if the table has come to exist. A new                *)
(* connected_accounts has every column.                                     *)
Create(p, t) ==
  /\ At(p, t)
  /\ IF t \in tables
     THEN End(p) /\ UNCHANGED columns
     ELSE /\ Continue(p, <<>>)
          /\ columns' = IF t = "connected_accounts" THEN COLUMNS ELSE columns
  /\ tables' = tables \cup {t}
  /\ UNCHANGED <<config, keyfile, db, tokens, crashes, raced>>

(* create_app: run_init if there is no database yet; then the schema, the   *)
(* session and its first queries, without which there is no shell.          *)
Boot(p) ==
  /\ At(p, "boot")
  /\ Continue(p, (IF db THEN <<>> ELSE run_init) \o create_all_tables \o <<"open", "refresh">>)
  /\ UNCHANGED <<home, crashes, raced>>
Accounts == "connected_accounts" \in tables /\ columns = COLUMNS
Refresh(p) ==
  /\ At(p, "refresh")
  /\ IF Accounts /\ "model_registry" \in tables
     THEN op' = [op EXCEPT ![p].todo = Rest(p), ![p].up = TRUE]
     ELSE End(p)
  /\ UNCHANGED <<home, crashes, raced>>

(* connect asks the provider, or the source at base_url, which may reject    *)
(* the user's key or be out of reach.                                        *)
Accepted(p) ==
  /\ At(p, "provider")
  /\ Continue(p, <<>>)
  /\ UNCHANGED <<home, crashes, raced>>
Refused(p) ==
  /\ At(p, "provider")
  /\ End(p)
  /\ UNCHANGED <<home, crashes, raced>>

(* ensure_key *)
Generating(p) == Ahead(p, "erase") \/ Ahead(p, "write")
(* Mutant: it is not asked whether there is one.                            *)
AnyKeyFile == TRUE
NoKeyFile == keyfile = "absent"
Generate(p) ==
  /\ At(p, "key") /\ NoKeyFile
  /\ op' = [op EXCEPT ![p].todo = <<"erase", "write">> \o Rest(p), ![p].key = p]
  /\ raced' = (raced \/ \E o \in Procs : Generating(o))
  /\ UNCHANGED <<home, crashes>>
(* Mutant: whatever the file holds is taken for a key.                      *)
LoadUnchecked(p) ==
  /\ At(p, "key") /\ keyfile # "absent"
  /\ op' = [op EXCEPT ![p].todo = Rest(p), ![p].key = keyfile]
  /\ UNCHANGED <<home, crashes, raced>>
Load(p) ==
  /\ At(p, "key") /\ keyfile # "absent"
  /\ IF keyfile \in Keys
     THEN op' = [op EXCEPT ![p].todo = Rest(p), ![p].key = keyfile]
     ELSE End(p)
  /\ UNCHANGED <<home, crashes, raced>>
Erase(p) ==
  /\ At(p, "erase")
  /\ keyfile' = "empty"
  /\ Continue(p, <<>>)
  /\ UNCHANGED <<config, db, tables, columns, tokens, crashes, raced>>
Write(p) ==
  /\ At(p, "write")
  /\ keyfile' = op[p].key
  /\ Continue(p, <<>>)
  /\ UNCHANGED <<config, db, tables, columns, tokens, crashes, raced>>
(* The account with its encrypted token.                                    *)
Insert(p) ==
  /\ At(p, "insert")
  /\ tokens' = IF Accounts THEN tokens \cup {op[p].key} ELSE tokens
  /\ End(p)
  /\ UNCHANGED <<config, keyfile, db, tables, columns, crashes, raced>>

Crash(p) ==
  /\ op[p] # Gone /\ crashes < MaxCrashes
  /\ crashes' = crashes + 1
  /\ op' = [op EXCEPT ![p] = Gone]
  /\ UNCHANGED <<home, raced>>

(* A home without anything, or that of an older release, whose schema lacks  *)
(* what has come since.                                                      *)
Init ==
  /\ op = [p \in Procs |-> Gone]
  /\ crashes = 0 /\ raced = FALSE
  /\ columns = {}
  /\ \/ /\ config = "absent" /\ keyfile = "absent"
        /\ db = FALSE /\ tables = {} /\ tokens = {}
     \/ /\ config \in {"default", "edited"} /\ db = TRUE
        /\ tables = {"connected_accounts", "model_registry"}
        /\ \/ keyfile = "absent" /\ tokens = {}
           \/ keyfile = OldKey /\ tokens \in SUBSET {OldKey}

Work(p) ==
  \/ Look(p) \/ Truncate(p) \/ Fill(p)
  \/ Open(p) \/ \E c \in COLUMNS : Alter(p, c)
  \/ Inspect(p) \/ Provision(p) \/ \E t \in TABLES : Create(p, t)
  \/ Boot(p) \/ Refresh(p)
  \/ Accepted(p) \/ Refused(p)
  \/ Generate(p) \/ Load(p) \/ Erase(p) \/ Write(p) \/ Insert(p)

Next ==
  \/ \E p \in Procs :
       \/ \E cmd \in Commands : Start(p, cmd)
       \/ \E cmd \in ShellCommands : Enter(p, cmd)
       \/ Work(p) \/ Quit(p) \/ Crash(p)
  \/ Edit

Spec == Init /\ [][Next]_vars

(* A process that was not killed gets on with its command; nothing makes a   *)
(* user do anything.                                                         *)
FairSpec == Spec /\ \A p \in Procs : WF_vars(Work(p))

-----------------------------------------------------------------------------
TypeOK ==
  /\ config \in Config
  /\ keyfile \in Keys \cup {"absent", "empty"}
  /\ db \in BOOLEAN
  /\ tables \subseteq TABLES
  /\ columns \subseteq COLUMNS
  /\ tokens \subseteq Keys
  /\ op \in [Procs -> Op]
  /\ crashes \in Nat
  /\ raced \in BOOLEAN

(* "Load existing Fernet key or generate and persist a new one": every       *)
(* stored token can be read, unless two processes looked for the key file    *)
(* before either had written it. The crash of one in between makes no such   *)
(* race, and no later command takes the key away.                            *)
TokensReadable == ~raced => \A k \in tokens : keyfile = k

(* "Idempotent and safe": whatever has raced or been killed, a process that  *)
(* has opened the database has every column of the accounts table, if there  *)
(* is one, when it gets to use it; and a shell has every table.              *)
SchemaReady ==
  \A p \in Procs :
    /\ op[p].up => tables = TABLES
    /\ op[p].up \/ At(p, "key") \/ At(p, "insert") \/ At(p, "refresh") =>
         ("connected_accounts" \in tables => columns = COLUMNS)

(* "safe to re-run": no init of any process overwrites a configuration that  *)
(* the user has written, other than one that was about to write its own.     *)
EditsKept == [][config = "edited" => config' = "edited"]_vars

(* Whatever was killed or raced, the home is never beyond a shell: a user    *)
(* who starts one again and again, as long as there is none, gets it, and     *)
(* gets the next one after that.                                             *)
ShellComes ==
  \A p \in Procs :
    ([]<>(Idle(p) /\ ~op[p].up) => []<><<Start(p, "shell")>>_vars) => []<>op[p].up

(* A user who connects again and again, in shells or out of them, gets an    *)
(* account once there is a table for it, unless a process was killed between *)
(* creating the key file and writing it: that leaves a key file without a    *)
(* key, which nothing repairs. This takes a provider that does not refuse    *)
(* for ever: one that is asked again and again accepts again and again.      *)
(* (Tables, tokens and such a key file stay once they are there.)            *)
Keyless == keyfile = "empty" /\ \A p \in Procs : ~Generating(p)
Connects(p) == Start(p, "connect") \/ Enter(p, "connect")
AccountComes ==
  \A p \in Procs :
    /\ []<>Idle(p) => []<><<Connects(p)>>_vars
    /\ []<>At(p, "provider") => []<><<Accepted(p)>>_vars
    /\ []<>("connected_accounts" \in tables)
    => []<>(tokens # {} \/ (Keyless /\ crashes > 0))
=============================================================================
