--------------------------------- MODULE Shell ---------------------------------
(***************************************************************************)
(* The TUI session: cli/tui/app.py, dispatcher.py, widgets.py. One process, *)
(* one handler at a time, and one SQLAlchemy session for as long as the app *)
(* runs. The interactive account lists hold account objects of that session *)
(* while other processes connect, sync and disconnect accounts, and its     *)
(* routes look up and store answers in the cache those processes use.       *)
(*                                                                          *)
(* An object the session has loaded is not read again until a commit        *)
(* expires it; then its next use reads its row, and raises if that is gone. *)
(* An object the session has deleted keeps what it had loaded. Objects that *)
(* no list holds are forgotten. A commit whose flush fails leaves a session *)
(* that refuses every query: only a benchmark run issues a rollback.        *)
(*                                                                          *)
(* Which models an account has, what a route answers, and how a benchmark   *)
(* run fails, are subjects of ModelRegistry, Router and Benchmark.          *)
(***************************************************************************)
EXTENDS Integers, FiniteSets

CONSTANTS
  Ids,        \* account ids; a uuid is used once
  Lists,      \* bound: the interactive lists that are open at once
  Questions,  \* cache keys
  None

ASSUME IdsAssumption == IsFiniteSet(Ids) /\ None \notin Ids
ASSUME QuestionsAssumption == None \notin Questions

VARIABLES
  account,  \* account[a]: its status in the table, or why it has no row
  loaded,   \* loaded[a]: what the session's object of it holds
  shown,    \* shown[w]: the accounts that list w shows; none if it is closed
  at,       \* the handler that is running
  posted,   \* Disconnected messages to be handled
  bar,      \* accounts the status bar counts
  changed,  \* accounts others have invalidated since the session's last commit
  cached,   \* the questions whose answers are in the exact_cache table
  raced     \* whether others have stored or cleared the answer of the running
            \* route since it looked: none, or its question

answers == <<cached, raced>>
vars == <<account, loaded, shown, at, posted, bar, changed, cached, raced>>

Status == {"active", "invalid"}
(* dropped: by this shell. taken: by another process.                       *)
Account == Status \cup {"new", "dropped", "taken"}
Loaded == Status \cup {"none", "expired", "deleted"}
Connected == {a \in Ids : account[a] \in Status}

(* A sync or a connect knows its account, its status as read, and which     *)
(* accounts there were: their models may be the ones it refreshes. A route  *)
(* knows its question and whether it has found an answer.                   *)
Handler == [do : {"wait", "status", "sync", "connect", "route", "ended", "crashed"},
            id : Ids \cup {None}, was : Status, seen : SUBSET Ids,
            key : Questions \cup {None}, found : BOOLEAN]
On(what) == [do |-> what, id |-> None, was |-> "active", seen |-> {},
             key |-> None, found |-> FALSE]
OnAccount(what, a, was) ==
  [On(what) EXCEPT !.id = a, !.was = was, !.seen = Connected \cup {a}]
Waiting == On("wait")

Shown == UNION {shown[w] : w \in Lists}

-----------------------------------------------------------------------------
(* The session *)

(* What a query sees of a: an object that has not expired stays as it is.   *)
Sees(a) == IF loaded[a] \in Status THEN loaded[a] ELSE account[a]
(* A query for all accounts reads the expired ones that have a row. *)
Reloaded(objects, rows) ==
  [a \in Ids |-> IF objects[a] = "expired" /\ rows[a] \in Status THEN rows[a] ELSE objects[a]]
(* Mutant: expire_on_commit=False. *)
KeepLoaded(objects) == objects
Expired(objects) ==
  [a \in Ids |-> IF objects[a] \in Status THEN "expired" ELSE objects[a]]
(* A query for some of them. *)
Queried(S) == [a \in Ids |-> IF a \in S THEN Reloaded(loaded, account)[a] ELSE loaded[a]]
Commit(objects) ==
  /\ loaded' = Expired(objects)
  /\ changed' = {}
Held(objects, lists) ==
  [a \in Ids |-> IF \E w \in Lists : a \in lists[w] THEN objects[a] ELSE "none"]

(* _resolve_account by id: the session's object unless it has expired, or   *)
(* the row.                                                                 *)
Resolves(a) == loaded[a] \in Status \/ a \in Connected
(* Reading an attribute of an object that has expired raises if its row is gone.  *)
Raises(a) == loaded[a] = "expired" /\ a \notin Connected
Crash == at' = On("crashed")

Idle == at = Waiting
Done == at' = On("status")

-----------------------------------------------------------------------------
(* Commands *)

AccountsList ==
  /\ Idle
  /\ \/ /\ Connected = {}
        /\ UNCHANGED <<loaded, shown>>
     \/ \E w \in Lists :
          /\ shown[w] = {} /\ Connected # {}
          /\ shown' = [shown EXCEPT ![w] = Connected]
          /\ loaded' = [a \in Ids |-> IF a \in Connected THEN Sees(a) ELSE loaded[a]]
  /\ Done
  /\ UNCHANGED <<account, posted, bar, changed, answers>>

NotFound(a) ==
  /\ Idle /\ ~ Resolves(a)
  /\ loaded' = Reloaded(loaded, account)
  /\ Done
  /\ UNCHANGED <<account, shown, posted, bar, changed, answers>>

(* Mutant: a DELETE by query, of which the session's object knows nothing. *)
BulkDisconnect(a) ==
  /\ Idle /\ Resolves(a)
  /\ account' = [account EXCEPT ![a] = IF @ \in Status THEN "dropped" ELSE @]
  /\ loaded' = Reloaded(Expired(loaded), account')
  /\ changed' = {}
  /\ Done
  /\ UNCHANGED <<shown, posted, bar, answers>>
AccountsDisconnect(a) ==
  /\ Idle /\ Resolves(a)
  /\ account' = [account EXCEPT ![a] = IF @ \in Status THEN "dropped" ELSE @]
  /\ loaded' = Reloaded(Expired([loaded EXCEPT ![a] = IF a \in Shown THEN "deleted" ELSE "none"]), account')
  /\ changed' = {}
  /\ Done
  /\ UNCHANGED <<shown, posted, bar, answers>>

(* The account, then a network call.                                        *)
SyncStart(a) ==
  /\ Idle /\ Resolves(a)
  /\ loaded' = IF a \in Shown THEN [loaded EXCEPT ![a] = Sees(a)] ELSE loaded
  /\ at' = OnAccount("sync", a, Sees(a))
  /\ UNCHANGED <<account, shown, posted, bar, changed, answers>>

SyncUnreachable ==
  /\ at.do = "sync"
  /\ Done
  /\ UNCHANGED <<account, loaded, shown, posted, bar, changed, answers>>

(* The UPDATE needs its row; there is none if the status stays as it was.   *)
SyncInvalid ==
  /\ at.do = "sync"
  /\ IF at.id \in Connected \/ at.was = "invalid"
     THEN /\ account' = [account EXCEPT ![at.id] = IF @ \in Status THEN "invalid" ELSE @]
          /\ loaded' = [Expired(loaded) EXCEPT ![at.id] =
                          IF at.id \in Connected \cap Shown THEN "invalid" ELSE @]
          /\ changed' = {}
          /\ Done
     ELSE Crash /\ UNCHANGED <<account, loaded, changed>>
  /\ UNCHANGED <<shown, posted, bar, answers>>

(* Rows the session has read are updated: the models' and the account's.    *)
Gone == at.seen \ Connected
SyncDone ==
  /\ at.do = "sync" /\ at.id \in Connected
  /\ loaded' = Reloaded(Expired(loaded), account)
  /\ changed' = {}
  /\ Done
  /\ UNCHANGED <<account, shown, posted, bar, answers>>

Connect(a) ==
  /\ Idle /\ account[a] = "new"
  /\ account' = [account EXCEPT ![a] = "active"]
  /\ Commit(loaded)
  /\ at' = OnAccount("connect", a, "active")
  /\ UNCHANGED <<shown, posted, bar, answers>>

(* The account is gone: an error without a status refresh.                  *)
ConnectDone ==
  /\ at.do = "connect"
  /\ loaded' = Reloaded(Expired(loaded), account)
  /\ changed' = {}
  /\ IF at.id \in Connected THEN Done ELSE at' = Waiting
  /\ UNCHANGED <<account, shown, posted, bar, answers>>

(* A commit fails: its session, and so the status refresh, raises.          *)
CommitFails ==
  /\ at.do \in {"sync", "connect"} /\ Gone # {}
  /\ Crash
  /\ UNCHANGED <<account, loaded, shown, posted, bar, changed, answers>>

(* What else commits, and cannot fail in its flush: benchmark commands,     *)
(* `cache clear`, which puts up with entries that are gone, and routes that *)
(* leave nothing but a trace.                                               *)
Work ==
  /\ Idle
  /\ cached' \in SUBSET cached
  /\ Commit(loaded)
  /\ Done
  /\ UNCHANGED <<account, shown, posted, bar, raced>>

(* What only reads, and a connect or a route that is refused.               *)
Look ==
  /\ Idle
  /\ \E S \in SUBSET Ids : loaded' = Queried(S)
  /\ Done
  /\ UNCHANGED <<account, shown, posted, bar, changed, answers>>

(* A route under the default policy looks for the entry of its question:    *)
(* lookup finds one that is fresh, or store looks again once the answer of  *)
(* the provider is there.                                                   *)
Route(k) ==
  /\ Idle
  /\ \E S \in SUBSET Ids : loaded' = Queried(S)
  /\ at' = [On("route") EXCEPT !.key = k, !.found = k \in cached]
  /\ UNCHANGED <<account, shown, posted, bar, changed, answers>>

(* It updates the entry it has found, or inserts one. If the entry is gone, *)
(* or there by now, the command reports the error and the status refresh    *)
(* raises.                                                                  *)
RouteCommit ==
  /\ at.do = "route"
  /\ IF (at.key \in cached) = at.found
     THEN /\ cached' = cached \cup {at.key}
          /\ raced' = {}
          /\ Commit(loaded)
          /\ Done
     ELSE Crash /\ UNCHANGED <<loaded, changed, answers>>
  /\ UNCHANGED <<account, shown, posted, bar>>

(* The command and the key do the same.                                     *)
Clear ==
  /\ Idle
  /\ shown' = [w \in Lists |-> {}]
  /\ loaded' = Held(loaded, shown')
  /\ UNCHANGED <<account, at, posted, bar, changed, answers>>

Quit ==
  /\ Idle
  /\ at' = On("ended")
  /\ UNCHANGED <<account, loaded, shown, posted, bar, changed, answers>>

-----------------------------------------------------------------------------
(* Interactive lists *)

(* Mutant: the row leaves the list, the DELETE waits for the next commit. *)
KillUncommitted(w, a) ==
  /\ Idle /\ a \in shown[w] /\ loaded[a] # "deleted" /\ ~ Raises(a)
  /\ shown' = [shown EXCEPT ![w] = @ \ {a}]
  /\ loaded' = Held([loaded EXCEPT ![a] = "deleted"], shown')
  /\ posted' = posted + 1
  /\ UNCHANGED <<account, at, bar, changed, answers>>
(* Kill Account on a row. *)
Kill(w, a) ==
  /\ Idle /\ a \in shown[w] /\ loaded[a] # "deleted" /\ ~ Raises(a)
  /\ account' = [account EXCEPT ![a] = IF @ \in Status THEN "dropped" ELSE @]
  /\ shown' = [shown EXCEPT ![w] = @ \ {a}]
  /\ Commit(Held([loaded EXCEPT ![a] = "deleted"], shown'))
  /\ posted' = posted + 1
  /\ UNCHANGED <<at, bar, answers>>

(* This session has deleted it already: "not found", and the row stays.     *)
KillRefused(w, a) ==
  /\ Idle /\ a \in shown[w] /\ loaded[a] = "deleted"
  /\ loaded' = Reloaded(loaded, account)
  /\ UNCHANGED <<account, shown, at, posted, bar, changed, answers>>

ViewId(w, a) ==
  /\ Idle /\ a \in shown[w] /\ ~ Raises(a)
  /\ loaded' = [loaded EXCEPT ![a] = IF @ = "expired" THEN account[a] ELSE @]
  /\ UNCHANGED <<account, shown, at, posted, bar, changed, answers>>

(* Both read the account outside any try. *)
RowRaises(w, a) ==
  /\ Idle /\ a \in shown[w] /\ Raises(a)
  /\ Crash
  /\ UNCHANGED <<account, loaded, shown, posted, bar, changed, answers>>

Close(w) ==
  /\ Idle /\ shown[w] # {}
  /\ shown' = [shown EXCEPT ![w] = {}]
  /\ loaded' = Held(loaded, shown')
  /\ UNCHANGED <<account, at, posted, bar, changed, answers>>

(* Mutant: the message is handled twice. *)
DisconnectedTwice ==
  /\ Idle /\ posted > 0
  /\ posted' = posted - 2
  /\ Done
  /\ UNCHANGED <<account, loaded, shown, bar, changed, answers>>
Disconnected ==
  /\ Idle /\ posted > 0
  /\ posted' = posted - 1
  /\ Done
  /\ UNCHANGED <<account, loaded, shown, bar, changed, answers>>

(* _update_status *)
UpdateStatus ==
  /\ at.do = "status"
  /\ bar' = Cardinality({a \in Connected : Sees(a) = "active"})
  /\ loaded' = Reloaded(loaded, account)
  /\ at' = Waiting
  /\ UNCHANGED <<account, shown, posted, changed, answers>>

-----------------------------------------------------------------------------
(* Other processes *)

OtherConnects(a) ==
  /\ account[a] = "new"
  /\ account' = [account EXCEPT ![a] = "active"]
  /\ UNCHANGED <<loaded, shown, at, posted, bar, changed, answers>>

OtherDisconnects(a) ==
  /\ a \in Connected
  /\ account' = [account EXCEPT ![a] = "taken"]
  /\ UNCHANGED <<loaded, shown, at, posted, bar, changed, answers>>

OtherInvalidates(a) ==
  /\ account[a] = "active"
  /\ account' = [account EXCEPT ![a] = "invalid"]
  /\ changed' = changed \cup {a}
  /\ UNCHANGED <<loaded, shown, at, posted, bar, answers>>

(* A route of theirs stores its answer to k. *)
OtherStores(k) ==
  /\ k \notin cached
  /\ cached' = cached \cup {k}
  /\ raced' = raced \cup ({k} \cap {at.key})
  /\ UNCHANGED <<account, loaded, shown, at, posted, bar, changed>>

OtherClears(k) ==
  /\ k \in cached
  /\ cached' = cached \ {k}
  /\ raced' = raced \cup ({k} \cap {at.key})
  /\ UNCHANGED <<account, loaded, shown, at, posted, bar, changed>>

-----------------------------------------------------------------------------
(* The app starts with the accounts there are, and refreshes its status.    *)
Init ==
  /\ account \in [Ids -> Status \cup {"new"}]
  /\ loaded = [a \in Ids |-> "none"]
  /\ shown = [w \in Lists |-> {}]
  /\ at = On("status")
  /\ posted = 0 /\ bar = 0
  /\ changed = {}
  /\ cached \in SUBSET Questions /\ raced = {}

Next ==
  \/ AccountsList \/ Work \/ Look \/ Clear \/ Quit \/ RouteCommit
  \/ SyncUnreachable \/ SyncInvalid \/ SyncDone \/ ConnectDone \/ CommitFails
  \/ Disconnected \/ UpdateStatus
  \/ \E a \in Ids : NotFound(a) \/ AccountsDisconnect(a) \/ SyncStart(a) \/ Connect(a)
  \/ \E w \in Lists, a \in Ids : Kill(w, a) \/ KillRefused(w, a) \/ ViewId(w, a) \/ RowRaises(w, a)
  \/ \E w \in Lists : Close(w)
  \/ \E a \in Ids : OtherConnects(a) \/ OtherDisconnects(a) \/ OtherInvalidates(a)
  \/ \E k \in Questions : Route(k) \/ OtherStores(k) \/ OtherClears(k)

Spec == Init /\ [][Next]_vars

-----------------------------------------------------------------------------
TypeOK ==
  /\ account \in [Ids -> Account] /\ loaded \in [Ids -> Loaded]
  /\ shown \in [Lists -> SUBSET Ids]
  /\ at \in Handler
  /\ posted \in Nat /\ bar \in Nat
  /\ changed \subseteq Ids
  /\ cached \subseteq Questions /\ raced \subseteq Questions

(* "Derived stats (refreshed after each mutating command)": what the session *)
(* holds of an account may lag behind its row, however long a list stays     *)
(* open, but only if another process has invalidated the account since the   *)
(* last commit of this session.                                              *)
LagsOnlyBehindOthers ==
  \A a \in Connected : loaded[a] \in Status /\ loaded[a] # account[a] => a \in changed

(* So a refresh of the status bar counts the active accounts exactly, unless *)
(* that has happened to one of them.                                         *)
Active == {a \in Ids : account[a] = "active"}
BarCounts ==
  [][at.do = "status" /\ at' = Waiting /\ changed = {} => bar' = Cardinality(Active)]_vars

(* The app ends otherwise than by quit only if another process has           *)
(* disconnected an account that this one shows, or had read for the command  *)
(* it was running, or has stored or cleared the very answer that the route   *)
(* it was running looked for. What the shell itself has disconnected or      *)
(* cleared never ends it, in whichever list, or by which command, it is used *)
(* again.                                                                    *)
EndsByOthers ==
  [][at.do # "crashed" /\ at' = On("crashed") =>
       \/ \E a \in Shown \cup at.seen : account[a] = "taken"
       \/ at.do = "route" /\ at.key \in raced]_vars

(* Kill Account leaves the account disconnected, however far the list is out *)
(* of date, unless the app ends: a row of it that is still there cannot have *)
(* been deleted in the eyes of the session.                                  *)
KillKills ==
  [][\A w \in Lists, a \in Ids : Kill(w, a) \/ KillRefused(w, a) => account'[a] \notin Status]_vars
=============================================================================
