------------------------------ MODULE ShellProofs ------------------------------
(* Proofs about Shell, for any number of accounts and open lists.            *)
EXTENDS Shell, TLAPS, FiniteSetTheorems

-----------------------------------------------------------------------------
(* What the session holds of an account and how the account left the table  *)
(* fit each other: an account that nobody has connected is unknown, one the  *)
(* shell has dropped is deleted, and the other way round; what a list shows  *)
(* is held.                                                                  *)
Fits ==
  \A a \in Ids :
    /\ account[a] = "new" => loaded[a] = "none"
    /\ account[a] = "dropped" => loaded[a] \in {"none", "deleted"}
    /\ loaded[a] = "deleted" => account[a] \in {"dropped", "taken"}
    /\ a \in Shown => loaded[a] # "none"

(* While a command runs, only others can disconnect what it has seen.        *)
Running == at.do \in {"sync", "connect"}
SeenFits ==
  Running => /\ at.id \in at.seen
             /\ \A a \in at.seen : account[a] \notin {"new", "dropped"}

(* The running route is about a question, and finds the answer as it was     *)
(* when it looked unless others have stored or cleared it.                   *)
RouteFits ==
  at.do = "route" => /\ at.key \in Questions
                     /\ (at.key \in cached) # at.found => at.key \in raced

Inv == TypeOK /\ Fits /\ SeenFits /\ RouteFits /\ LagsOnlyBehindOthers

LEMMA InvInit == Init => Inv
BY DEF Init, Inv, TypeOK, Fits, SeenFits, Running, RouteFits, LagsOnlyBehindOthers, Account, Loaded,
       Handler, On, Status, Shown, Connected

-----------------------------------------------------------------------------
(* What the operations on the session's objects return. *)
LEMMA SessionTypes ==
  ASSUME NEW objects \in [Ids -> Loaded], NEW rows \in [Ids -> Account],
         NEW lists \in [Lists -> SUBSET Ids]
  PROVE  /\ Expired(objects) \in [Ids -> Loaded]
         /\ Reloaded(objects, rows) \in [Ids -> Loaded]
         /\ Held(objects, lists) \in [Ids -> Loaded]
BY DEF Expired, Reloaded, Held, Loaded, Account, Status

LEMMA HandlerTypes ==
  ASSUME NEW what \in {"wait", "status", "ended", "crashed"}
  PROVE  /\ On(what) \in Handler
         /\ On(what).do = what
BY DEF On, Handler, Status

LEMMA AccountHandlers ==
  ASSUME NEW what \in {"sync", "connect"}, NEW a \in Ids, NEW was \in Status
  PROVE  LET h == OnAccount(what, a, was)
         IN h \in Handler /\ h.do = what /\ h.id = a /\ h.seen = Connected \cup {a}
BY DEF OnAccount, On, Handler, Connected

LEMMA RouteHandlers ==
  ASSUME NEW k \in Questions, NEW found \in BOOLEAN
  PROVE  LET h == [On("route") EXCEPT !.key = k, !.found = found]
         IN h \in Handler /\ h.do = "route" /\ h.key = k /\ h.found = found
BY DEF On, Handler, Status

LEMMA RouteTypes ==
  ASSUME NEW k \in Questions, Route(k)
  PROVE  at' \in Handler /\ at'.do = "route" /\ at'.key = k /\ at'.found = (k \in cached)
<1>1. (k \in cached) \in BOOLEAN
  OBVIOUS
<1>2. at' = [On("route") EXCEPT !.key = k, !.found = k \in cached]
  BY DEF Route
<1> QED
  BY <1>1, <1>2, RouteHandlers

(* Commands and rows, one lemma for the steps that leave accounts alone and  *)
(* read or forget objects, *)
Reads ==
  /\ account' = account
  /\ loaded' \in [Ids -> Loaded]
  /\ shown' \in [Lists -> SUBSET Ids]
  /\ \A a \in Ids : \/ loaded'[a] = loaded[a]
                    \/ a \in Connected /\ loaded'[a] = Sees(a)
                    \/ loaded'[a] = "none"
  /\ \A a \in Ids : a \in Shown' => loaded'[a] # "none"
  /\ changed' = changed

LEMMA ReadsKeep ==
  ASSUME Inv, Reads
  PROVE  Fits' /\ LagsOnlyBehindOthers'
BY DEF Inv, TypeOK, Reads, Fits, LagsOnlyBehindOthers, Connected, Sees, Status, Account, Loaded

(* and one for those that commit. *)
Commits ==
  /\ account' \in [Ids -> Account]
  /\ loaded' \in [Ids -> Loaded]
  /\ shown' \in [Lists -> SUBSET Ids]
  /\ changed' = {}
  /\ \A a \in Ids :
       /\ loaded'[a] \in Status => account'[a] = loaded'[a]
       /\ account'[a] = "new" => account[a] = "new" /\ loaded'[a] = loaded[a]
       /\ account'[a] = "dropped" => loaded'[a] \in {"none", "deleted"}
       /\ loaded'[a] = "deleted" => account'[a] \in {"dropped", "taken"}
       /\ a \in Shown' => loaded'[a] # "none"

LEMMA CommitsKeep ==
  ASSUME Inv, Commits
  PROVE  Fits' /\ LagsOnlyBehindOthers'
BY DEF Inv, TypeOK, Commits, Fits, LagsOnlyBehindOthers, Connected, Status, Account, Loaded

-----------------------------------------------------------------------------
(* Which step is of which kind. *)
LEMMA ReadSteps ==
  ASSUME Inv,
         \/ AccountsList \/ Look \/ Clear \/ Quit \/ SyncUnreachable \/ CommitFails
         \/ Disconnected \/ UpdateStatus
         \/ \E a \in Ids : NotFound(a) \/ SyncStart(a)
         \/ \E w \in Lists, a \in Ids : KillRefused(w, a) \/ ViewId(w, a) \/ RowRaises(w, a)
         \/ \E w \in Lists : Close(w)
         \/ (RouteCommit /\ Crash) \/ \E k \in Questions : Route(k) \/ OtherStores(k) \/ OtherClears(k)
  PROVE  Reads
<1> USE DEF Inv, TypeOK, Fits
<1>1. CASE AccountsList
  BY <1>1 DEF AccountsList, Reads, Sees, Loaded, Status, Connected, Shown
<1>2. CASE Quit \/ SyncUnreachable \/ CommitFails \/ Disconnected
           \/ \E w \in Lists, a \in Ids : RowRaises(w, a)
  BY <1>2 DEF Quit, SyncUnreachable, CommitFails, Disconnected, RowRaises, Reads, Shown
<1>3. CASE UpdateStatus \/ (\E a \in Ids : NotFound(a))
           \/ \E w \in Lists, a \in Ids : KillRefused(w, a)
  <2>1. loaded' = Reloaded(loaded, account) /\ shown' = shown
        /\ account' = account /\ changed' = changed
    BY <1>3 DEF UpdateStatus, NotFound, KillRefused
  <2> QED
    BY <2>1, SessionTypes DEF Reads, Reloaded, Sees, Connected, Status, Shown
<1>4. ASSUME NEW a \in Ids, SyncStart(a) PROVE Reads
  BY <1>4 DEF SyncStart, Resolves, Reads, Sees, Connected, Loaded, Status, Shown
<1>5. ASSUME NEW w \in Lists, NEW a \in Ids, ViewId(w, a) PROVE Reads
  BY <1>5 DEF ViewId, Raises, Reads, Sees, Connected, Loaded, Status, Shown
<1>6. CASE Clear \/ \E w \in Lists : Close(w)
  <2>1. /\ shown' \in [Lists -> SUBSET Ids] /\ loaded' = Held(loaded, shown')
        /\ account' = account /\ changed' = changed
        /\ \A w \in Lists : shown'[w] \subseteq shown[w]
    BY <1>6 DEF Clear, Close
  <2>2. loaded' \in [Ids -> Loaded]
    BY <2>1, SessionTypes
  <2> QED
    BY <2>1, <2>2 DEF Reads, Held, Shown
<1>7. CASE Look \/ \E k \in Questions : Route(k)
  <2>1. PICK S \in SUBSET Ids : loaded' = Queried(S)
    BY <1>7 DEF Look, Route
  <2>2. shown' = shown /\ account' = account /\ changed' = changed
    BY <1>7 DEF Look, Route
  <2>3. loaded' \in [Ids -> Loaded]
    BY <2>1, SessionTypes DEF Queried
  <2> QED
    BY <2>1, <2>2, <2>3 DEF Reads, Queried, Reloaded, Sees, Connected, Status, Shown
<1>8. CASE (RouteCommit /\ Crash) \/ \E k \in Questions : OtherStores(k) \/ OtherClears(k)
  <2>1. Crash => ~ Done
    BY DEF Crash, Done, On
  <2>2. account' = account /\ loaded' = loaded /\ shown' = shown /\ changed' = changed
    BY <1>8, <2>1 DEF RouteCommit, OtherStores, OtherClears
  <2> QED
    BY <2>2 DEF Reads, Shown
<1> QED
  BY <1>1, <1>2, <1>3, <1>4, <1>5, <1>6, <1>7, <1>8

LEMMA CommitSteps ==
  ASSUME Inv,
         \/ Work \/ (RouteCommit /\ ~ Crash) \/ SyncDone \/ ConnectDone \/ (SyncInvalid /\ ~ Crash)
         \/ \E a \in Ids : AccountsDisconnect(a) \/ Connect(a)
         \/ \E w \in Lists, a \in Ids : Kill(w, a)
  PROVE  Commits
<1> USE DEF Inv, TypeOK, Fits
<1>1. CASE Work \/ (RouteCommit /\ ~ Crash)
  BY <1>1, SessionTypes DEF Work, RouteCommit, Commit, Commits, Expired, Status, Loaded, Account, Shown
<1>2. CASE SyncDone \/ ConnectDone
  <2>1. /\ loaded' = Reloaded(Expired(loaded), account) /\ changed' = {}
        /\ account' = account /\ shown' = shown
    BY <1>2 DEF SyncDone, ConnectDone
  <2>2. loaded' \in [Ids -> Loaded]
    BY <2>1, SessionTypes
  <2> QED
    BY <2>1, <2>2 DEF Commits, Reloaded, Expired, Status, Loaded, Account, Shown
<1>3. CASE SyncInvalid /\ ~ Crash
  <2>1. /\ account' = [account EXCEPT ![at.id] = IF @ \in Status THEN "invalid" ELSE @]
        /\ loaded' = [Expired(loaded) EXCEPT ![at.id] =
                        IF at.id \in Connected \cap Shown THEN "invalid" ELSE @]
        /\ changed' = {} /\ shown' = shown /\ at.id \in Ids
    BY <1>3 DEF SyncInvalid, SeenFits, Running, Handler
  <2>2. loaded' \in [Ids -> Loaded] /\ account' \in [Ids -> Account]
    BY <2>1, SessionTypes DEF Loaded, Account, Status
  <2> QED
    BY <2>1, <2>2 DEF Commits, Expired, Connected, Status, Loaded, Account, Shown
<1>4. ASSUME NEW a \in Ids, AccountsDisconnect(a) PROVE Commits
  <2> DEFINE objects == [loaded EXCEPT ![a] = IF a \in Shown THEN "deleted" ELSE "none"]
  <2>1. objects \in [Ids -> Loaded] /\ account' \in [Ids -> Account]
    BY <1>4 DEF AccountsDisconnect, Loaded, Account, Status
  <2>2. loaded' \in [Ids -> Loaded]
    BY <1>4, <2>1, SessionTypes DEF AccountsDisconnect
  <2>3. account[a] # "new"
    BY <1>4 DEF AccountsDisconnect, Resolves, Connected, Status
  <2>4. account[a] # "dropped" => loaded[a] \notin {"none", "deleted"} \/ a \in Connected
    BY <1>4 DEF AccountsDisconnect, Resolves, Connected, Status
  <2> QED
    BY <1>4, <2>1, <2>2, <2>3, <2>4
    DEF AccountsDisconnect, Commits, Reloaded, Expired, Connected, Status, Loaded, Account, Shown
<1>5. ASSUME NEW a \in Ids, Connect(a) PROVE Commits
  BY <1>5, SessionTypes
  DEF Connect, Commit, Commits, Expired, Status, Loaded, Account, Shown
<1>6. ASSUME NEW w \in Lists, NEW a \in Ids, Kill(w, a) PROVE Commits
  <2> DEFINE objects == [loaded EXCEPT ![a] = "deleted"]
  <2>1. objects \in [Ids -> Loaded] /\ account' \in [Ids -> Account]
        /\ shown' \in [Lists -> SUBSET Ids]
    BY <1>6 DEF Kill, Loaded, Account, Status
  <2>2. Held(objects, shown') \in [Ids -> Loaded] /\ loaded' = Expired(Held(objects, shown'))
    BY <1>6, <2>1, SessionTypes DEF Kill, Commit
  <2>3. loaded' \in [Ids -> Loaded]
    BY <2>2, SessionTypes
  <2>4. account[a] \notin {"new", "dropped"}
    BY <1>6 DEF Kill, Shown
  <2>5. \A b \in Shown' : b \in Shown
    BY <1>6 DEF Kill, Shown
  <2> QED
    BY <1>6, <2>1, <2>2, <2>3, <2>4, <2>5
    DEF Kill, Commit, Commits, Expired, Held, Status, Loaded, Account, Shown
<1> QED
  BY <1>1, <1>2, <1>3, <1>4, <1>5, <1>6

-----------------------------------------------------------------------------
(* The handler, the messages and the status bar. *)
LEMMA AccountSteps ==
  ASSUME Inv, NEW a \in Ids, SyncStart(a) \/ Connect(a)
  PROVE  /\ at' \in Handler /\ at'.do \in {"sync", "connect"}
         /\ at'.id = a /\ at'.seen = Connected \cup {a}
<1>1. CASE SyncStart(a)
  <2>1. Sees(a) \in Status
    BY <1>1 DEF SyncStart, Resolves, Sees, Connected
  <2> QED
    BY <1>1, <2>1, AccountHandlers DEF SyncStart
<1>2. CASE Connect(a)
  BY <1>2, AccountHandlers DEF Connect, Status
<1> QED
  BY <1>1, <1>2

LEMMA ControlTypes ==
  ASSUME Inv, Next
  PROVE  at' \in Handler /\ posted' \in Nat /\ bar' \in Nat
<1> USE DEF Inv, TypeOK
<1>1. CASE \E a \in Ids : SyncStart(a) \/ Connect(a)
  BY <1>1, AccountSteps DEF SyncStart, Connect
<1>2. CASE UpdateStatus
  <2>1. Cardinality({a \in Connected : Sees(a) = "active"}) \in Nat
    BY IdsAssumption, FS_Subset, FS_CardinalityType DEF Connected
  <2> QED
    BY <1>2, <2>1, HandlerTypes DEF UpdateStatus, Waiting
<1>3. CASE AccountsList \/ Work \/ Look \/ Clear \/ Quit \/ SyncUnreachable \/ SyncInvalid
           \/ SyncDone \/ ConnectDone \/ CommitFails \/ Disconnected \/ RouteCommit
           \/ (\E a \in Ids : NotFound(a) \/ AccountsDisconnect(a))
  <2>1. /\ at' \in {at, Waiting, On("status"), On("ended"), On("crashed")} /\ bar' = bar
        /\ posted' = posted \/ (posted > 0 /\ posted' = posted - 1)
    BY <1>3 DEF AccountsList, Work, Look, Clear, Quit, SyncUnreachable, SyncInvalid, SyncDone,
       ConnectDone, CommitFails, Disconnected, RouteCommit, NotFound, AccountsDisconnect, Done, Crash
  <2> QED
    BY <2>1, HandlerTypes DEF Waiting
<1>4. CASE \/ \E w \in Lists, a \in Ids : Kill(w, a) \/ KillRefused(w, a) \/ ViewId(w, a) \/ RowRaises(w, a)
           \/ \E w \in Lists : Close(w)
           \/ \E a \in Ids : OtherConnects(a) \/ OtherDisconnects(a) \/ OtherInvalidates(a)
           \/ \E k \in Questions : OtherStores(k) \/ OtherClears(k)
  <2>1. at' \in {at, On("crashed")} /\ bar' = bar /\ posted' \in {posted, posted + 1}
    BY <1>4 DEF Kill, KillRefused, ViewId, RowRaises, Close, OtherConnects, OtherDisconnects,
       OtherInvalidates, OtherStores, OtherClears, Crash
  <2> QED
    BY <2>1, HandlerTypes
<1>5. CASE \E k \in Questions : Route(k)
  BY <1>5, RouteTypes DEF Route
<1> QED
  BY <1>1, <1>2, <1>3, <1>4, <1>5 DEF Next

(* A command begins with accounts that are there, and the shell drops none   *)
(* before it has ended.                                                      *)
LEMMA SeenStep ==
  ASSUME Inv, Next
  PROVE  SeenFits'
<1> USE DEF Inv, TypeOK, SeenFits, Running
<1>1. ASSUME NEW a \in Ids, SyncStart(a) PROVE SeenFits'
  <2>1. at'.id = a /\ at'.seen = Connected \cup {a} /\ account' = account
    BY <1>1, AccountSteps DEF SyncStart
  <2>2. account[a] \notin {"new", "dropped"}
    BY <1>1 DEF SyncStart, Resolves, Connected, Fits, Status
  <2> QED
    BY <2>1, <2>2 DEF Connected, Status
<1>2. ASSUME NEW a \in Ids, Connect(a) PROVE SeenFits'
  <2>1. at'.id = a /\ at'.seen = Connected \cup {a}
    BY <1>2, AccountSteps
  <2>2. account' = [account EXCEPT ![a] = "active"]
    BY <1>2 DEF Connect
  <2> QED
    BY <2>1, <2>2 DEF Connected, Status
<1>3. CASE AccountsList \/ Work \/ Look \/ Quit \/ SyncUnreachable \/ SyncInvalid \/ SyncDone
           \/ ConnectDone \/ CommitFails \/ Disconnected \/ UpdateStatus \/ RouteCommit
           \/ (\E a \in Ids : NotFound(a) \/ AccountsDisconnect(a))
           \/ (\E w \in Lists, a \in Ids : RowRaises(w, a))
  <2>1. at' \in {Waiting, On("status"), On("ended"), On("crashed")}
    BY <1>3 DEF AccountsList, Work, Look, Quit, SyncUnreachable, SyncInvalid, SyncDone, ConnectDone,
       CommitFails, Disconnected, UpdateStatus, RouteCommit, NotFound, AccountsDisconnect, RowRaises,
       Done, Crash
  <2> QED
    BY <2>1, HandlerTypes DEF Waiting
<1>4. CASE Clear \/ (\E w \in Lists : Close(w))
           \/ \E w \in Lists, a \in Ids : Kill(w, a) \/ KillRefused(w, a) \/ ViewId(w, a)
  BY <1>4, HandlerTypes DEF Clear, Close, Kill, KillRefused, ViewId, Idle, Waiting
<1>5. CASE \E a \in Ids : OtherConnects(a) \/ OtherDisconnects(a) \/ OtherInvalidates(a)
  <2>1. at' = at /\ \A b \in Ids : account'[b] \in {"new", "dropped"} => account'[b] = account[b]
    BY <1>5 DEF OtherConnects, OtherDisconnects, OtherInvalidates
  <2> QED
    BY <2>1 DEF Handler
<1>6. CASE \E k \in Questions : Route(k)
  BY <1>6, RouteTypes DEF Route
<1>7. CASE \E k \in Questions : OtherStores(k) \/ OtherClears(k)
  BY <1>7 DEF OtherStores, OtherClears
<1> QED
  BY <1>1, <1>2, <1>3, <1>4, <1>5, <1>6, <1>7 DEF Next

(* Only a step of others changes the answer that a running route has looked  *)
(* for.                                                                      *)
LEMMA RouteStep ==
  ASSUME Inv, Next
  PROVE  cached' \subseteq Questions /\ raced' \subseteq Questions /\ RouteFits'
<1> USE DEF Inv, TypeOK, RouteFits, answers
<1>1. ASSUME NEW k \in Questions, Route(k)
      PROVE  cached' \subseteq Questions /\ raced' \subseteq Questions /\ RouteFits'
  BY <1>1, RouteTypes DEF Route
<1>2. ASSUME NEW k \in Questions, OtherStores(k) \/ OtherClears(k)
      PROVE  cached' \subseteq Questions /\ raced' \subseteq Questions /\ RouteFits'
  <2>1. /\ cached' \in {cached \cup {k}, cached \ {k}} /\ at' = at
        /\ raced' = raced \cup ({k} \cap {at.key})
    BY <1>2 DEF OtherStores, OtherClears
  <2>2. CASE at.key = k
    BY <2>1, <2>2
  <2>3. CASE at.key # k
    BY <2>1, <2>3
  <2> QED
    BY <2>2, <2>3
<1>3. CASE Work \/ RouteCommit
  <2>1. at' \in {On("status"), On("crashed")}
    BY <1>3 DEF Work, RouteCommit, Done, Crash
  <2>2. cached' \subseteq Questions /\ raced' \subseteq Questions
    BY <1>3 DEF Work, RouteCommit
  <2> QED
    BY <2>1, <2>2, HandlerTypes
<1>4. CASE \E a \in Ids : SyncStart(a) \/ Connect(a)
  BY <1>4, AccountSteps DEF SyncStart, Connect
<1>5. CASE AccountsList \/ Look \/ Quit \/ SyncUnreachable \/ SyncInvalid \/ SyncDone
           \/ ConnectDone \/ CommitFails \/ Disconnected \/ UpdateStatus
           \/ (\E a \in Ids : NotFound(a) \/ AccountsDisconnect(a))
           \/ (\E w \in Lists, a \in Ids : RowRaises(w, a))
  <2>1. at' \in {Waiting, On("status"), On("ended"), On("crashed")} /\ answers' = answers
    BY <1>5 DEF AccountsList, Look, Quit, SyncUnreachable, SyncInvalid, SyncDone, ConnectDone,
       CommitFails, Disconnected, UpdateStatus, NotFound, AccountsDisconnect, RowRaises, Done, Crash
  <2> QED
    BY <2>1, HandlerTypes DEF Waiting
<1>6. CASE Clear \/ (\E w \in Lists : Close(w))
           \/ (\E w \in Lists, a \in Ids : Kill(w, a) \/ KillRefused(w, a) \/ ViewId(w, a))
           \/ \E a \in Ids : OtherConnects(a) \/ OtherDisconnects(a) \/ OtherInvalidates(a)
  <2>1. at' = at /\ answers' = answers
    BY <1>6 DEF Clear, Close, Kill, KillRefused, ViewId, OtherConnects, OtherDisconnects,
       OtherInvalidates
  <2> QED
    BY <2>1
<1> QED
  BY <1>1, <1>2, <1>3, <1>4, <1>5, <1>6 DEF Next

LEMMA InvStep ==
  ASSUME Inv, [Next]_vars
  PROVE  Inv'
<1>1. CASE UNCHANGED vars
  BY <1>1 DEF vars, Inv, TypeOK, Fits, SeenFits, Running, RouteFits, LagsOnlyBehindOthers, Connected, Shown
<1>2. CASE Next
  <2>1. CASE Reads
    BY <1>2, <2>1, ReadsKeep, ControlTypes, SeenStep, RouteStep DEF Reads, Inv, TypeOK
  <2>2. CASE Commits
    BY <1>2, <2>2, CommitsKeep, ControlTypes, SeenStep, RouteStep DEF Commits, Inv, TypeOK
  <2>3. CASE \E a \in Ids : OtherConnects(a) \/ OtherDisconnects(a) \/ OtherInvalidates(a)
    <3>1. TypeOK'
      BY <1>2, <2>3, ControlTypes, RouteStep
      DEF Inv, TypeOK, OtherConnects, OtherDisconnects, OtherInvalidates, Account, Status
    <3>2. Fits'
      BY <2>3 DEF Inv, TypeOK, Fits, Shown, Connected, Loaded, Status,
         OtherConnects, OtherDisconnects, OtherInvalidates
    <3>3. LagsOnlyBehindOthers'
      BY <2>3 DEF Inv, TypeOK, Fits, LagsOnlyBehindOthers, Connected, Status,
         OtherConnects, OtherDisconnects, OtherInvalidates
    <3> QED
      BY <1>2, <3>1, <3>2, <3>3, SeenStep, RouteStep DEF Inv
  <2>4. SyncInvalid /\ Crash => Reads
    BY DEF SyncInvalid, Crash, Done, On, Reads, Inv, TypeOK, Fits, Shown
  <2>5. CASE SyncInvalid
    BY <2>1, <2>2, <2>4, <2>5, CommitSteps
  <2>6. CASE Work \/ SyncDone \/ ConnectDone \/ (\E a \in Ids : AccountsDisconnect(a) \/ Connect(a))
             \/ \E w \in Lists, a \in Ids : Kill(w, a)
    BY <2>2, <2>6, CommitSteps
  <2>7. CASE \/ AccountsList \/ Look \/ Clear \/ Quit \/ SyncUnreachable \/ CommitFails
             \/ Disconnected \/ UpdateStatus
             \/ \E a \in Ids : NotFound(a) \/ SyncStart(a)
             \/ \E w \in Lists, a \in Ids : KillRefused(w, a) \/ ViewId(w, a) \/ RowRaises(w, a)
             \/ \E w \in Lists : Close(w)
             \/ \E k \in Questions : Route(k) \/ OtherStores(k) \/ OtherClears(k)
    BY <2>1, <2>7, ReadSteps
  <2>8. CASE RouteCommit
    BY <2>1, <2>2, <2>8, ReadSteps, CommitSteps
  <2> QED
    BY <1>2, <2>3, <2>5, <2>6, <2>7, <2>8 DEF Next
<1> QED
  BY <1>1, <1>2

-----------------------------------------------------------------------------
(* Type correctness. *)
THEOREM TypeCorrect == Spec => []TypeOK
<1>1. Inv => TypeOK
  BY DEF Inv
<1> QED
  BY InvInit, InvStep, <1>1, PTL DEF Spec

(* However long a list stays open, what the session holds of an account lags *)
(* behind its row only if another process has changed that since the last    *)
(* commit.                                                                   *)
THEOREM Lags == Spec => []LagsOnlyBehindOthers
<1>1. Inv => LagsOnlyBehindOthers
  BY DEF Inv
<1> QED
  BY InvInit, InvStep, <1>1, PTL DEF Spec

(* The status bar counts the active accounts exactly, with the same proviso. *)
THEOREM Counts == Spec => BarCounts
<1>1. ASSUME Inv, [Next]_vars
      PROVE  [at.do = "status" /\ at' = Waiting /\ changed = {} => bar' = Cardinality(Active)]_vars
  <2> SUFFICES ASSUME Next, at.do = "status", at' = Waiting, changed = {}
               PROVE  bar' = Cardinality(Active)
    BY <1>1
  <2>1. UpdateStatus
    <3>1. at # Waiting /\ at' # at
      BY HandlerTypes DEF Waiting
    <3> QED
      BY <3>1 DEF Next, Idle, AccountsList, Work, Look, Clear, Quit, SyncUnreachable, SyncInvalid,
         SyncDone, ConnectDone, CommitFails, Disconnected, NotFound, AccountsDisconnect, SyncStart,
         Connect, Kill, KillRefused, ViewId, RowRaises, Close, OtherConnects, OtherDisconnects,
         OtherInvalidates, Route, RouteCommit, OtherStores, OtherClears
  <2>2. {a \in Connected : Sees(a) = "active"} = Active
    BY <1>1 DEF Inv, TypeOK, LagsOnlyBehindOthers, Connected, Active, Sees, Status
  <2> QED
    BY <2>1, <2>2 DEF UpdateStatus
<1> QED
  BY InvInit, InvStep, <1>1, PTL DEF Spec, BarCounts

(* Only what another process has disconnected, or an answer it has stored or *)
(* cleared, under the shell's feet ends the app against the user's will.     *)
THEOREM Ends == Spec => EndsByOthers
<1>1. ASSUME Inv, [Next]_vars
      PROVE  [at.do # "crashed" /\ at' = On("crashed") =>
                \/ \E a \in Shown \cup at.seen : account[a] = "taken"
                \/ at.do = "route" /\ at.key \in raced]_vars
  <2> DEFINE ByOthers == \/ \E a \in Shown \cup at.seen : account[a] = "taken"
                         \/ at.do = "route" /\ at.key \in raced
  <2> SUFFICES ASSUME Next, at.do # "crashed", at' = On("crashed")
               PROVE  ByOthers
    BY <1>1
  <2>1. \/ CommitFails
        \/ RouteCommit /\ (at.key \in cached) # at.found
        \/ SyncInvalid /\ at.id \notin Connected
        \/ \E w \in Lists, a \in Ids : RowRaises(w, a)
    <3>1. at' # at /\ at' \notin {Waiting, On("status"), On("ended")} /\ at'.do = "crashed"
      BY HandlerTypes DEF Waiting
    <3>2. ~ (AccountsList \/ Work \/ Look \/ Clear \/ Quit \/ SyncUnreachable \/ SyncDone
             \/ ConnectDone \/ Disconnected \/ UpdateStatus)
      BY <3>1 DEF AccountsList, Work, Look, Clear, Quit, SyncUnreachable, SyncDone, ConnectDone,
         Disconnected, UpdateStatus, Done
    <3>3. ~ \E a \in Ids : NotFound(a) \/ AccountsDisconnect(a) \/ SyncStart(a) \/ Connect(a)
      <4> SUFFICES ASSUME NEW a \in Ids
                   PROVE  ~ (NotFound(a) \/ AccountsDisconnect(a) \/ SyncStart(a) \/ Connect(a))
        OBVIOUS
      <4>1. ~ NotFound(a) /\ ~ AccountsDisconnect(a)
        BY <3>1 DEF NotFound, AccountsDisconnect, Done
      <4>2. ~ SyncStart(a) /\ ~ Connect(a)
        BY <1>1, <3>1, AccountSteps
      <4> QED
        BY <4>1, <4>2
    <3>4. ~ \E w \in Lists : Close(w) \/ \E a \in Ids : Kill(w, a) \/ KillRefused(w, a) \/ ViewId(w, a)
      BY <3>1 DEF Close, Kill, KillRefused, ViewId
    <3>5. ~ \E a \in Ids : OtherConnects(a) \/ OtherDisconnects(a) \/ OtherInvalidates(a)
      BY <3>1 DEF OtherConnects, OtherDisconnects, OtherInvalidates
    <3>6. SyncInvalid => at.id \notin Connected
      BY <3>1 DEF SyncInvalid, Done
    <3>7. RouteCommit => (at.key \in cached) # at.found
      BY <3>1 DEF RouteCommit, Done
    <3>8. ~ \E k \in Questions : Route(k) \/ OtherStores(k) \/ OtherClears(k)
      BY <3>1, RouteTypes DEF OtherStores, OtherClears
    <3> QED
      BY <3>2, <3>3, <3>4, <3>5, <3>6, <3>7, <3>8 DEF Next
  <2>2. at.do \in {"sync", "connect"} => \A a \in at.seen \ Connected : account[a] = "taken"
    BY <1>1 DEF Inv, TypeOK, SeenFits, Running, Handler, Connected, Account
  <2>3. CASE CommitFails
    BY <2>2, <2>3 DEF CommitFails, Gone
  <2>4. CASE SyncInvalid /\ at.id \notin Connected
    BY <1>1, <2>2, <2>4 DEF SyncInvalid, Inv, SeenFits, Running
  <2>5. ASSUME NEW w \in Lists, NEW a \in Ids, RowRaises(w, a)
        PROVE  ByOthers
    <3>1. a \in Shown /\ loaded[a] = "expired" /\ a \notin Connected
      BY <2>5 DEF RowRaises, Raises, Shown
    <3>2. account[a] = "taken"
      BY <1>1, <3>1 DEF Inv, TypeOK, Fits, Connected, Account
    <3> QED
      BY <3>1, <3>2
  <2>6. CASE RouteCommit /\ (at.key \in cached) # at.found
    BY <1>1, <2>6 DEF RouteCommit, Inv, RouteFits
  <2> QED
    BY <2>1, <2>3, <2>4, <2>5, <2>6
<1> QED
  BY InvInit, InvStep, <1>1, PTL DEF Spec, EndsByOthers

(* And Kill Account does what it says. *)
THEOREM Kills == Spec => KillKills
<1>1. ASSUME Inv, [Next]_vars
      PROVE  [\A w \in Lists, a \in Ids :
                Kill(w, a) \/ KillRefused(w, a) => account'[a] \notin Status]_vars
  <2> SUFFICES ASSUME NEW w \in Lists, NEW a \in Ids, Kill(w, a) \/ KillRefused(w, a)
               PROVE  account'[a] \notin Status
    OBVIOUS
  <2>1. CASE Kill(w, a)
    BY <1>1, <2>1 DEF Kill, Inv, TypeOK, Status
  <2>2. CASE KillRefused(w, a)
    BY <1>1, <2>2 DEF KillRefused, Inv, TypeOK, Fits, Status
  <2> QED
    BY <2>1, <2>2
<1> QED
  BY InvInit, InvStep, <1>1, PTL DEF Spec, KillKills
=============================================================================
