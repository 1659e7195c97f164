---------------------------- MODULE ModelRegistry ----------------------------
(***************************************************************************)
(* The accounts and the model registry of the orchestrator: what `connect`, *)
(* `accounts sync` and `accounts disconnect` do to the connected_accounts   *)
(* and model_registry tables, when several processes (CLI commands, a TUI)  *)
(* work on one SQLite file.                                                 *)
(*                                                                          *)
(* Each process runs one operation at a time.  An operation is a sequence   *)
(* of reads, network calls and commits, and between two of them any other   *)
(* process may commit, or the operation may die (an exception nobody        *)
(* catches, Ctrl-C).  What a session has read stays in its identity map; a  *)
(* commit writes the session's unit of work in one transaction.             *)
(***************************************************************************)
EXTENDS Naturals

CONSTANTS
  Procs,           \* processes that open the database
  Accounts,        \* the uuids `connect` may draw
  Shorts,          \* abbreviations a user may type in place of a uuid
  Prefix,          \* Prefix[s]: the uuids that start with s
  CloudProviders,  \* "openai", "anthropic", ...
  LocalProviders,  \* "ollama", "openai-compatible": identified by a base_url
  Rank,            \* alphabetical order of the provider names
  Urls,            \* spellings of base urls
  Canon,           \* Canon[u]: u without outer blanks and trailing slashes
  Names,           \* external model ids
  Metas,           \* what a listing says of a model: tier, costs, capabilities
  None,            \* Python's None
  MaxClock         \* bound: no operation starts at or after this instant

Providers == CloudProviders \cup LocalProviders
Refs == Accounts \cup Shorts

ASSUME PrefixAssumption == Prefix \in [Shorts -> SUBSET Accounts]
ASSUME ShortsAssumption == Shorts \cap Accounts = {}
ASSUME RankAssumption == Rank \in [Providers -> Nat]
ASSUME NoneAssumption == None \notin Urls \cup Refs \cup Providers
ASSUME ClockAssumption == MaxClock \in Nat

VARIABLES
  accounts,   \* the connected_accounts table, by id
  rows,       \* the model_registry table
  used,       \* uuids drawn so far (uuid4 does not repeat itself)
  op,         \* op[p]: the operation process p is in
  clock       \* datetime.now, and the order of the inserts

vars == <<accounts, rows, used, op, clock>>

(* A provider's listing: the models it names and what it says of each. *)
Listings == UNION {[S -> Metas] : S \in SUBSET Names}

Statuses == {"active", "invalid"}
AccountRecord == [provider : Providers, url : Urls \cup {None},
                  status : Statuses, synced : Nat]

(* A registry row. <<at, name>> is its surrogate id: a batch of rows shares *)
(* its discovered_at and names each model once. seq is its rowid.           *)
Row == [seq : Nat, at : Nat, acct : Refs, provider : Providers,
        name : Names, meta : Metas]
Id(r) == <<r.at, r.name>>

(* A running operation: the account_id argument, the account it stands for *)
(* as this session read it, the listing, and the unit of work - the rows to *)
(* insert (by name) and the rows to update or delete (by id).               *)
Op == [pc : {"contact", "upsert", "flush", "touch"},
       act : {"connect", "sync", "disconnect"},
       ref : Refs, acct : Accounts, provider : Providers, url : Urls \cup {None},
       at : Nat, list : Listings, fresh : SUBSET Names, touch : SUBSET (Nat \X Names)]
Idle == [pc |-> "idle"]

TypeOK ==
  /\ used \subseteq Accounts
  /\ DOMAIN accounts \subseteq used
  /\ accounts \in [DOMAIN accounts -> AccountRecord]
  /\ rows \subseteq Row
  /\ op \in [Procs -> Op \cup {Idle}]
  /\ clock \in Nat

Connected == DOMAIN accounts

-----------------------------------------------------------------------------
(* Identity of a model: (source key, external_model_id).                    *)

(* _source_key: the base url of the account if the account is found and has *)
(* one, the provider name otherwise.                                        *)
SourceKey(accts, id, provider) ==
  IF id \in DOMAIN accts /\ accts[id].url # None THEN Canon[accts[id].url] ELSE provider

KeyOf(r) == SourceKey(accounts, r.acct, r.provider)
SameIdentity(r, q) == r.name = q.name /\ KeyOf(r) = KeyOf(q)

(* The order of list_enabled among rows of one name: provider, discovered_at. *)
ListedBefore(r, q) ==
  \/ Rank[r.provider] < Rank[q.provider]
  \/ r.provider = q.provider /\ r.at < q.at

(* list_enabled: of the rows of one identity, the one listed first. No code *)
(* path ever clears the enabled flag.                                       *)
Enabled == {r \in rows : \A q \in rows \ {r} : SameIdentity(r, q) => ListedBefore(r, q)}

(* The accounts table as the session of p sees it: its own account is in    *)
(* the identity map and stays as it was read; the others are queried.       *)
View(p) ==
  [a \in Connected \cup {op[p].acct} |->
     IF a = op[p].acct
     THEN [provider |-> op[p].provider, url |-> op[p].url, status |-> "active", synced |-> 0]
     ELSE accounts[a]]

(* The key under which p upserts: that of the account_id written into the   *)
(* new rows, which is the argument of the command.                          *)
OwnKey(p) == SourceKey(View(p), op[p].ref, op[p].provider)

(* Mutants: rows matched by owner, and by provider name as get_by_external_id. *)
OwnedMatches(p, n) == {r \in rows : r.name = n /\ r.acct = op[p].ref}
ProviderMatches(p, n) == {r \in rows : r.name = n /\ r.provider = op[p].provider}

(* The rows _get_by_source_external_id walks through for name n. *)
Matches(p, n) ==
  {r \in rows : r.name = n /\ SourceKey(View(p), r.acct, r.provider) = OwnKey(p)}
First(S) == CHOOSE r \in S : \A q \in S : r.seq <= q.seq

-----------------------------------------------------------------------------
(* Steps. None of them is taken on a rejected argument (unknown provider,   *)
(* missing base url, id not found or ambiguous): those return at once.      *)

Starts(p) == op[p] = Idle /\ clock < MaxClock
At(p, pc) == op[p] # Idle /\ op[p].pc = pc
Stop(p) == op' = [op EXCEPT ![p] = Idle]
Goto(p, o) == op' = [op EXCEPT ![p] = o]

(* connect: checks the arguments, draws the uuid and takes the time.        *)
ConnectStart(p) ==
  /\ Starts(p)
  /\ \E a \in Accounts \ used, q \in Providers, u \in Urls \cup {None} :
       /\ q \in LocalProviders => u # None
       /\ used' = used \cup {a}
       /\ Goto(p, [pc |-> "contact", act |-> "connect", ref |-> a, acct |-> a,
                   provider |-> q, url |-> u, at |-> clock, list |-> <<>>,
                   fresh |-> {}, touch |-> {}])
  /\ clock' = clock + 1
  /\ UNCHANGED <<accounts, rows>>

(* connect, continued: the source accepts the key and lists its models; the *)
(* account is committed before its models are.                              *)
ConnectPersist(p) ==
  /\ At(p, "contact") /\ op[p].act = "connect"
  /\ \E l \in Listings : Goto(p, [op[p] EXCEPT !.pc = "upsert", !.list = l])
  /\ accounts' = [a \in Connected \cup {op[p].acct} |->
                    IF a = op[p].acct
                    THEN [provider |-> op[p].provider, url |-> op[p].url,
                          status |-> "active", synced |-> op[p].at]
                    ELSE accounts[a]]
  /\ UNCHANGED <<rows, used, clock>>

(* _resolve_account: an exact id, or else the one account it abbreviates.   *)
Resolve(ref) ==
  IF ref \in Connected THEN {ref}
  ELSE {a \in Connected : ref \in Shorts /\ a \in Prefix[ref]}

SyncStart(p) ==
  /\ Starts(p)
  /\ \E ref \in Refs, a \in Connected :
       /\ Resolve(ref) = {a}
       /\ Goto(p, [pc |-> "contact", act |-> "sync", ref |-> ref, acct |-> a,
                   provider |-> accounts[a].provider, url |-> accounts[a].url,
                   at |-> 0, list |-> <<>>, fresh |-> {}, touch |-> {}])
  /\ UNCHANGED <<accounts, rows, used, clock>>

(* sync_account: a cloud key no longer validates. The status is saved, when *)
(* there still is a row to save it in, and the command fails.               *)
SyncInvalid(p) ==
  /\ At(p, "contact") /\ op[p].act = "sync"
  /\ op[p].provider \in CloudProviders
  /\ accounts' = [a \in Connected |->
                    IF a = op[p].acct THEN [accounts[a] EXCEPT !.status = "invalid"]
                    ELSE accounts[a]]
  /\ Stop(p)
  /\ UNCHANGED <<rows, used, clock>>

(* sync_account: the source answers with its models; the time is taken now. *)
SyncDiscover(p) ==
  /\ At(p, "contact") /\ op[p].act = "sync"
  /\ \E l \in Listings :
       Goto(p, [op[p] EXCEPT !.pc = "upsert", !.list = l, !.at = clock])
  /\ clock' = clock + 1
  /\ UNCHANGED <<accounts, rows, used>>

(* upsert_models, the loop: per model, an insert if no row has its identity *)
(* and otherwise an update of the first such row, emitted if a field        *)
(* changes. The session does not autoflush, so the loop only reads.         *)
UpsertRead(p) ==
  /\ At(p, "upsert")
  /\ LET l == op[p].list
         found == {n \in DOMAIN l : Matches(p, n) # {}}
         changed == {n \in found : First(Matches(p, n)).meta # l[n]}
     IN Goto(p, [op[p] EXCEPT !.pc = "flush", !.fresh = DOMAIN l \ found,
                              !.touch = {Id(First(Matches(p, n))) : n \in changed}])
  /\ UNCHANGED <<accounts, rows, used, clock>>

(* Mutant: account_id, a nullable column, is not filled in. *)
UnownedRow(o, n) == [seq |-> clock, at |-> o.at, acct |-> None, provider |-> o.provider,
                     name |-> n, meta |-> o.list[n]]
NewRow(o, n) == [seq |-> clock, at |-> o.at, acct |-> o.ref, provider |-> o.provider,
                 name |-> n, meta |-> o.list[n]]

(* Mutant: a matched row is left as it was. *)
SkipUpdate(o, r) == r
(* Mutant: account_id among the fields an update overwrites. *)
TakeOver(o, r) ==
  IF Id(r) \in o.touch THEN [r EXCEPT !.meta = o.list[r.name], !.acct = o.ref] ELSE r
(* _MUTABLE_FIELDS: an update refreshes what the listing says, never the    *)
(* owner nor the identity.                                                  *)
Refreshed(o, r) == IF Id(r) \in o.touch THEN [r EXCEPT !.meta = o.list[r.name]] ELSE r

(* upsert_models, the commit: one transaction for the whole listing. An     *)
(* UPDATE that finds its row gone fails the transaction (Abandon).           *)
UpsertCommit(p) ==
  /\ At(p, "flush") /\ op[p].act # "disconnect"
  /\ op[p].touch \subseteq {Id(r) : r \in rows}
  /\ rows' = {Refreshed(op[p], r) : r \in rows} \cup {NewRow(op[p], n) : n \in op[p].fresh}
  /\ IF op[p].act = "connect" THEN Stop(p) ELSE Goto(p, [op[p] EXCEPT !.pc = "touch"])
  /\ clock' = clock + 1
  /\ UNCHANGED <<accounts, used>>

Synced(o, a) == [a EXCEPT !.synced = o.at]

(* sync_account, last commit: last_synced_at. Fails on a vanished account.  *)
SyncTouch(p) ==
  /\ At(p, "touch")
  /\ op[p].acct \in Connected
  /\ accounts' = [accounts EXCEPT ![op[p].acct] = Synced(op[p], accounts[op[p].acct])]
  /\ Stop(p)
  /\ UNCHANGED <<rows, used, clock>>

(* Mutants: the account is deleted alone; every row of its source goes. *)
KeepRows(a) == {}
SourceRows(a) == {r \in rows : r.provider = accounts[a].provider}
(* The rows the ORM cascade collects: those that carry the account's id.    *)
OwnedRows(a) == {r \in rows : r.acct = a}

DisconnectRead(p) ==
  /\ Starts(p)
  /\ \E ref \in Refs, a \in Connected :
       /\ Resolve(ref) = {a}
       /\ Goto(p, [pc |-> "flush", act |-> "disconnect", ref |-> ref, acct |-> a,
                   provider |-> accounts[a].provider, url |-> accounts[a].url,
                   at |-> 0, list |-> <<>>, fresh |-> {},
                   touch |-> {Id(r) : r \in OwnedRows(a)}])
  /\ UNCHANGED <<accounts, rows, used, clock>>

(* disconnect_account: account and collected rows go in one transaction. A  *)
(* DELETE that finds nothing is only a warning.                             *)
DisconnectCommit(p) ==
  /\ At(p, "flush") /\ op[p].act = "disconnect"
  /\ rows' = {r \in rows : Id(r) \notin op[p].touch}
  /\ accounts' = [a \in Connected \ {op[p].acct} |-> accounts[a]]
  /\ Stop(p)
  /\ UNCHANGED <<used, clock>>

(* The operation ends with nothing more written: the key is rejected at     *)
(* connect, the source cannot be reached, the commit fails because a row to *)
(* update is gone (StaleDataError), or the process dies.                    *)
Abandon(p) ==
  /\ op[p] # Idle
  /\ Stop(p)
  /\ UNCHANGED <<accounts, rows, used, clock>>

Init ==
  /\ accounts = <<>>
  /\ rows = {}
  /\ used = {}
  /\ op = [p \in Procs |-> Idle]
  /\ clock = 0

Step(p) ==
  \/ ConnectStart(p) \/ ConnectPersist(p)
  \/ SyncStart(p) \/ SyncInvalid(p) \/ SyncDiscover(p) \/ SyncTouch(p)
  \/ UpsertRead(p) \/ UpsertCommit(p)
  \/ DisconnectRead(p) \/ DisconnectCommit(p)
  \/ Abandon(p)

Next == \E p \in Procs : Step(p)

Spec == Init /\ [][Next]_vars

(* Operations that run at the same time are about different sources: a       *)
(* single process, or several of which each keeps to a source of its own.    *)
KeyOfOp(o) == IF o.url # None THEN Canon[o.url] ELSE o.provider
Apart ==
  \A p, q \in Procs : p # q /\ op[p] # Idle /\ op[q] # Idle
                        => KeyOfOp(op[p]) # KeyOfOp(op[q])
ApartSpec == Init /\ [][Next /\ Apart']_vars

-----------------------------------------------------------------------------
(* Properties, whatever the number of processes and the ids users type.     *)

(* A row whose owner is connected names the owner's provider. route calls    *)
(* the provider named by the row with the key of the account it points to:   *)
(* if this failed, a key would be sent to another provider.                  *)
OwnerProviderAgrees ==
  \A r \in rows : r.acct \in Connected => accounts[r.acct].provider = r.provider

(* "The source-qualified identity and the surrogate id / account_id are NOT  *)
(* in this list": no upsert, however late its reads were made, moves a row   *)
(* to another owner or renames it.                                           *)
RowIdentityFixed ==
  [][\A r \in rows, q \in rows' :
       Id(r) = Id(q) => /\ r.acct = q.acct
                        /\ r.provider = q.provider]_vars

(* Rows leave the registry with their owner only: nobody loses a model that  *)
(* still has its account, however commits of other sessions fell between the *)
(* read and the commit of a disconnect.                                      *)
RowsLeaveWithOwner ==
  [][\A r \in rows :
       (\A q \in rows' : Id(q) # Id(r)) => r.acct \notin Connected']_vars

(* Properties of operations that are apart, given full ids.                  *)

(* Ownership stays intact: every row's owner is connected, so no routable    *)
(* model ends in "No account found for model".                               *)
NoOrphanRows == \A r \in rows : r.acct \in Connected

(* Re-syncing updates rows in place instead of duplicating them: the table   *)
(* holds one row per identity, although it has no such constraint.           *)
UniqueIdentity == \A r, q \in rows : SameIdentity(r, q) => r = q

(* What an upsert for a connected account was told is what routing sees once *)
(* it is committed, for each model of the listing and under the source it    *)
(* was listed by: the row it refreshed is the row list_enabled picks.        *)
Routable(k, n, m) == \E r \in Enabled : r.name = n /\ KeyOf(r) = k /\ r.meta = m
UpsertReachesRouting ==
  [][\A p \in Procs : UpsertCommit(p) /\ op[p].acct \in Connected =>
       \A n \in DOMAIN op[p].list : \A k \in {OwnKey(p)}, m \in {op[p].list[n]} :
         Routable(k, n, m)']_vars

(* What routing can tell of the two tables: the source each account stands   *)
(* for, and what list_enabled offers of it.                                  *)
Sources == [a \in Connected |-> SourceKey(accounts, a, accounts[a].provider)]
Offer(r) == [key |-> KeyOf(r), name |-> r.name, owner |-> r.acct, meta |-> r.meta]
Offers == {Offer(r) : r \in Enabled}

(* To routing, however many steps a command takes and wherever it fails, the *)
(* registry is a catalogue: a listing changes what its own source offers, in *)
(* one step and nothing else, and a disconnect takes away what its account   *)
(* was the first to name.                                                    *)
C == INSTANCE Catalogue WITH
       Keys <- Providers \cup {Canon[u] : u \in Urls}, sources <- Sources, offers <- Offers
ImplementsCatalogue == C!Spec

(* A sync that ran to its end has re-validated the account: it is active.    *)
SyncRevalidates ==
  [][\A p \in Procs : SyncTouch(p) => accounts'[op[p].acct].status = "active"]_vars
=============================================================================
