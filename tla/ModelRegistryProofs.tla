------------------------ MODULE ModelRegistryProofs ------------------------
(* Proofs about ModelRegistry, for every number of processes, accounts,      *)
(* sources and models.                                                       *)
EXTENDS ModelRegistry, WellFoundedInduction, TLAPS

USE DEF Id, At, Starts, Stop, Goto

-----------------------------------------------------------------------------
(* Lemmas about the helpers.                                                 *)

(* A non-empty set of numbers has a least element.                           *)
LEMMA Minimum ==
  ASSUME NEW T \in SUBSET Nat, T # {}
  PROVE  \E x \in T : \A y \in T : x <= y
<1> DEFINE Less == {s \in Nat \X Nat : s[1] < s[2]}
<1>1. IsWellFoundedOn(Less, Nat)
  BY NatLessThanWellFounded DEF OpToRel
<1>2. PICK x \in T : \A y \in T : <<y, x>> \notin Less
  <2> HIDE DEF Less
  <2> QED BY <1>1, WFMin
<1>3. \A y \in T : ~ (y < x)
  BY <1>2
<1> QED
  BY <1>3

(* The row an upsert updates is one of the rows it matched.                  *)
LEMMA FirstIsMember ==
  ASSUME NEW S \in SUBSET Row, S # {}
  PROVE  First(S) \in S
<1> DEFINE Seqs == {r.seq : r \in S}
<1>1. Seqs \in SUBSET Nat /\ Seqs # {}
  BY DEF Row
<1>2. PICK x \in Seqs : \A y \in Seqs : x <= y
  <2> HIDE DEF Seqs
  <2> QED BY <1>1, Minimum
<1>3. \E r \in S : \A q \in S : r.seq <= q.seq
  BY <1>2
<1> QED
  BY <1>3 DEF First

(* The empty listing, with which every operation starts.                     *)
LEMMA EmptyListing == <<>> \in Listings /\ DOMAIN <<>> = {}
<1>1. <<>> \in [{} -> Metas] /\ DOMAIN <<>> = {}
  OBVIOUS
<1> QED
  BY <1>1 DEF Listings

-----------------------------------------------------------------------------
(* Type correctness. Inductive once the unit of work of an upsert is known   *)
(* to be empty before the upsert reads and to name only models of its        *)
(* listing afterwards, and its account to be one that was drawn.             *)

UnitsOfWork ==
  \A p \in Procs : op[p] # Idle =>
    /\ op[p].acct \in used
    /\ op[p].pc \in {"contact", "upsert"} => op[p].fresh = {} /\ op[p].touch = {}
    /\ op[p].act = "disconnect" => op[p].pc = "flush"
    /\ op[p].act # "disconnect" =>
         /\ op[p].fresh \subseteq DOMAIN op[p].list
         /\ \A t \in Nat, n \in Names : <<t, n>> \in op[p].touch => n \in DOMAIN op[p].list

TypeInv == TypeOK /\ UnitsOfWork

(* What a running operation is made of.                                      *)
LEMMA OpTypes ==
  ASSUME TypeOK, NEW p \in Procs, op[p] # Idle
  PROVE  /\ op[p] \in Op
         /\ DOMAIN op[p].list \subseteq Names
         /\ \A n \in DOMAIN op[p].list : op[p].list[n] \in Metas
<1>1. op[p] \in Op
  BY DEF TypeOK
<1>2. PICK S \in SUBSET Names : op[p].list \in [S -> Metas]
  BY <1>1 DEF Op, Listings
<1> QED
  BY <1>1, <1>2

(* The rows an upsert writes are rows.                                       *)
LEMMA WrittenRows ==
  ASSUME TypeInv, NEW p \in Procs, op[p] # Idle, op[p].act # "disconnect"
  PROVE  /\ \A n \in op[p].fresh : NewRow(op[p], n) \in Row
         /\ \A r \in rows : Refreshed(op[p], r) \in Row
<1>1. op[p] \in Op /\ clock \in Nat /\ rows \subseteq Row
  BY OpTypes DEF TypeInv, TypeOK
<1>2. \A n \in op[p].fresh : n \in Names /\ op[p].list[n] \in Metas
  BY OpTypes DEF TypeInv, UnitsOfWork
<1>3. ASSUME NEW r \in rows
      PROVE  Refreshed(op[p], r) \in Row
  <2>1. r \in Row
    BY <1>1
  <2>2. CASE Id(r) \in op[p].touch
    <3>1. op[p].list[r.name] \in Metas
      BY <2>1, <2>2, OpTypes DEF TypeInv, UnitsOfWork, Row
    <3> QED
      BY <2>1, <3>1 DEF Refreshed, Row
  <2> QED
    BY <2>1, <2>2 DEF Refreshed
<1> QED
  BY <1>1, <1>2, <1>3 DEF NewRow, Row, Op

LEMMA TypeInvInit == Init => TypeInv
BY DEF Init, TypeInv, TypeOK, UnitsOfWork, AccountRecord, Row

LEMMA TypeInvStep ==
  ASSUME TypeInv, [Next]_vars
  PROVE  TypeInv'
<1> USE DEF TypeInv
<1>1. ASSUME UNCHANGED vars PROVE TypeInv'
  BY <1>1 DEF vars, TypeOK, UnitsOfWork
<1>2. ASSUME NEW p \in Procs, ConnectStart(p) PROVE TypeInv'
  <2>1. PICK a \in Accounts \ used, q \in Providers, u \in Urls \cup {None} :
          /\ used' = used \cup {a}
          /\ op' = [op EXCEPT ![p] =
                      [pc |-> "contact", act |-> "connect", ref |-> a, acct |-> a,
                       provider |-> q, url |-> u, at |-> clock, list |-> <<>>,
                       fresh |-> {}, touch |-> {}]]
    BY <1>2 DEF ConnectStart
  <2>2. op'[p] \in Op
    BY <2>1, EmptyListing DEF TypeOK, Op, Refs
  <2> QED
    BY <1>2, <2>1, <2>2 DEF ConnectStart, TypeOK, UnitsOfWork
<1>3. ASSUME NEW p \in Procs, ConnectPersist(p) PROVE TypeInv'
  <2>1. PICK l \in Listings : op' = [op EXCEPT ![p] = [op[p] EXCEPT !.pc = "upsert", !.list = l]]
    BY <1>3 DEF ConnectPersist
  <2>2. op[p] \in Op /\ op[p].act = "connect" /\ op[p].pc = "contact"
    BY <1>3, OpTypes DEF ConnectPersist
  <2>3. op'[p] \in Op
    BY <2>1, <2>2 DEF TypeOK, Op
  <2>4. op[p].acct \in used /\ op[p].fresh = {} /\ op[p].touch = {}
    BY <1>3, <2>2 DEF ConnectPersist, UnitsOfWork
  <2>5. accounts' \in [Connected \cup {op[p].acct} -> AccountRecord]
    BY <1>3, <2>2 DEF ConnectPersist, TypeOK, Connected, Op, AccountRecord, Statuses
  <2>6. TypeOK'
    BY <1>3, <2>1, <2>3, <2>4, <2>5 DEF ConnectPersist, TypeOK, Connected
  <2>7. UnitsOfWork'
    BY <1>3, <2>1, <2>2, <2>4 DEF ConnectPersist, TypeOK, UnitsOfWork, Op
  <2> QED
    BY <2>6, <2>7
<1>4. ASSUME NEW p \in Procs, SyncStart(p) PROVE TypeInv'
  <2>1. PICK ref \in Refs, a \in Connected :
          op' = [op EXCEPT ![p] =
                  [pc |-> "contact", act |-> "sync", ref |-> ref, acct |-> a,
                   provider |-> accounts[a].provider, url |-> accounts[a].url,
                   at |-> 0, list |-> <<>>, fresh |-> {}, touch |-> {}]]
    BY <1>4 DEF SyncStart
  <2>2. op'[p] \in Op
    BY <2>1, EmptyListing DEF TypeOK, Op, Connected, AccountRecord
  <2> QED
    BY <1>4, <2>1, <2>2 DEF SyncStart, TypeOK, UnitsOfWork, Connected
<1>5. ASSUME NEW p \in Procs, SyncInvalid(p) PROVE TypeInv'
  <2>1. accounts' \in [Connected -> AccountRecord]
    BY <1>5 DEF SyncInvalid, TypeOK, Connected, AccountRecord, Statuses
  <2> QED
    BY <1>5, <2>1 DEF SyncInvalid, TypeOK, UnitsOfWork, Connected
<1>6. ASSUME NEW p \in Procs, SyncDiscover(p) PROVE TypeInv'
  <2>1. PICK l \in Listings :
          op' = [op EXCEPT ![p] = [op[p] EXCEPT !.pc = "upsert", !.list = l, !.at = clock]]
    BY <1>6 DEF SyncDiscover
  <2>2. op[p] \in Op
    BY <1>6, OpTypes DEF SyncDiscover
  <2>3. op'[p] \in Op
    BY <2>1, <2>2 DEF TypeOK, Op
  <2>4. op[p].fresh = {} /\ op[p].touch = {}
    BY <1>6, <2>2 DEF SyncDiscover, UnitsOfWork
  <2> QED
    BY <1>6, <2>1, <2>3, <2>4 DEF SyncDiscover, TypeOK, UnitsOfWork
<1>7. ASSUME NEW p \in Procs, SyncTouch(p) PROVE TypeInv'
  <2>1. accounts' \in [Connected -> AccountRecord]
    BY <1>7, OpTypes DEF SyncTouch, Synced, TypeOK, Connected, AccountRecord, Op
  <2> QED
    BY <1>7, <2>1 DEF SyncTouch, TypeOK, UnitsOfWork, Connected
<1>8. ASSUME NEW p \in Procs, UpsertRead(p) PROVE TypeInv'
  <2> DEFINE l == op[p].list
             found == {n \in DOMAIN l : Matches(p, n) # {}}
             touched == {Id(First(Matches(p, n))) :
                           n \in {n \in found : First(Matches(p, n)).meta # l[n]}}
  <2>1. op' = [op EXCEPT ![p] = [op[p] EXCEPT !.pc = "flush", !.fresh = DOMAIN l \ found,
                                              !.touch = touched]]
    BY <1>8 DEF UpsertRead
  <2>2. op[p] \in Op
    BY <1>8, OpTypes DEF UpsertRead
  <2>3. ASSUME NEW n \in found
        PROVE  Id(First(Matches(p, n))) \in Nat \X Names /\ First(Matches(p, n)).name = n
    <3>1. First(Matches(p, n)) \in Matches(p, n)
      BY FirstIsMember DEF Matches, TypeOK
    <3> QED
      BY <3>1 DEF Matches, TypeOK, Row
  <2>4. touched \in SUBSET (Nat \X Names)
    BY <2>3
  <2>5. \A t \in Nat, n \in Names : <<t, n>> \in touched => n \in DOMAIN l
    BY <2>3
  <2>6. DOMAIN l \subseteq Names
    BY <1>8, OpTypes DEF UpsertRead
  <2> HIDE DEF touched, found, l
  <2>7. op'[p] \in Op
    BY <2>1, <2>2, <2>4, <2>6 DEF TypeOK, Op
  <2>8. /\ op'[p].list = l /\ op'[p].fresh = DOMAIN l \ found /\ op'[p].touch = touched
        /\ op'[p].acct = op[p].acct /\ op'[p].pc = "flush"
    BY <2>1, <2>2 DEF TypeOK, Op, l
  <2>9. UNCHANGED <<accounts, rows, used, clock>>
    BY <1>8 DEF UpsertRead
  <2>10. \A q \in Procs \ {p} : op'[q] = op[q]
    BY <2>1 DEF TypeOK
  <2>11. TypeOK'
    BY <2>1, <2>7, <2>9 DEF TypeOK
  <2>12. op[p] # Idle /\ op[p].pc = "upsert" /\ op[p].acct \in used
         /\ op[p].act # "disconnect"
    BY <1>8 DEF UpsertRead, UnitsOfWork, Idle
  <2>13. op'[p].act # "disconnect"
    BY <2>1, <2>2, <2>12 DEF TypeOK, Op
  <2>14. UnitsOfWork'
    BY <2>5, <2>8, <2>9, <2>10, <2>12, <2>13 DEF UnitsOfWork
  <2> QED
    BY <2>11, <2>14
<1>9. ASSUME NEW p \in Procs, UpsertCommit(p) PROVE TypeInv'
  <2>1. op[p] # Idle /\ op[p].act # "disconnect"
    BY <1>9 DEF UpsertCommit
  <2>2. rows' \subseteq Row
    BY <1>9, <2>1, WrittenRows DEF UpsertCommit
  <2>3. op' \in [Procs -> Op \cup {Idle}]
    BY <1>9, <2>1, OpTypes DEF UpsertCommit, TypeOK, Op
  <2>4. UnitsOfWork'
    BY <1>9, <2>1, OpTypes DEF UpsertCommit, TypeOK, UnitsOfWork, Op
  <2> QED
    BY <1>9, <2>2, <2>3, <2>4 DEF UpsertCommit, TypeOK
<1>10. ASSUME NEW p \in Procs, DisconnectRead(p) PROVE TypeInv'
  <2>1. PICK ref \in Refs, a \in Connected :
          op' = [op EXCEPT ![p] =
                  [pc |-> "flush", act |-> "disconnect", ref |-> ref, acct |-> a,
                   provider |-> accounts[a].provider, url |-> accounts[a].url,
                   at |-> 0, list |-> <<>>, fresh |-> {},
                   touch |-> {Id(r) : r \in OwnedRows(a)}]]
    BY <1>10 DEF DisconnectRead
  <2>2. {Id(r) : r \in OwnedRows(a)} \in SUBSET (Nat \X Names)
    BY DEF OwnedRows, TypeOK, Row
  <2>3. op'[p] \in Op
    BY <2>1, <2>2, EmptyListing DEF TypeOK, Op, Connected, AccountRecord
  <2> QED
    BY <1>10, <2>1, <2>3 DEF DisconnectRead, TypeOK, UnitsOfWork, Connected
<1>11. ASSUME NEW p \in Procs, DisconnectCommit(p) PROVE TypeInv'
  <2>1. accounts' \in [Connected \ {op[p].acct} -> AccountRecord]
    BY <1>11 DEF DisconnectCommit, TypeOK, Connected
  <2> QED
    BY <1>11, <2>1 DEF DisconnectCommit, TypeOK, UnitsOfWork, Connected
<1>12. ASSUME NEW p \in Procs, Abandon(p) PROVE TypeInv'
  BY <1>12 DEF Abandon, TypeOK, UnitsOfWork
<1> QED
  BY <1>1, <1>2, <1>3, <1>4, <1>5, <1>6, <1>7, <1>8, <1>9, <1>10, <1>11, <1>12
     DEF Next, Step
(* TypeOK holds of every reachable state.                                    *)
THEOREM TypeCorrect == Spec => []TypeOK
<1>1. Init => TypeInv
  BY TypeInvInit
<1>2. TypeInv /\ [Next]_vars => TypeInv'
  BY TypeInvStep
<1>3. TypeInv => TypeOK
  BY DEF TypeInv
<1> QED
  BY <1>1, <1>2, <1>3, PTL DEF Spec

-----------------------------------------------------------------------------
(* A key is only ever used with the provider it belongs to. A uuid has one   *)
(* provider in all the places where it occurs: the accounts table, the       *)
(* sessions of the running operations, the rows they have written.           *)

(* An update keeps everything of a row but what the listing says.            *)
LEMMA RefreshedKeeps ==
  ASSUME NEW o, NEW r \in Row
  PROVE  /\ Refreshed(o, r).acct = r.acct
         /\ Refreshed(o, r).provider = r.provider
         /\ Refreshed(o, r).name = r.name
         /\ Refreshed(o, r).at = r.at
BY DEF Refreshed, Row

(* The rows after an upsert: those of before, refreshed, and the new ones.   *)
LEMMA UpsertRows ==
  ASSUME TypeInv, NEW p \in Procs, UpsertCommit(p), NEW q \in rows'
  PROVE  \/ \E r \in rows : /\ q = Refreshed(op[p], r)
                            /\ q.acct = r.acct /\ q.provider = r.provider
                            /\ q.name = r.name /\ q.at = r.at
         \/ \E n \in op[p].fresh : /\ q = NewRow(op[p], n)
                                   /\ q.acct = op[p].ref /\ q.provider = op[p].provider
                                   /\ q.name = n /\ q.at = op[p].at
BY RefreshedKeeps DEF TypeInv, TypeOK, UpsertCommit, NewRow

OneProvider ==
  /\ \A r \in rows : r.acct \in Accounts => r.acct \in used
  /\ \A p \in Procs : op[p] # Idle =>
       /\ op[p].ref \in Accounts => op[p].ref = op[p].acct
       /\ op[p].acct \in Connected => accounts[op[p].acct].provider = op[p].provider
       /\ \A r \in rows : r.acct = op[p].acct => r.provider = op[p].provider
       /\ \A q \in Procs : op[q] # Idle /\ op[q].acct = op[p].acct
                              => op[q].provider = op[p].provider
  /\ OwnerProviderAgrees

(* An id resolves to the account it names, or to one it abbreviates.         *)
LEMMA ResolvedId ==
  ASSUME NEW ref \in Accounts, NEW a, Resolve(ref) = {a}
  PROVE  ref = a
BY ShortsAssumption DEF Resolve

LEMMA OneProviderStep ==
  ASSUME TypeInv, OneProvider, [Next]_vars
  PROVE  OneProvider'
<1> USE DEF OneProvider, OwnerProviderAgrees
<1>1. ASSUME UNCHANGED vars PROVE OneProvider'
  BY <1>1 DEF vars, Connected
<1>2. ASSUME NEW p \in Procs, ConnectStart(p) PROVE OneProvider'
  <2>1. PICK a \in Accounts \ used, q \in Providers, u \in Urls \cup {None} :
          /\ used' = used \cup {a}
          /\ op' = [op EXCEPT ![p] =
                      [pc |-> "contact", act |-> "connect", ref |-> a, acct |-> a,
                       provider |-> q, url |-> u, at |-> clock, list |-> <<>>,
                       fresh |-> {}, touch |-> {}]]
    BY <1>2 DEF ConnectStart
  <2>2. a \notin Connected /\ \A r \in rows : r.acct # a
    BY DEF TypeInv, TypeOK, Connected
  <2>3. \A q2 \in Procs : op[q2] # Idle => op[q2].acct # a
    BY DEF TypeInv, UnitsOfWork
  <2> QED
    BY <1>2, <2>1, <2>2, <2>3 DEF ConnectStart, TypeInv, TypeOK, Connected
<1>3. ASSUME NEW p \in Procs, ConnectPersist(p) PROVE OneProvider'
  <2>1. op[p] # Idle /\ op[p] \in Op
    BY <1>3, OpTypes DEF ConnectPersist, TypeInv
  <2>2. PICK l \in Listings : op' = [op EXCEPT ![p] = [op[p] EXCEPT !.pc = "upsert", !.list = l]]
    BY <1>3 DEF ConnectPersist
  <2>3. \A q \in Procs : /\ op'[q] # Idle => op[q] # Idle
                         /\ op[q] # Idle => /\ op'[q].ref = op[q].ref
                                            /\ op'[q].acct = op[q].acct
                                            /\ op'[q].provider = op[q].provider
    BY <2>1, <2>2 DEF TypeInv, TypeOK, Op
  <2>4. /\ Connected' = Connected \cup {op[p].acct}
        /\ accounts'[op[p].acct].provider = op[p].provider
        /\ \A a \in Connected \ {op[p].acct} : accounts'[a] = accounts[a]
    BY <1>3 DEF ConnectPersist, Connected
  <2> QED
    BY <1>3, <2>1, <2>3, <2>4 DEF ConnectPersist
<1>4. ASSUME NEW p \in Procs, SyncStart(p) PROVE OneProvider'
  <2>1. PICK ref \in Refs, a \in Connected :
          /\ Resolve(ref) = {a}
          /\ op' = [op EXCEPT ![p] =
                  [pc |-> "contact", act |-> "sync", ref |-> ref, acct |-> a,
                   provider |-> accounts[a].provider, url |-> accounts[a].url,
                   at |-> 0, list |-> <<>>, fresh |-> {}, touch |-> {}]]
    BY <1>4 DEF SyncStart
  <2>2. ref \in Accounts => ref = a
    BY <2>1, ResolvedId
  <2> QED
    BY <1>4, <2>1, <2>2 DEF SyncStart, TypeInv, TypeOK, Connected
<1>5. ASSUME NEW p \in Procs, SyncInvalid(p) PROVE OneProvider'
  <2>1. Connected' = Connected /\ \A a \in Connected : accounts'[a].provider = accounts[a].provider
    BY <1>5 DEF SyncInvalid, Connected, TypeInv, TypeOK, AccountRecord
  <2> QED
    BY <1>5, <2>1 DEF SyncInvalid, TypeInv, TypeOK
<1>6. ASSUME NEW p \in Procs, SyncDiscover(p) PROVE OneProvider'
  BY <1>6, OpTypes DEF SyncDiscover, TypeInv, TypeOK, Op, Connected
<1>7. ASSUME NEW p \in Procs, SyncTouch(p) PROVE OneProvider'
  <2>1. Connected' = Connected /\ \A a \in Connected : accounts'[a].provider = accounts[a].provider
    BY <1>7 DEF SyncTouch, Synced, Connected, TypeInv, TypeOK, AccountRecord
  <2> QED
    BY <1>7, <2>1 DEF SyncTouch, TypeInv, TypeOK
<1>8. ASSUME NEW p \in Procs, UpsertRead(p) PROVE OneProvider'
  <2>1. op[p] # Idle /\ op[p] \in Op /\ UNCHANGED <<accounts, rows, used, clock>>
    BY <1>8, OpTypes DEF UpsertRead, TypeInv
  <2>2. PICK f, t : op' = [op EXCEPT ![p] = [op[p] EXCEPT !.pc = "flush", !.fresh = f, !.touch = t]]
    BY <1>8 DEF UpsertRead
  <2>3. \A q \in Procs : /\ op'[q] # Idle => op[q] # Idle
                         /\ op[q] # Idle => /\ op'[q].ref = op[q].ref
                                            /\ op'[q].acct = op[q].acct
                                            /\ op'[q].provider = op[q].provider
    BY <2>1, <2>2 DEF TypeInv, TypeOK, Op
  <2> QED
    BY <2>1, <2>3 DEF Connected
<1>9. ASSUME NEW p \in Procs, UpsertCommit(p) PROVE OneProvider'
  <2>1. op[p] # Idle /\ op[p] \in Op /\ UNCHANGED <<accounts, used>>
    BY <1>9, OpTypes DEF UpsertCommit, TypeInv
  <2>2. \A q \in Procs : /\ op'[q] # Idle => op[q] # Idle
                         /\ op'[q] # Idle => /\ op'[q].ref = op[q].ref
                                            /\ op'[q].acct = op[q].acct
                                            /\ op'[q].provider = op[q].provider
    <3>1. \/ op' = [op EXCEPT ![p] = Idle]
          \/ op' = [op EXCEPT ![p] = [op[p] EXCEPT !.pc = "touch"]]
      BY <1>9 DEF UpsertCommit
    <3> QED
      BY <2>1, <3>1 DEF TypeInv, TypeOK, Op
  <2>3. ASSUME NEW q \in rows'
        PROVE  \/ \E r \in rows : q.acct = r.acct /\ q.provider = r.provider
               \/ q.acct = op[p].ref /\ q.provider = op[p].provider
    BY <1>9, UpsertRows
  <2>4. op[p].acct \in used
    BY <2>1 DEF TypeInv, UnitsOfWork
  <2>5. \A q \in rows' : q.acct \in Accounts /\ q.acct = op[p].ref
                           => q.acct = op[p].acct
    BY <2>1
  <2>6. op[p].acct \in Accounts /\ Connected \subseteq Accounts
    BY <2>1 DEF Op, TypeInv, TypeOK, Connected
  <2>7. \A q \in Procs : op[q] # Idle => op[q].acct \in Accounts
    BY OpTypes DEF TypeInv, Op
  <2> QED
    BY <2>1, <2>2, <2>3, <2>4, <2>5, <2>6, <2>7 DEF Connected
<1>10. ASSUME NEW p \in Procs, DisconnectRead(p) PROVE OneProvider'
  <2>1. PICK ref \in Refs, a \in Connected :
          /\ Resolve(ref) = {a}
          /\ op' = [op EXCEPT ![p] =
                  [pc |-> "flush", act |-> "disconnect", ref |-> ref, acct |-> a,
                   provider |-> accounts[a].provider, url |-> accounts[a].url,
                   at |-> 0, list |-> <<>>, fresh |-> {},
                   touch |-> {Id(r) : r \in OwnedRows(a)}]]
    BY <1>10 DEF DisconnectRead
  <2>2. ref \in Accounts => ref = a
    BY <2>1, ResolvedId
  <2> QED
    BY <1>10, <2>1, <2>2 DEF DisconnectRead, TypeInv, TypeOK, Connected
<1>11. ASSUME NEW p \in Procs, DisconnectCommit(p) PROVE OneProvider'
  BY <1>11 DEF DisconnectCommit, TypeInv, TypeOK, Connected
<1>12. ASSUME NEW p \in Procs, Abandon(p) PROVE OneProvider'
  BY <1>12 DEF Abandon, TypeInv, TypeOK, Connected
<1> QED
  BY <1>1, <1>2, <1>3, <1>4, <1>5, <1>6, <1>7, <1>8, <1>9, <1>10, <1>11, <1>12
     DEF Next, Step

(* A row whose owner is connected names the owner's provider, whatever the   *)
(* processes interleave and whichever ids the users type.                    *)
THEOREM OwnerProvider == Spec => []OwnerProviderAgrees
<1>1. Init => OneProvider
  BY DEF Init, OneProvider, OwnerProviderAgrees, Connected
<1>2. TypeInv /\ OneProvider /\ [Next]_vars => OneProvider'
  BY OneProviderStep
<1>3. OneProvider => OwnerProviderAgrees
  BY DEF OneProvider
<1> QED
  BY <1>1, <1>2, <1>3, TypeInvInit, TypeInvStep, PTL DEF Spec

-----------------------------------------------------------------------------
(* Ids and owners of rows over time. An id is a time somebody took, and two  *)
(* running operations never hold the same time; what a disconnect collected  *)
(* belongs to its account.                                                   *)

WillInsert(o) ==
  /\ o # Idle
  /\ \/ o.act = "connect"
     \/ (o.act = "sync" /\ o.pc \in {"upsert", "flush"})
WillDelete(o) == o # Idle /\ o.act = "disconnect"

FreshIds ==
  /\ \A r \in rows : r.at < clock
  /\ \A r, q \in rows : Id(r) = Id(q) => r = q
  /\ \A p \in Procs : WillInsert(op[p]) =>
       /\ op[p].at < clock
       /\ \A r \in rows : r.at # op[p].at
       /\ \A q \in Procs : WillInsert(op[q]) /\ op[q].at = op[p].at => q = p

Collected ==
  \A p \in Procs : WillDelete(op[p]) => \A t \in Nat, n \in Names :
    <<t, n>> \in op[p].touch =>
      /\ t < clock
      /\ \A q \in Procs : WillInsert(op[q]) => op[q].at # t
      /\ \A r \in rows : Id(r) = <<t, n>> => r.acct = op[p].acct

LEMMA FreshIdsStep ==
  ASSUME TypeInv, FreshIds, [Next]_vars
  PROVE  FreshIds'
<1> USE DEF FreshIds, WillInsert
<1>1. ASSUME UNCHANGED vars PROVE FreshIds'
  BY <1>1 DEF vars
<1>2. ASSUME NEW p \in Procs, ConnectStart(p) PROVE FreshIds'
  <2>1. \E a, q, u :
          op' = [op EXCEPT ![p] =
                  [pc |-> "contact", act |-> "connect", ref |-> a, acct |-> a,
                   provider |-> q, url |-> u, at |-> clock, list |-> <<>>,
                   fresh |-> {}, touch |-> {}]]
    BY <1>2 DEF ConnectStart
  <2>2. op'[p].at = clock /\ \A q \in Procs \ {p} : op'[q] = op[q]
    BY <2>1 DEF TypeInv, TypeOK
  <2>3. clock' = clock + 1 /\ UNCHANGED rows
    BY <1>2 DEF ConnectStart
  <2>4. clock \in Nat /\ \A r \in rows : r.at \in Nat
    BY DEF TypeInv, TypeOK, Row
  <2>5. \A q \in Procs \ {p} : WillInsert(op'[q]) => op'[q].at < clock /\ op'[q].at \in Nat
    BY <2>2, OpTypes DEF TypeInv, Op
  <2>6. \A r \in rows' : r.at < clock'
    BY <2>3, <2>4
  <2>7. \A q \in Procs : WillInsert(op'[q]) =>
          op'[q].at < clock' /\ \A r \in rows' : r.at # op'[q].at
    BY <2>2, <2>3, <2>4, <2>5
  <2> QED
    BY <2>2, <2>3, <2>4, <2>5, <2>6, <2>7
<1>3. ASSUME NEW p \in Procs, ConnectPersist(p) PROVE FreshIds'
  <2>1. op[p] # Idle /\ op[p] \in Op /\ op[p].act = "connect" /\ UNCHANGED <<rows, clock>>
    BY <1>3, OpTypes DEF ConnectPersist, TypeInv
  <2>2. PICK l \in Listings : op' = [op EXCEPT ![p] = [op[p] EXCEPT !.pc = "upsert", !.list = l]]
    BY <1>3 DEF ConnectPersist
  <2>3. \A q \in Procs : /\ WillInsert(op'[q]) => WillInsert(op[q])
                         /\ op[q] # Idle => op'[q].at = op[q].at
    <3>1. op'[p].at = op[p].at /\ \A q \in Procs \ {p} : op'[q] = op[q]
      BY <2>1, <2>2 DEF TypeInv, TypeOK, Op
    <3> QED
      BY <2>1, <3>1
  <2> QED
    BY <2>1, <2>3
<1>4. ASSUME NEW p \in Procs, SyncStart(p) PROVE FreshIds'
  BY <1>4 DEF SyncStart, TypeInv, TypeOK
<1>5. ASSUME NEW p \in Procs, SyncInvalid(p) PROVE FreshIds'
  BY <1>5 DEF SyncInvalid, TypeInv, TypeOK
<1>6. ASSUME NEW p \in Procs, SyncDiscover(p) PROVE FreshIds'
  <2>1. op[p] # Idle /\ op[p] \in Op /\ clock' = clock + 1 /\ UNCHANGED rows
    BY <1>6, OpTypes DEF SyncDiscover, TypeInv
  <2>2. PICK l \in Listings :
          op' = [op EXCEPT ![p] = [op[p] EXCEPT !.pc = "upsert", !.list = l, !.at = clock]]
    BY <1>6 DEF SyncDiscover
  <2>3. op'[p].at = clock /\ \A q \in Procs \ {p} : op'[q] = op[q]
    BY <2>1, <2>2 DEF TypeInv, TypeOK, Op
  <2> QED
    BY <2>1, <2>3 DEF TypeInv, TypeOK, Op, Row
<1>7. ASSUME NEW p \in Procs, SyncTouch(p) PROVE FreshIds'
  BY <1>7 DEF SyncTouch, TypeInv, TypeOK
<1>8. ASSUME NEW p \in Procs, UpsertRead(p) PROVE FreshIds'
  <2>1. op[p] # Idle /\ op[p] \in Op /\ UNCHANGED <<accounts, rows, used, clock>>
    BY <1>8, OpTypes DEF UpsertRead, TypeInv
  <2>2. PICK f, t : op' = [op EXCEPT ![p] = [op[p] EXCEPT !.pc = "flush", !.fresh = f, !.touch = t]]
    BY <1>8 DEF UpsertRead
  <2>3. op[p].pc = "upsert"
    BY <1>8 DEF UpsertRead
  <2>4. \A q \in Procs : /\ WillInsert(op'[q]) => WillInsert(op[q])
                         /\ op[q] # Idle => op'[q].at = op[q].at
    BY <2>1, <2>2, <2>3 DEF TypeInv, TypeOK, Op
  <2> QED
    BY <2>1, <2>4
<1>9. ASSUME NEW p \in Procs, UpsertCommit(p) PROVE FreshIds'
  <2>1. op[p] # Idle /\ op[p] \in Op /\ WillInsert(op[p]) /\ clock' = clock + 1
    BY <1>9, OpTypes DEF UpsertCommit, TypeInv, Op
  <2>2. \A q \in Procs : WillInsert(op'[q]) => q # p /\ op'[q] = op[q]
    <3>1. \/ op' = [op EXCEPT ![p] = Idle]
          \/ op' = [op EXCEPT ![p] = [op[p] EXCEPT !.pc = "touch"]]
               /\ op[p].act # "connect"
      BY <1>9 DEF UpsertCommit
    <3> QED
      BY <2>1, <3>1 DEF TypeInv, TypeOK, Op
  <2>3. ASSUME NEW q \in rows'
        PROVE  \/ \E r \in rows : q = Refreshed(op[p], r) /\ Id(q) = Id(r) /\ q.at = r.at
               \/ \E n \in op[p].fresh : q = NewRow(op[p], n) /\ q.at = op[p].at /\ q.name = n
    BY <1>9, UpsertRows
  <2>4. \A q \in rows' : q.at < clock'
    BY <2>1, <2>3 DEF TypeInv, TypeOK, Op, Row
  <2>5. \A r, q \in rows' : Id(r) = Id(q) => r = q
    BY <2>1, <2>3
  <2> QED
    BY <2>1, <2>2, <2>3, <2>4, <2>5 DEF TypeInv, TypeOK, Op
<1>10. ASSUME NEW p \in Procs, DisconnectRead(p) PROVE FreshIds'
  BY <1>10 DEF DisconnectRead, TypeInv, TypeOK
<1>11. ASSUME NEW p \in Procs, DisconnectCommit(p) PROVE FreshIds'
  BY <1>11 DEF DisconnectCommit, TypeInv, TypeOK
<1>12. ASSUME NEW p \in Procs, Abandon(p) PROVE FreshIds'
  BY <1>12 DEF Abandon, TypeInv, TypeOK
<1> QED
  BY <1>1, <1>2, <1>3, <1>4, <1>5, <1>6, <1>7, <1>8, <1>9, <1>10, <1>11, <1>12
     DEF Next, Step

LEMMA CollectedStep ==
  ASSUME TypeInv, FreshIds, Collected, [Next]_vars
  PROVE  Collected'
<1> USE DEF Collected, WillDelete, WillInsert
<1>1. ASSUME UNCHANGED vars PROVE Collected'
  BY <1>1 DEF vars
<1>2. ASSUME NEW p \in Procs, ConnectStart(p) PROVE Collected'
  BY <1>2 DEF ConnectStart, TypeInv, TypeOK
<1>3. ASSUME NEW p \in Procs, ConnectPersist(p) PROVE Collected'
  <2>1. op[p] # Idle /\ op[p] \in Op /\ op[p].act = "connect" /\ UNCHANGED <<rows, clock>>
    BY <1>3, OpTypes DEF ConnectPersist, TypeInv
  <2>2. PICK l \in Listings : op' = [op EXCEPT ![p] = [op[p] EXCEPT !.pc = "upsert", !.list = l]]
    BY <1>3 DEF ConnectPersist
  <2>3. \A q \in Procs : /\ WillInsert(op'[q]) => WillInsert(op[q]) /\ op'[q].at = op[q].at
                         /\ WillDelete(op'[q]) => op'[q] = op[q]
    <3>1. /\ op'[p].at = op[p].at /\ op'[p].act = "connect"
          /\ \A q \in Procs \ {p} : op'[q] = op[q]
      BY <2>1, <2>2 DEF TypeInv, TypeOK, Op
    <3> QED
      BY <2>1, <3>1
  <2> QED
    BY <2>1, <2>3
<1>4. ASSUME NEW p \in Procs, SyncStart(p) PROVE Collected'
  BY <1>4 DEF SyncStart, TypeInv, TypeOK
<1>5. ASSUME NEW p \in Procs, SyncInvalid(p) PROVE Collected'
  BY <1>5 DEF SyncInvalid, TypeInv, TypeOK
<1>6. ASSUME NEW p \in Procs, SyncDiscover(p) PROVE Collected'
  <2>1. op[p] # Idle /\ op[p] \in Op /\ clock' = clock + 1 /\ UNCHANGED rows
    BY <1>6, OpTypes DEF SyncDiscover, TypeInv
  <2>2. PICK l \in Listings :
          op' = [op EXCEPT ![p] = [op[p] EXCEPT !.pc = "upsert", !.list = l, !.at = clock]]
    BY <1>6 DEF SyncDiscover
  <2>3. op'[p].at = clock /\ op'[p].act = "sync" /\ \A q \in Procs \ {p} : op'[q] = op[q]
    BY <1>6, <2>1, <2>2 DEF SyncDiscover, TypeInv, TypeOK, Op
  <2> QED
    BY <2>1, <2>3 DEF TypeInv, TypeOK, Op
<1>7. ASSUME NEW p \in Procs, SyncTouch(p) PROVE Collected'
  BY <1>7 DEF SyncTouch, TypeInv, TypeOK
<1>8. ASSUME NEW p \in Procs, UpsertRead(p) PROVE Collected'
  <2>1. op[p] # Idle /\ op[p] \in Op /\ UNCHANGED <<accounts, rows, used, clock>>
    BY <1>8, OpTypes DEF UpsertRead, TypeInv
  <2>2. PICK f, t : op' = [op EXCEPT ![p] = [op[p] EXCEPT !.pc = "flush", !.fresh = f, !.touch = t]]
    BY <1>8 DEF UpsertRead
  <2>3. op[p].pc = "upsert"
    BY <1>8 DEF UpsertRead
  <2>4. \A q \in Procs : /\ WillInsert(op'[q]) => WillInsert(op[q]) /\ op'[q].at = op[q].at
                         /\ q # p => op'[q] = op[q]
    BY <2>1, <2>2, <2>3 DEF TypeInv, TypeOK, Op
  <2>5. op[p].act # "disconnect"
    BY <2>1, <2>3 DEF TypeInv, UnitsOfWork
  <2>6. op'[p].act = op[p].act
    BY <2>1, <2>2 DEF TypeInv, TypeOK, Op
  <2> QED
    BY <2>1, <2>4, <2>5, <2>6
<1>9. ASSUME NEW p \in Procs, UpsertCommit(p) PROVE Collected'
  <2>1. op[p] # Idle /\ op[p] \in Op /\ WillInsert(op[p]) /\ clock' = clock + 1
    BY <1>9, OpTypes DEF UpsertCommit, TypeInv, Op
  <2>2. \A q \in Procs : WillInsert(op'[q]) \/ WillDelete(op'[q]) => q # p /\ op'[q] = op[q]
    <3>1. \/ op' = [op EXCEPT ![p] = Idle]
          \/ op' = [op EXCEPT ![p] = [op[p] EXCEPT !.pc = "touch"]]
               /\ op[p].act # "connect"
      BY <1>9 DEF UpsertCommit
    <3> QED
      BY <1>9, <2>1, <3>1 DEF UpsertCommit, TypeInv, TypeOK, Op
  <2>3. ASSUME NEW q \in rows'
        PROVE  \/ \E r \in rows : Id(q) = Id(r) /\ q.acct = r.acct
               \/ q.at = op[p].at
    BY <1>9, UpsertRows
  <2> QED
    BY <2>1, <2>2, <2>3 DEF TypeInv, TypeOK
<1>10. ASSUME NEW p \in Procs, DisconnectRead(p) PROVE Collected'
  <2>1. PICK ref \in Refs, a \in Connected :
          op' = [op EXCEPT ![p] =
                  [pc |-> "flush", act |-> "disconnect", ref |-> ref, acct |-> a,
                   provider |-> accounts[a].provider, url |-> accounts[a].url,
                   at |-> 0, list |-> <<>>, fresh |-> {},
                   touch |-> {Id(r) : r \in OwnedRows(a)}]]
    BY <1>10 DEF DisconnectRead
  <2>2. \A t \in Nat, n \in Names : <<t, n>> \in {Id(r) : r \in OwnedRows(a)} =>
          \E r \in rows : r.at = t /\ Id(r) = <<t, n>> /\ r.acct = a
    BY DEF OwnedRows
  <2>3. UNCHANGED <<rows, clock>>
    BY <1>10 DEF DisconnectRead
  <2>4. /\ op'[p].act = "disconnect" /\ op'[p].acct = a
        /\ op'[p].touch = {Id(r) : r \in OwnedRows(a)}
        /\ \A q \in Procs \ {p} : op'[q] = op[q]
    BY <2>1 DEF TypeInv, TypeOK
  <2>5. \A q \in Procs : WillInsert(op'[q]) => WillInsert(op[q]) /\ op'[q].at = op[q].at
    BY <2>4
  <2>6. \A t \in Nat, n \in Names : <<t, n>> \in op'[p].touch =>
          /\ t < clock
          /\ \A q \in Procs : WillInsert(op[q]) => op[q].at # t
          /\ \A r \in rows : Id(r) = <<t, n>> => r.acct = a
    BY <2>2, <2>4 DEF FreshIds
  <2> QED
    BY <2>3, <2>4, <2>5, <2>6
<1>11. ASSUME NEW p \in Procs, DisconnectCommit(p) PROVE Collected'
  BY <1>11 DEF DisconnectCommit, TypeInv, TypeOK
<1>12. ASSUME NEW p \in Procs, Abandon(p) PROVE Collected'
  BY <1>12 DEF Abandon, TypeInv, TypeOK
<1> QED
  BY <1>1, <1>2, <1>3, <1>4, <1>5, <1>6, <1>7, <1>8, <1>9, <1>10, <1>11, <1>12
     DEF Next, Step

LEMMA InsertInit == Init => FreshIds /\ Collected
BY DEF Init, FreshIds, Collected, WillInsert, WillDelete

(* No upsert moves a row to another owner or renames its provider, however   *)
(* late the reads it is based on.                                            *)
THEOREM RowIdentity == Spec => RowIdentityFixed
<1> DEFINE Same == \A r \in rows, q \in rows' :
                     Id(r) = Id(q) => /\ r.acct = q.acct
                                      /\ r.provider = q.provider
<1>1. ASSUME TypeInv, FreshIds, [Next]_vars PROVE Same
  <2>1. CASE UNCHANGED rows
    BY <1>1, <2>1 DEF FreshIds
  <2>2. ASSUME NEW p \in Procs, UpsertCommit(p) PROVE Same
    <3>1. WillInsert(op[p])
      BY <1>1, <2>2, OpTypes DEF WillInsert, UpsertCommit, TypeInv, Op
    <3>2. ASSUME NEW q \in rows'
          PROVE  \/ \E r \in rows : Id(q) = Id(r) /\ q.acct = r.acct /\ q.provider = r.provider
                 \/ q.at = op[p].at
      BY <1>1, <2>2, UpsertRows
    <3> QED
      BY <1>1, <3>1, <3>2 DEF FreshIds
  <2>3. ASSUME NEW p \in Procs, DisconnectCommit(p) PROVE Same
    BY <1>1, <2>3 DEF FreshIds, DisconnectCommit
  <2> QED
    BY <1>1, <2>1, <2>2, <2>3 DEF Next, Step, vars, ConnectStart, ConnectPersist, SyncStart,
       SyncInvalid, SyncDiscover, SyncTouch, UpsertRead, DisconnectRead, Abandon
<1>2. TypeInv /\ FreshIds /\ [Next]_vars => FreshIds'
  BY FreshIdsStep
<1>3. TypeInv /\ FreshIds /\ [Next]_vars => [Same]_vars
  BY <1>1
<1> HIDE DEF Same
<1>4. Spec => [][Same]_vars
  BY <1>2, <1>3, InsertInit, TypeInvInit, TypeInvStep, PTL DEF Spec
<1> QED
  BY <1>4 DEF Same, RowIdentityFixed

(* A row leaves the registry only if its owner is gone afterwards.           *)
THEOREM RowsLeave == Spec => RowsLeaveWithOwner
<1> DEFINE Owned == \A r \in rows :
                      (\A q \in rows' : Id(q) # Id(r)) => r.acct \notin Connected'
<1>1. ASSUME TypeInv, FreshIds, Collected, [Next]_vars PROVE Owned
  <2>1. CASE UNCHANGED rows
    BY <1>1, <2>1
  <2>2. ASSUME NEW p \in Procs, UpsertCommit(p) PROVE Owned
    <3>1. \A r \in rows : Refreshed(op[p], r) \in rows' /\ Id(Refreshed(op[p], r)) = Id(r)
      BY <1>1, <2>2, RefreshedKeeps DEF UpsertCommit, TypeInv, TypeOK
    <3> QED
      BY <3>1
  <2>3. ASSUME NEW p \in Procs, DisconnectCommit(p) PROVE Owned
    <3>1. WillDelete(op[p])
      BY <2>3 DEF DisconnectCommit, WillDelete
    <3>2. \A r \in rows : Id(r) \in op[p].touch => r.acct = op[p].acct
      BY <1>1, <3>1 DEF Collected, TypeInv, TypeOK, Row
    <3>3. op[p].acct \notin Connected'
      BY <2>3 DEF DisconnectCommit, Connected
    <3> QED
      BY <2>3, <3>2, <3>3 DEF DisconnectCommit
  <2> QED
    BY <1>1, <2>1, <2>2, <2>3 DEF Next, Step, vars, ConnectStart, ConnectPersist, SyncStart,
       SyncInvalid, SyncDiscover, SyncTouch, UpsertRead, DisconnectRead, Abandon
<1>2. TypeInv /\ FreshIds /\ [Next]_vars => FreshIds'
  BY FreshIdsStep
<1>3. TypeInv /\ FreshIds /\ Collected /\ [Next]_vars => Collected'
  BY CollectedStep
<1>4. TypeInv /\ FreshIds /\ Collected /\ [Next]_vars => [Owned]_vars
  BY <1>1
<1> HIDE DEF Owned
<1>5. Spec => [][Owned]_vars
  BY <1>2, <1>3, <1>4, InsertInit, TypeInvInit, TypeInvStep, PTL DEF Spec
<1> QED
  BY <1>5 DEF Owned, RowsLeaveWithOwner

-----------------------------------------------------------------------------
(* Full ids, and operations that overlap are about different sources: the    *)
(* registry is exact.                                                        *)

ToUpsert(o) == o # Idle /\ o.pc = "flush" /\ o.act # "disconnect"
Connecting(o) == o.act = "connect" /\ o.pc = "contact"

(* Nobody else commits to its source, so what a session has read is still    *)
(* so: its account, the identities it found missing, the rows it collected.  *)
SessionOf(p) ==
  /\ op[p].ref = op[p].acct
  /\ IF Connecting(op[p])
     THEN op[p].acct \notin Connected
     ELSE /\ op[p].acct \in Connected
          /\ accounts[op[p].acct].url = op[p].url
          /\ accounts[op[p].acct].provider = op[p].provider
  /\ ToUpsert(op[p]) =>
       \A r \in rows : r.name \in op[p].fresh => KeyOf(r) # KeyOfOp(op[p])
  /\ op[p].act = "disconnect" =>
       \A r \in rows : r.acct = op[p].acct => Id(r) \in op[p].touch

(* No two operations are about one account. *)
OneAtATime ==
  \A p, q \in Procs : op[p] # Idle /\ op[q] # Idle /\ op[p].acct = op[q].acct => p = q

Exact ==
  /\ NoOrphanRows /\ UniqueIdentity
  /\ OneAtATime
  /\ \A p \in Procs : op[p] # Idle => SessionOf(p)

(* What holds however the operations overlap. *)
Base == TypeInv /\ OneProvider /\ FreshIds /\ Collected

(* The source key of an account that both tables hold with the same url.     *)
LEMMA SameKey ==
  ASSUME NEW A, NEW B, NEW a \in DOMAIN A, a \in DOMAIN B, A[a].url = B[a].url, NEW q
  PROVE  SourceKey(A, a, q) = SourceKey(B, a, q)
BY DEF SourceKey

(* Steps that keep the rows and the urls of their owners keep the registry   *)
(* exact.                                                                    *)
LEMMA KeysKept ==
  ASSUME NoOrphanRows, UniqueIdentity, UNCHANGED rows,
         \A r \in rows : r.acct \in Connected' /\ accounts'[r.acct].url = accounts[r.acct].url
  PROVE  /\ NoOrphanRows' /\ UniqueIdentity'
         /\ \A r \in rows : KeyOf(r)' = KeyOf(r)
<1>1. \A r \in rows : SourceKey(accounts', r.acct, r.provider) = SourceKey(accounts, r.acct, r.provider)
  BY SameKey DEF NoOrphanRows, Connected
<1>2. \A r \in rows : KeyOf(r)' = KeyOf(r)
  BY <1>1 DEF KeyOf
<1>3. UniqueIdentity'
  BY <1>1 DEF UniqueIdentity, SameIdentity, KeyOf
<1> QED
  BY <1>2, <1>3 DEF NoOrphanRows

(* The key of a connected account is that of the operation about it, and so  *)
(* is the key of the rows it owns.                                           *)
LEMMA KeyOfSession ==
  ASSUME NEW p \in Procs, op[p] # Idle, SessionOf(p), ~ Connecting(op[p])
  PROVE  /\ SourceKey(accounts, op[p].acct, op[p].provider) = KeyOfOp(op[p])
         /\ OneProvider => \A r \in rows : r.acct = op[p].acct => KeyOf(r) = KeyOfOp(op[p])
<1>1. /\ op[p].acct \in Connected /\ accounts[op[p].acct].url = op[p].url
  BY DEF SessionOf
<1>2. SourceKey(accounts, op[p].acct, op[p].provider) = KeyOfOp(op[p])
  BY <1>1 DEF SourceKey, KeyOfOp, Connected
<1>3. ASSUME OneProvider, NEW r \in rows, r.acct = op[p].acct
      PROVE  KeyOf(r) = KeyOfOp(op[p])
  <2>1. r.provider = op[p].provider
    BY <1>3 DEF OneProvider
  <2> QED
    BY <1>2, <1>3, <2>1 DEF KeyOf
<1> QED
  BY <1>2, <1>3

(* A step of p changes no other operation and no account but p's own.        *)
LEMMA OthersUntouched ==
  ASSUME TypeInv, NEW p \in Procs, Step(p)
  PROVE  /\ \A q \in Procs \ {p} : op'[q] = op[q]
         /\ \A a : op[p] = Idle \/ a # op[p].acct =>
              /\ a \in Connected' <=> a \in Connected
              /\ a \in Connected => accounts'[a] = accounts[a]
<1>1. \A q \in Procs \ {p} : op'[q] = op[q]
  BY DEF TypeInv, TypeOK, Step, ConnectStart, ConnectPersist, SyncStart, SyncInvalid,
     SyncDiscover, SyncTouch, UpsertRead, UpsertCommit, DisconnectRead, DisconnectCommit, Abandon
<1>2. CASE UNCHANGED accounts
  BY <1>1, <1>2 DEF Connected
<1>3. CASE ConnectPersist(p)
  BY <1>1, <1>3 DEF ConnectPersist, Connected
<1>4. CASE SyncInvalid(p)
  BY <1>1, <1>4 DEF SyncInvalid, Connected
<1>5. CASE SyncTouch(p)
  BY <1>1, <1>5 DEF SyncTouch, Connected, TypeInv, TypeOK
<1>6. CASE DisconnectCommit(p)
  BY <1>1, <1>6 DEF DisconnectCommit, Connected
<1> QED
  BY <1>2, <1>3, <1>4, <1>5, <1>6 DEF Step, ConnectStart, SyncStart, SyncDiscover,
     UpsertRead, UpsertCommit, DisconnectRead, Abandon

(* The rows after a step of p: rows of before, or rows p inserts.            *)
LEMMA RowsAfter ==
  ASSUME TypeInv, NEW p \in Procs, Step(p), NEW q \in rows'
  PROVE  \/ \E r \in rows : /\ Id(q) = Id(r) /\ q.acct = r.acct
                            /\ q.provider = r.provider /\ q.name = r.name
         \/ /\ ToUpsert(op[p]) /\ UpsertCommit(p) /\ q.name \in op[p].fresh /\ q.at = op[p].at
            /\ q.acct = op[p].ref /\ q.provider = op[p].provider
<1>1. CASE UpsertCommit(p)
  BY <1>1, UpsertRows DEF UpsertCommit, ToUpsert
<1>2. CASE q \in rows
  BY <1>2
<1> QED
  BY <1>1, <1>2 DEF Step, ConnectStart, ConnectPersist, SyncStart, SyncInvalid,
     SyncDiscover, SyncTouch, UpsertRead, DisconnectRead, DisconnectCommit, Abandon

(* An account that is connected before and after a step keeps its url.       *)
LEMMA UrlsKept ==
  ASSUME TypeInv, Exact, NEW p \in Procs, Step(p), NEW a \in Connected, a \in Connected'
  PROVE  accounts'[a].url = accounts[a].url /\ accounts'[a].provider = accounts[a].provider
<1>1. CASE op[p] = Idle \/ a # op[p].acct
  BY <1>1, OthersUntouched
<1>2. CASE UNCHANGED accounts
  BY <1>2
<1>3. CASE ConnectPersist(p) /\ a = op[p].acct
  BY <1>3 DEF ConnectPersist, Exact, SessionOf, Connecting
<1>4. CASE SyncInvalid(p) \/ SyncTouch(p)
  BY <1>4 DEF SyncInvalid, SyncTouch, Synced, Connected, TypeInv, TypeOK, AccountRecord
<1>5. CASE DisconnectCommit(p) /\ a = op[p].acct
  BY <1>5 DEF DisconnectCommit, Connected
<1> QED
  BY <1>1, <1>2, <1>3, <1>4, <1>5 DEF Step, ConnectStart, SyncStart, SyncDiscover,
     UpsertRead, UpsertCommit, DisconnectRead, Abandon

(* What a step of p does to the registry and to p's own session.             *)
LEMMA OwnStep ==
  ASSUME Shorts = {}, Base, Exact, NEW p \in Procs, Step(p)
  PROVE  /\ NoOrphanRows' /\ UniqueIdentity'
         /\ op'[p] # Idle => SessionOf(p)'
<1> DEFINE Goal == /\ NoOrphanRows' /\ UniqueIdentity'
                   /\ op'[p] # Idle => SessionOf(p)'
<1>0. TypeInv /\ OneProvider
  BY DEF Base
<1>1. op[p] # Idle => SessionOf(p)
  BY DEF Exact
<1>2. ASSUME ConnectStart(p) PROVE Goal
  <2>1. PICK a \in Accounts \ used, q \in Providers, u \in Urls \cup {None} :
          /\ used' = used \cup {a}
          /\ op' = [op EXCEPT ![p] =
                      [pc |-> "contact", act |-> "connect", ref |-> a, acct |-> a,
                       provider |-> q, url |-> u, at |-> clock, list |-> <<>>,
                       fresh |-> {}, touch |-> {}]]
    BY <1>2 DEF ConnectStart
  <2>2. NoOrphanRows' /\ UniqueIdentity'
    BY <1>2, KeysKept DEF ConnectStart, Exact, NoOrphanRows, Connected
  <2>3. /\ op'[p].ref = a /\ op'[p].acct = a /\ op'[p].act = "connect" /\ op'[p].pc = "contact"
        /\ a \notin Connected'
    BY <1>0, <1>2, <2>1 DEF ConnectStart, TypeInv, TypeOK, Connected
  <2> QED
    BY <2>2, <2>3 DEF SessionOf, Connecting, ToUpsert
<1>3. ASSUME ConnectPersist(p) PROVE Goal
  <2>1. /\ op[p] # Idle /\ op[p] \in Op /\ op[p].act = "connect" /\ op[p].pc = "contact"
        /\ UNCHANGED rows
    BY <1>0, <1>3, OpTypes DEF ConnectPersist, TypeInv
  <2>2. PICK l \in Listings : op' = [op EXCEPT ![p] = [op[p] EXCEPT !.pc = "upsert", !.list = l]]
    BY <1>3 DEF ConnectPersist
  <2>3. /\ Connected' = Connected \cup {op[p].acct}
        /\ accounts'[op[p].acct].url = op[p].url
        /\ accounts'[op[p].acct].provider = op[p].provider
        /\ \A a \in Connected \ {op[p].acct} : accounts'[a] = accounts[a]
    BY <1>3 DEF ConnectPersist, Connected
  <2>4. op[p].acct \notin Connected /\ op[p].ref = op[p].acct
    BY <1>1, <2>1 DEF SessionOf, Connecting
  <2>5. NoOrphanRows' /\ UniqueIdentity'
    BY <2>1, <2>3, <2>4, KeysKept DEF Exact, NoOrphanRows
  <2>6. /\ op'[p].ref = op[p].ref /\ op'[p].acct = op[p].acct /\ op'[p].url = op[p].url
        /\ op'[p].provider = op[p].provider /\ op'[p].act = "connect" /\ op'[p].pc = "upsert"
    BY <1>0, <2>1, <2>2 DEF TypeInv, TypeOK, Op
  <2> QED
    BY <2>3, <2>4, <2>5, <2>6 DEF SessionOf, Connecting, ToUpsert
<1>4. ASSUME SyncStart(p) PROVE Goal
  <2>1. PICK ref \in Refs, a \in Connected :
          /\ Resolve(ref) = {a}
          /\ op' = [op EXCEPT ![p] =
                  [pc |-> "contact", act |-> "sync", ref |-> ref, acct |-> a,
                   provider |-> accounts[a].provider, url |-> accounts[a].url,
                   at |-> 0, list |-> <<>>, fresh |-> {}, touch |-> {}]]
    BY <1>4 DEF SyncStart
  <2>2. ref = a
    BY <2>1, ResolvedId DEF Refs
  <2>3. NoOrphanRows' /\ UniqueIdentity' /\ accounts' = accounts
    BY <1>4, KeysKept DEF SyncStart, Exact, NoOrphanRows, Connected
  <2>4. /\ op'[p].ref = a /\ op'[p].acct = a /\ op'[p].url = accounts[a].url
        /\ op'[p].provider = accounts[a].provider
        /\ op'[p].act = "sync" /\ op'[p].pc = "contact"
    BY <1>0, <2>1, <2>2 DEF TypeInv, TypeOK
  <2> QED
    BY <2>1, <2>3, <2>4 DEF SessionOf, Connecting, ToUpsert, Connected
<1>5. ASSUME SyncInvalid(p) \/ SyncTouch(p) PROVE Goal
  <2>1. Connected' = Connected /\ \A a \in Connected : accounts'[a].url = accounts[a].url
    BY <1>0, <1>5 DEF SyncInvalid, SyncTouch, Synced, Connected, TypeInv, TypeOK, AccountRecord
  <2>2. NoOrphanRows' /\ UniqueIdentity'
    BY <1>5, <2>1, KeysKept DEF SyncInvalid, SyncTouch, Exact, NoOrphanRows
  <2>3. op'[p] = Idle
    BY <1>0, <1>5 DEF SyncInvalid, SyncTouch, TypeInv, TypeOK
  <2> QED
    BY <2>2, <2>3
<1>6. ASSUME SyncDiscover(p) PROVE Goal
  <2>1. op[p] # Idle /\ op[p] \in Op /\ op[p].act = "sync" /\ UNCHANGED <<accounts, rows>>
    BY <1>0, <1>6, OpTypes DEF SyncDiscover, TypeInv
  <2>2. PICK l \in Listings :
          op' = [op EXCEPT ![p] = [op[p] EXCEPT !.pc = "upsert", !.list = l, !.at = clock]]
    BY <1>6 DEF SyncDiscover
  <2>3. /\ op'[p].ref = op[p].ref /\ op'[p].acct = op[p].acct /\ op'[p].url = op[p].url
        /\ op'[p].provider = op[p].provider /\ op'[p].act = "sync" /\ op'[p].pc = "upsert"
    BY <1>0, <2>1, <2>2 DEF TypeInv, TypeOK, Op
  <2>4. NoOrphanRows' /\ UniqueIdentity'
    BY <2>1, KeysKept DEF Exact, NoOrphanRows, Connected
  <2> QED
    BY <1>1, <2>1, <2>3, <2>4 DEF SessionOf, Connecting, ToUpsert, Connected
<1>8. ASSUME UpsertRead(p) PROVE Goal
  <2>1. /\ op[p] # Idle /\ op[p] \in Op /\ op[p].pc = "upsert"
        /\ UNCHANGED <<accounts, rows>>
    BY <1>0, <1>8, OpTypes DEF UpsertRead, TypeInv
  <2>2. PICK t : op' = [op EXCEPT ![p] =
          [op[p] EXCEPT !.pc = "flush",
             !.fresh = DOMAIN op[p].list \ {n \in DOMAIN op[p].list : Matches(p, n) # {}},
             !.touch = t]]
    BY <1>8 DEF UpsertRead
  <2>3. /\ op'[p].ref = op[p].ref /\ op'[p].acct = op[p].acct /\ op'[p].url = op[p].url
        /\ op'[p].provider = op[p].provider /\ op'[p].act = op[p].act /\ op'[p].pc = "flush"
        /\ \A n \in op'[p].fresh : Matches(p, n) = {}
    BY <1>0, <2>1, <2>2 DEF TypeInv, TypeOK, Op
  <2>4. /\ op[p].ref = op[p].acct /\ op[p].acct \in Connected
        /\ accounts[op[p].acct].url = op[p].url
        /\ accounts[op[p].acct].provider = op[p].provider
        /\ op[p].act # "disconnect" /\ ~ Connecting(op[p])
    BY <1>0, <1>1, <2>1 DEF SessionOf, Connecting, TypeInv, UnitsOfWork
  <2>5. ASSUME NEW a \in Connected, NEW q
        PROVE  SourceKey(View(p), a, q) = SourceKey(accounts, a, q)
    <3>1. DOMAIN View(p) = Connected /\ View(p)[a].url = accounts[a].url
      BY <2>4 DEF View
    <3> QED
      BY <3>1, SameKey DEF Connected
  <2>6. \A r \in rows : r.name \in op'[p].fresh =>
          SourceKey(View(p), r.acct, r.provider) # OwnKey(p)
    BY <2>3 DEF Matches
  <2>7. OwnKey(p) = KeyOfOp(op[p])
    BY <1>1, <2>1, <2>4, <2>5, KeyOfSession DEF OwnKey
  <2>8. \A r \in rows : r.name \in op'[p].fresh => KeyOf(r) # KeyOfOp(op[p])
    BY <2>5, <2>6, <2>7 DEF Exact, NoOrphanRows, KeyOf
  <2>9. KeyOfOp(op[p])' = KeyOfOp(op[p]) /\ \A r \in rows : KeyOf(r)' = KeyOf(r)
    BY <2>1, <2>3 DEF KeyOfOp, KeyOf
  <2>10. NoOrphanRows' /\ UniqueIdentity'
    BY <2>1, KeysKept DEF Exact, NoOrphanRows, Connected
  <2> QED
    BY <2>1, <2>3, <2>4, <2>8, <2>9, <2>10 DEF SessionOf, Connecting, ToUpsert, Connected
<1>9. ASSUME UpsertCommit(p) PROVE Goal
  <2>1. /\ op[p] # Idle /\ op[p] \in Op /\ ToUpsert(op[p]) /\ ~ Connecting(op[p])
        /\ accounts' = accounts
    BY <1>0, <1>9, OpTypes DEF UpsertCommit, ToUpsert, Connecting, TypeInv
  <2>2. /\ op[p].ref = op[p].acct /\ op[p].acct \in Connected
        /\ accounts[op[p].acct].url = op[p].url
        /\ accounts[op[p].acct].provider = op[p].provider
    BY <1>1, <2>1 DEF SessionOf
  <2>3. ASSUME NEW q \in rows'
        PROVE  \/ \E r \in rows : /\ q = Refreshed(op[p], r) /\ q.acct = r.acct
                                  /\ q.name = r.name /\ KeyOf(q)' = KeyOf(r)
               \/ \E n \in op[p].fresh : /\ q = NewRow(op[p], n) /\ q.acct = op[p].acct
                                         /\ q.name = n /\ KeyOf(q)' = KeyOfOp(op[p])
    <3>1. SourceKey(accounts, op[p].acct, op[p].provider) = KeyOfOp(op[p])
      BY <1>1, <2>1, KeyOfSession
    <3> QED
      BY <1>0, <1>9, <2>1, <2>2, <3>1, UpsertRows DEF KeyOf
  <2>4. NoOrphanRows'
    BY <2>1, <2>2, <2>3 DEF Exact, NoOrphanRows, Connected
  <2>5. \A n \in op[p].fresh, r \in rows : r.name = n => KeyOf(r) # KeyOfOp(op[p])
    BY <1>1, <2>1 DEF SessionOf
  <2>6. UniqueIdentity'
    <3> SUFFICES ASSUME NEW r \in rows', NEW q \in rows', r.name = q.name, KeyOf(r)' = KeyOf(q)'
                 PROVE  r = q
      BY DEF UniqueIdentity, SameIdentity
    <3> QED
      BY <2>3, <2>5 DEF Exact, UniqueIdentity, SameIdentity
  <2>7. \/ op'[p] = Idle
        \/ /\ op'[p].ref = op[p].ref /\ op'[p].acct = op[p].acct /\ op'[p].url = op[p].url
           /\ op'[p].provider = op[p].provider
           /\ op'[p].act = op[p].act /\ op'[p].pc = "touch"
    <3>1. \/ op' = [op EXCEPT ![p] = Idle]
          \/ op' = [op EXCEPT ![p] = [op[p] EXCEPT !.pc = "touch"]]
      BY <1>9 DEF UpsertCommit
    <3> QED
      BY <1>0, <2>1, <3>1 DEF TypeInv, TypeOK, Op
  <2> QED
    BY <2>1, <2>2, <2>4, <2>6, <2>7 DEF SessionOf, Connecting, ToUpsert, Connected
<1>10. ASSUME DisconnectRead(p) PROVE Goal
  <2>1. PICK ref \in Refs, a \in Connected :
          /\ Resolve(ref) = {a}
          /\ op' = [op EXCEPT ![p] =
                  [pc |-> "flush", act |-> "disconnect", ref |-> ref, acct |-> a,
                   provider |-> accounts[a].provider, url |-> accounts[a].url,
                   at |-> 0, list |-> <<>>, fresh |-> {},
                   touch |-> {Id(r) : r \in OwnedRows(a)}]]
    BY <1>10 DEF DisconnectRead
  <2>2. ref = a
    BY <2>1, ResolvedId DEF Refs
  <2>3. NoOrphanRows' /\ UniqueIdentity' /\ accounts' = accounts /\ rows' = rows
    BY <1>10, KeysKept DEF DisconnectRead, Exact, NoOrphanRows, Connected
  <2>4. /\ op'[p].ref = a /\ op'[p].acct = a /\ op'[p].url = accounts[a].url
        /\ op'[p].provider = accounts[a].provider
        /\ op'[p].act = "disconnect" /\ op'[p].touch = {Id(r) : r \in OwnedRows(a)}
    BY <1>0, <2>1, <2>2 DEF TypeInv, TypeOK
  <2>5. \A r \in rows : r.acct = a => Id(r) \in op'[p].touch
    BY <2>4 DEF OwnedRows
  <2> QED
    BY <2>1, <2>3, <2>4, <2>5 DEF SessionOf, Connecting, ToUpsert, Connected
<1>11. ASSUME DisconnectCommit(p) PROVE Goal
  <2>1. /\ op[p] # Idle /\ op[p].act = "disconnect"
        /\ rows' = {r \in rows : Id(r) \notin op[p].touch}
        /\ Connected' = Connected \ {op[p].acct}
        /\ \A a \in Connected' : accounts'[a] = accounts[a]
    BY <1>11 DEF DisconnectCommit, Connected
  <2>2. \A r \in rows' : r \in rows /\ r.acct \in Connected' /\ r.acct \in Connected
    BY <1>1, <2>1 DEF Exact, SessionOf, NoOrphanRows
  <2>3. \A r \in rows' :
          SourceKey(accounts', r.acct, r.provider) = SourceKey(accounts, r.acct, r.provider)
    BY <2>1, <2>2, SameKey DEF Connected
  <2>4. UniqueIdentity'
    BY <2>2, <2>3 DEF Exact, UniqueIdentity, SameIdentity, KeyOf
  <2>5. op'[p] = Idle
    BY <1>0, <1>11 DEF DisconnectCommit, TypeInv, TypeOK
  <2> QED
    BY <2>2, <2>4, <2>5 DEF NoOrphanRows
<1>12. ASSUME Abandon(p) PROVE Goal
  <2>1. NoOrphanRows' /\ UniqueIdentity'
    BY <1>12, KeysKept DEF Abandon, Exact, NoOrphanRows, Connected
  <2>2. op'[p] = Idle
    BY <1>0, <1>12 DEF Abandon, TypeInv, TypeOK
  <2> QED
    BY <2>1, <2>2
<1> QED
  BY <1>2, <1>3, <1>4, <1>5, <1>6, <1>8, <1>9, <1>10, <1>11, <1>12 DEF Step

(* A key of a row that stays, with its owner, through a step.                *)
LEMMA KeyOfRowKept ==
  ASSUME TypeInv, Exact, NEW p \in Procs, Step(p),
         NEW a \in Connected, a \in Connected', NEW q
  PROVE  SourceKey(accounts', a, q) = SourceKey(accounts, a, q)
BY UrlsKept, SameKey DEF Connected

(* The keys of the rows p inserts, and of those its disconnect collects.     *)
LEMMA KeysOfUnit ==
  ASSUME Base, Exact, NEW p \in Procs, op[p] # Idle
  PROVE  /\ ToUpsert(op[p]) => /\ op[p].ref = op[p].acct
                               /\ op[p].acct \in Connected
                               /\ SourceKey(accounts, op[p].ref, op[p].provider) = KeyOfOp(op[p])
         /\ \A r \in rows : WillDelete(op[p]) /\ Id(r) \in op[p].touch
              => r.acct = op[p].acct /\ KeyOf(r) = KeyOfOp(op[p])
<1>1. SessionOf(p) /\ OneProvider
  BY DEF Exact, Base
<1>2. ASSUME ToUpsert(op[p])
      PROVE  /\ op[p].ref = op[p].acct /\ op[p].acct \in Connected
             /\ SourceKey(accounts, op[p].ref, op[p].provider) = KeyOfOp(op[p])
  <2>1. ~ Connecting(op[p]) /\ op[p].ref = op[p].acct
    BY <1>1, <1>2 DEF ToUpsert, Connecting, SessionOf
  <2> QED
    BY <1>1, <2>1, KeyOfSession DEF SessionOf
<1>3. ASSUME NEW r \in rows, WillDelete(op[p]), Id(r) \in op[p].touch
      PROVE  r.acct = op[p].acct /\ KeyOf(r) = KeyOfOp(op[p])
  <2>1. r.acct = op[p].acct
    BY <1>3 DEF Base, Collected, TypeInv, TypeOK, Row
  <2>2. ~ Connecting(op[p])
    BY <1>3 DEF WillDelete, Connecting
  <2> QED
    BY <1>1, <2>1, <2>2, <1>3, KeyOfSession
<1> QED
  BY <1>2, <1>3

(* A row after a step of p has the key it had, or is one that p inserts.     *)
LEMMA KeysAfter ==
  ASSUME Shorts = {}, Base, Exact, NEW p \in Procs, Step(p), NEW r \in rows'
  PROVE  \/ \E s \in rows : /\ Id(r) = Id(s) /\ r.acct = s.acct /\ r.name = s.name
                            /\ KeyOf(r)' = KeyOf(s)
         \/ /\ ToUpsert(op[p]) /\ UpsertCommit(p) /\ r.name \in op[p].fresh /\ r.at = op[p].at
            /\ r.acct = op[p].acct /\ KeyOf(r)' = KeyOfOp(op[p])
<1>1. r.acct \in Connected' /\ TypeInv
  BY OwnStep DEF NoOrphanRows, Base
<1>2. ASSUME NEW s \in rows, Id(r) = Id(s), r.acct = s.acct, r.provider = s.provider, r.name = s.name
      PROVE  KeyOf(r)' = KeyOf(s)
  <2>1. s.acct \in Connected
    BY DEF Exact, NoOrphanRows
  <2> QED
    BY <1>1, <1>2, <2>1, KeyOfRowKept DEF KeyOf
<1>3. ASSUME ToUpsert(op[p]), UpsertCommit(p), r.acct = op[p].ref, r.provider = op[p].provider
      PROVE  r.acct = op[p].acct /\ KeyOf(r)' = KeyOfOp(op[p])
  <2>1. accounts' = accounts /\ op[p] # Idle
    BY <1>3 DEF UpsertCommit, ToUpsert
  <2> QED
    BY <1>3, <2>1, KeysOfUnit DEF KeyOf
<1> QED
  BY <1>1, <1>2, <1>3, RowsAfter

(* A step of p, of another source, leaves what q has read as it was.         *)
LEMMA OthersStep ==
  ASSUME Shorts = {}, Base, Exact, Apart, NEW p \in Procs, Step(p),
         NEW q \in Procs, q # p, op[q] # Idle
  PROVE  SessionOf(q)'
<1>1. /\ op'[q] = op[q]
      /\ \A a : op[p] = Idle \/ a # op[p].acct =>
           /\ a \in Connected' <=> a \in Connected
           /\ a \in Connected => accounts'[a] = accounts[a]
  BY OthersUntouched DEF Base
<1>2. op[p] = Idle \/ op[q].acct # op[p].acct
  BY DEF Exact, OneAtATime
<1>3. SessionOf(q)
  BY DEF Exact
<1>4. ASSUME ToUpsert(op[q]), NEW r \in rows', r.name \in op[q].fresh
      PROVE  KeyOf(r)' # KeyOfOp(op[q])
  <2>1. CASE \E s \in rows : r.name = s.name /\ KeyOf(r)' = KeyOf(s)
    BY <1>3, <1>4, <2>1 DEF SessionOf
  <2>2. CASE ToUpsert(op[p]) /\ KeyOf(r)' = KeyOfOp(op[p])
    BY <2>2 DEF Apart, ToUpsert
  <2> QED
    BY <2>1, <2>2, KeysAfter
<1>5. ASSUME op[q].act = "disconnect", NEW r \in rows', r.acct = op[q].acct
      PROVE  Id(r) \in op[q].touch
  <2>1. CASE \E s \in rows : Id(r) = Id(s) /\ r.acct = s.acct
    BY <1>3, <1>5, <2>1 DEF SessionOf
  <2>2. CASE ToUpsert(op[p]) /\ r.acct = op[p].acct
    BY <1>2, <1>5, <2>2 DEF ToUpsert
  <2> QED
    BY <2>1, <2>2, KeysAfter
<1>6. IF Connecting(op[q])
      THEN op[q].acct \notin Connected'
      ELSE /\ op[q].acct \in Connected'
           /\ accounts'[op[q].acct].url = op[q].url
           /\ accounts'[op[q].acct].provider = op[q].provider
  BY <1>1, <1>2, <1>3 DEF SessionOf
<1>7. KeyOfOp(op[q])' = KeyOfOp(op[q]) /\ (Connecting(op[q])' <=> Connecting(op[q]))
  BY <1>1 DEF KeyOfOp, Connecting
<1>8. (op[q].ref = op[q].acct)' /\ (ToUpsert(op[q])' <=> ToUpsert(op[q]))
  BY <1>1, <1>3 DEF SessionOf, ToUpsert
<1> QED
  BY <1>1, <1>4, <1>5, <1>6, <1>7, <1>8 DEF SessionOf

(* The account of a running operation: the one it was about already, one     *)
(* that was never drawn, or a connected one, as its row is.                  *)
LEMMA Beginnings ==
  ASSUME TypeInv, NEW p \in Procs, Step(p), op'[p] # Idle
  PROVE  \/ op[p] # Idle /\ op'[p].acct = op[p].acct
         \/ op'[p].acct \notin used
         \/ /\ op'[p].acct \in Connected
            /\ op'[p].url = accounts[op'[p].acct].url
            /\ op'[p].provider = accounts[op'[p].acct].provider
<1>1. CASE ConnectStart(p)
  BY <1>1 DEF ConnectStart, TypeInv, TypeOK
<1>2. CASE SyncStart(p) \/ DisconnectRead(p)
  BY <1>2 DEF SyncStart, DisconnectRead, TypeInv, TypeOK
<1>3. CASE SyncInvalid(p) \/ SyncTouch(p) \/ DisconnectCommit(p) \/ Abandon(p)
  BY <1>3 DEF SyncInvalid, SyncTouch, DisconnectCommit, Abandon, TypeInv, TypeOK
<1>4. CASE ConnectPersist(p) \/ SyncDiscover(p) \/ UpsertRead(p) \/ UpsertCommit(p)
  <2>1. op[p] # Idle /\ op[p] \in Op
    BY <1>4, OpTypes DEF ConnectPersist, SyncDiscover, UpsertRead, UpsertCommit, TypeInv
  <2>2. CASE ConnectPersist(p)
    BY <2>1, <2>2 DEF ConnectPersist, TypeInv, TypeOK, Op
  <2>3. CASE SyncDiscover(p)
    BY <2>1, <2>3 DEF SyncDiscover, TypeInv, TypeOK, Op
  <2>4. CASE UpsertRead(p)
    <3>1. PICK f, t : op' = [op EXCEPT ![p] = [op[p] EXCEPT !.pc = "flush", !.fresh = f, !.touch = t]]
      BY <2>4 DEF UpsertRead
    <3> QED
      BY <2>1, <3>1 DEF TypeInv, TypeOK, Op
  <2>5. CASE UpsertCommit(p)
    BY <2>1, <2>5 DEF UpsertCommit, TypeInv, TypeOK, Op
  <2> QED
    BY <1>4, <2>1, <2>2, <2>3, <2>4, <2>5
<1> QED
  BY <1>1, <1>2, <1>3, <1>4 DEF Step

(* Two operations are never about one account: a connect draws an account    *)
(* of its own, and operations on a connected account share its source.       *)
LEMMA OneAtATimeStep ==
  ASSUME Base, Exact, Apart', NEW p \in Procs, Step(p)
  PROVE  OneAtATime'
<1>1. \A q \in Procs \ {p} : op'[q] = op[q]
  BY OthersUntouched DEF Base
<1>2. ASSUME NEW q \in Procs, q # p, op'[p] # Idle, op[q] # Idle, op'[p].acct = op[q].acct
      PROVE  FALSE
  <2>1. op[q].acct \in used /\ SessionOf(q)
    BY <1>2 DEF Base, TypeInv, UnitsOfWork, Exact
  <2>2. CASE op[p] # Idle /\ op'[p].acct = op[p].acct
    BY <1>2, <2>2 DEF Exact, OneAtATime
  <2>3. CASE op'[p].acct \notin used
    BY <1>2, <2>1, <2>3
  <2>4. CASE /\ op'[p].acct \in Connected
             /\ op'[p].url = accounts[op'[p].acct].url
             /\ op'[p].provider = accounts[op'[p].acct].provider
    <3>1. op'[p].url = op[q].url /\ op'[p].provider = op[q].provider
      BY <1>2, <2>1, <2>4 DEF SessionOf
    <3>2. KeyOfOp(op'[p]) = KeyOfOp(op'[q])
      BY <1>1, <1>2, <3>1 DEF KeyOfOp
    <3> QED
      BY <1>1, <1>2, <3>2 DEF Apart
  <2>5. \/ op[p] # Idle /\ op'[p].acct = op[p].acct
        \/ op'[p].acct \notin used
        \/ /\ op'[p].acct \in Connected
           /\ op'[p].url = accounts[op'[p].acct].url
           /\ op'[p].provider = accounts[op'[p].acct].provider
    BY <1>2, Beginnings DEF Base
  <2> QED
    BY <2>2, <2>3, <2>4, <2>5
<1> QED
  BY <1>1, <1>2 DEF Exact, OneAtATime

LEMMA ExactStep ==
  ASSUME Shorts = {}, Base, Exact, Apart, Apart', [Next]_vars
  PROVE  Exact'
<1>1. CASE UNCHANGED vars
  BY <1>1 DEF vars, Exact, NoOrphanRows, UniqueIdentity, SameIdentity, OneAtATime, SessionOf,
     ToUpsert, Connecting, KeyOf, KeyOfOp, Connected
<1>2. ASSUME NEW p \in Procs, Step(p) PROVE Exact'
  <2>1. NoOrphanRows' /\ UniqueIdentity' /\ (op'[p] # Idle => SessionOf(p)')
    BY <1>2, OwnStep
  <2>2. ASSUME NEW q \in Procs, q # p, op'[q] # Idle PROVE SessionOf(q)'
    <3>1. op[q] # Idle
      BY <1>2, <2>2, OthersUntouched DEF Base
    <3> QED
      BY <1>2, <2>2, <3>1, OthersStep
  <2>3. OneAtATime'
    BY <1>2, OneAtATimeStep
  <2> QED
    BY <2>1, <2>2, <2>3 DEF Exact
<1> QED
  BY <1>1, <1>2 DEF Next

LEMMA ExactInit == Init => Exact /\ Apart
BY DEF Init, Exact, NoOrphanRows, UniqueIdentity, OneAtATime, SessionOf, Apart

LEMMA BaseInit == Init => Base
BY TypeInvInit, InsertInit DEF Base, Init, OneProvider, OwnerProviderAgrees, Connected

LEMMA BaseStep == ASSUME Base, [Next]_vars PROVE Base'
BY TypeInvStep, OneProviderStep, FreshIdsStep, CollectedStep DEF Base

LEMMA ExactAlways == ASSUME Shorts = {} PROVE ApartSpec => [](Base /\ Exact /\ Apart)
<1>1. Base /\ Exact /\ Apart /\ [Next /\ Apart']_vars => (Base /\ Exact /\ Apart)'
  <2>1. ASSUME Apart, UNCHANGED vars PROVE Apart'
    BY <2>1 DEF Apart, KeyOfOp, vars
  <2> QED
    BY <2>1, BaseStep, ExactStep
<1> QED
  BY <1>1, BaseInit, ExactInit, PTL DEF ApartSpec

(* Full ids, and operations that overlap are about different sources: every  *)
(* row's owner is connected, and the table holds one row per                 *)
(* source-qualified identity - through failed, interrupted and repeated      *)
(* operations, and however accounts share sources.                           *)
THEOREM RegistryExact ==
  ASSUME Shorts = {}
  PROVE  ApartSpec => [](NoOrphanRows /\ UniqueIdentity)
<1>1. Exact => NoOrphanRows /\ UniqueIdentity
  BY DEF Exact
<1> QED
  BY <1>1, ExactAlways, PTL

(* With the same proviso, no two rows share a source-qualified identity.      *)
THEOREM IdentityIsUnique ==
  ASSUME Shorts = {}
  PROVE  ApartSpec => []UniqueIdentity
<1>1. NoOrphanRows /\ UniqueIdentity => UniqueIdentity
  OBVIOUS
<1> QED
  BY <1>1, RegistryExact, PTL

-----------------------------------------------------------------------------
(* What routing is told. Every row an upsert is to update is there, and of   *)
(* its source; and each model of its listing is to be inserted, to be        *)
(* updated, or says already what it should.                                  *)

UnitOf(o) ==
  ToUpsert(o) =>
    /\ \A t \in o.touch : \E r \in rows : Id(r) = t /\ KeyOf(r) = KeyOfOp(o)
    /\ \A n \in DOMAIN o.list :
         \/ n \in o.fresh
         \/ \E r \in rows : /\ r.name = n /\ KeyOf(r) = KeyOfOp(o)
                            /\ Id(r) \in o.touch \/ r.meta = o.list[n]
UnitExact == \A p \in Procs : UnitOf(op[p])
Told == Base /\ Exact /\ Apart /\ UnitExact

(* The session reads keys as they are. *)
LEMMA KeysAreCurrent ==
  ASSUME Base, Exact, NEW p \in Procs, op[p] # Idle, ~ Connecting(op[p])
  PROVE  /\ OwnKey(p) = KeyOfOp(op[p])
         /\ \A r \in rows : SourceKey(View(p), r.acct, r.provider) = KeyOf(r)
<1>1. /\ op[p].ref = op[p].acct /\ op[p].acct \in Connected
      /\ accounts[op[p].acct].url = op[p].url /\ SessionOf(p)
  BY DEF Exact, SessionOf
<1>2. ASSUME NEW a \in Connected, NEW q
      PROVE  SourceKey(View(p), a, q) = SourceKey(accounts, a, q)
  <2>1. DOMAIN View(p) = Connected /\ View(p)[a].url = accounts[a].url
    BY <1>1 DEF View
  <2> QED
    BY <2>1, SameKey DEF Connected
<1>3. OwnKey(p) = KeyOfOp(op[p])
  BY <1>1, <1>2, KeyOfSession DEF OwnKey
<1> QED
  BY <1>2, <1>3 DEF KeyOf, Exact, NoOrphanRows

(* An upsert's read leaves the session with an exact unit of work.           *)
LEMMA UnitRead ==
  ASSUME Told, NEW p \in Procs, UpsertRead(p)
  PROVE  UnitOf(op[p])'
<1>0. Base /\ Exact /\ TypeInv /\ FreshIds
  BY DEF Told, Base
<1>1. /\ op[p] # Idle /\ op[p] \in Op /\ ~ Connecting(op[p])
      /\ UNCHANGED <<accounts, rows>>
  BY <1>0, OpTypes DEF UpsertRead, Connecting, TypeInv
<1> DEFINE l == op[p].list
           found == {n \in DOMAIN l : Matches(p, n) # {}}
           changed == {n \in found : First(Matches(p, n)).meta # l[n]}
<1>2. op' = [op EXCEPT ![p] = [op[p] EXCEPT !.pc = "flush", !.fresh = DOMAIN l \ found,
                                 !.touch = {Id(First(Matches(p, n))) : n \in changed}]]
  BY DEF UpsertRead
<1>3. /\ op'[p].url = op[p].url /\ op'[p].provider = op[p].provider
      /\ op'[p].list = l /\ op'[p].fresh = DOMAIN l \ found
      /\ op'[p].touch = {Id(First(Matches(p, n))) : n \in changed}
  BY <1>0, <1>1, <1>2 DEF TypeInv, TypeOK, Op
<1>4. \A n \in found : /\ First(Matches(p, n)) \in rows
                       /\ First(Matches(p, n)).name = n
                       /\ KeyOf(First(Matches(p, n))) = KeyOfOp(op[p])
  <2>1. \A n \in found : First(Matches(p, n)) \in Matches(p, n)
    BY <1>0, FirstIsMember DEF Matches, TypeInv, TypeOK
  <2> QED
    BY <1>0, <1>1, <2>1, KeysAreCurrent DEF Matches
<1>5. KeyOfOp(op'[p]) = KeyOfOp(op[p]) /\ \A r \in rows : KeyOf(r)' = KeyOf(r)
  BY <1>1, <1>3 DEF KeyOfOp, KeyOf
<1> HIDE DEF l, found
<1>6. ASSUME NEW t \in op'[p].touch
      PROVE  \E r \in rows : Id(r) = t /\ KeyOf(r) = KeyOfOp(op[p])
  <2>1. PICK n \in found : t = Id(First(Matches(p, n)))
    BY <1>3, <1>6
  <2> QED
    BY <1>4, <2>1
<1>7. \A n \in DOMAIN l :
        \/ n \in op'[p].fresh
        \/ \E r \in rows : /\ r.name = n /\ KeyOf(r) = KeyOfOp(op[p])
                           /\ Id(r) \in op'[p].touch \/ r.meta = l[n]
  <2> SUFFICES ASSUME NEW n \in found
               PROVE  \E r \in rows : /\ r.name = n /\ KeyOf(r) = KeyOfOp(op[p])
                                      /\ Id(r) \in op'[p].touch \/ r.meta = l[n]
    BY <1>3
  <2>1. n \notin changed => First(Matches(p, n)).meta = l[n]
    OBVIOUS
  <2>2. n \in changed => Id(First(Matches(p, n))) \in op'[p].touch
    BY <1>3
  <2> QED
    BY <1>4, <2>1, <2>2
<1>8. op'[p].list = l
  BY <1>3
<1> HIDE DEF changed
<1> QED
  BY <1>1, <1>5, <1>6, <1>7, <1>8 DEF UnitOf

(* A row of another source than p's outlives a step of p, unchanged.         *)
LEMMA RowsOfOthers ==
  ASSUME Shorts = {}, Told, NEW p \in Procs, Step(p), NEW r \in rows,
         op[p] = Idle \/ KeyOf(r) # KeyOfOp(op[p])
  PROVE  r \in rows' /\ KeyOf(r)' = KeyOf(r)
<1>1. Base /\ Exact /\ TypeInv /\ r.acct \in Connected
  BY DEF Told, Base, Exact, NoOrphanRows
<1>2. r \in rows'
  <2>1. CASE UpsertCommit(p)
    <3>1. ToUpsert(op[p]) /\ op[p] # Idle
      BY <2>1 DEF UpsertCommit, ToUpsert
    <3>2. Id(r) \notin op[p].touch
      BY <3>1 DEF Told, UnitExact, UnitOf, Base, FreshIds
    <3>3. Refreshed(op[p], r) = r
      BY <3>2 DEF Refreshed
    <3> QED
      BY <2>1, <3>3 DEF UpsertCommit
  <2>2. CASE DisconnectCommit(p)
    <3>1. WillDelete(op[p]) /\ op[p] # Idle
      BY <2>2 DEF DisconnectCommit, WillDelete
    <3>2. Id(r) \notin op[p].touch
      BY <1>1, <3>1, KeysOfUnit
    <3> QED
      BY <2>2, <3>2 DEF DisconnectCommit
  <2>3. CASE UNCHANGED rows
    BY <2>3
  <2> QED
    BY <2>1, <2>2, <2>3 DEF Step, ConnectStart, ConnectPersist, SyncStart, SyncInvalid,
       SyncDiscover, SyncTouch, UpsertRead, DisconnectRead, Abandon
<1>3. r.acct \in Connected'
  BY <1>1, <1>2, OwnStep DEF NoOrphanRows
<1> QED
  BY <1>1, <1>2, <1>3, KeyOfRowKept DEF KeyOf

(* Only an upsert's read gives a session a unit of work to commit.           *)
LEMMA ReadsFirst ==
  ASSUME TypeInv, NEW p \in Procs, Step(p), ~UpsertRead(p)
  PROVE  ~ToUpsert(op'[p])
<1>1. CASE SyncInvalid(p) \/ SyncTouch(p) \/ DisconnectCommit(p) \/ Abandon(p)
  BY <1>1 DEF SyncInvalid, SyncTouch, DisconnectCommit, Abandon, ToUpsert, TypeInv, TypeOK
<1>2. CASE ConnectStart(p) \/ SyncStart(p) \/ DisconnectRead(p)
  BY <1>2 DEF ConnectStart, SyncStart, DisconnectRead, ToUpsert, TypeInv, TypeOK
<1>3. CASE ConnectPersist(p) \/ SyncDiscover(p) \/ UpsertCommit(p)
  <2>1. op[p] \in Op
    BY <1>3, OpTypes DEF ConnectPersist, SyncDiscover, UpsertCommit, TypeInv
  <2>2. op'[p] = Idle \/ op'[p].pc \in {"upsert", "touch"}
    <3>1. CASE ConnectPersist(p)
      BY <2>1, <3>1 DEF ConnectPersist, TypeInv, TypeOK, Op
    <3>2. CASE SyncDiscover(p)
      BY <2>1, <3>2 DEF SyncDiscover, TypeInv, TypeOK, Op
    <3>3. CASE UpsertCommit(p)
      BY <2>1, <3>3 DEF UpsertCommit, TypeInv, TypeOK, Op
    <3> QED
      BY <1>3, <3>1, <3>2, <3>3
  <2> QED
    BY <2>2 DEF ToUpsert
<1> QED
  BY <1>1, <1>2, <1>3 DEF Step

LEMMA UnitExactStep ==
  ASSUME Shorts = {}, Told, [Next]_vars
  PROVE  UnitExact'
<1>1. CASE UNCHANGED vars
  BY <1>1 DEF vars, Told, UnitExact, UnitOf, ToUpsert, KeyOf, KeyOfOp
<1>2. ASSUME NEW p \in Procs, Step(p) PROVE UnitExact'
  <2>1. \A q \in Procs \ {p} : op'[q] = op[q]
    BY <1>2, OthersUntouched DEF Told, Base
  <2>2. UnitOf(op[p])'
    <3>1. CASE UpsertRead(p)
      BY <3>1, UnitRead
    <3>2. CASE ~ UpsertRead(p)
      <4>1. ~ToUpsert(op'[p])
        BY <1>2, <3>2, ReadsFirst DEF Told, Base
      <4> QED
        BY <4>1 DEF UnitOf, ToUpsert
    <3> QED
      BY <3>1, <3>2
  <2>3. ASSUME NEW q \in Procs, q # p, ToUpsert(op[q])
        PROVE  UnitOf(op[q])'
    <3>1. UnitOf(op[q]) /\ op[q] # Idle
      BY <2>3 DEF Told, UnitExact, ToUpsert
    <3>2. op[p] = Idle \/ KeyOfOp(op[q]) # KeyOfOp(op[p])
      BY <2>3, <3>1 DEF Told, Apart
    <3>3. \A r \in rows : KeyOf(r) = KeyOfOp(op[q]) => r \in rows' /\ KeyOf(r)' = KeyOfOp(op[q])
      BY <1>2, <3>2, RowsOfOthers
    <3>4. op'[q] = op[q] /\ KeyOfOp(op[q])' = KeyOfOp(op[q])
      BY <2>1, <2>3 DEF KeyOfOp
    <3>5. \A t \in op[q].touch : \E r \in rows' : Id(r) = t /\ KeyOf(r)' = KeyOfOp(op[q])
      BY <2>3, <3>1, <3>3 DEF UnitOf
    <3>6. \A n \in DOMAIN op[q].list :
            \/ n \in op[q].fresh
            \/ \E r \in rows' : /\ r.name = n /\ KeyOf(r)' = KeyOfOp(op[q])
                                /\ Id(r) \in op[q].touch \/ r.meta = op[q].list[n]
      BY <2>3, <3>1, <3>3 DEF UnitOf
    <3> QED
      BY <3>4, <3>5, <3>6 DEF UnitOf
  <2>4. ASSUME NEW q \in Procs, q # p, ~ToUpsert(op[q])
        PROVE  UnitOf(op[q])'
    BY <2>1, <2>4 DEF UnitOf, ToUpsert
  <2> QED
    BY <2>2, <2>3, <2>4 DEF UnitExact
<1> QED
  BY <1>1, <1>2 DEF Next

LEMMA ToldAlways == ASSUME Shorts = {} PROVE ApartSpec => []Told
<1>1. Init => UnitExact
  BY DEF Init, UnitExact, UnitOf, ToUpsert
<1>2. Base /\ Exact /\ Apart /\ UnitExact /\ [Next /\ Apart']_vars => UnitExact'
  BY UnitExactStep DEF Told
<1>3. Base /\ Exact /\ Apart /\ UnitExact => Told
  BY DEF Told
<1> QED
  BY <1>1, <1>2, <1>3, ExactAlways, PTL DEF ApartSpec

(* Once an upsert is committed, routing is told of each model of the listing *)
(* what the listing said.                                                    *)
THEOREM UpsertIsRoutable == ASSUME Shorts = {} PROVE ApartSpec => UpsertReachesRouting
<1> DEFINE Reaches == \A p \in Procs : UpsertCommit(p) /\ op[p].acct \in Connected =>
                        \A n \in DOMAIN op[p].list : \A k \in {OwnKey(p)}, m \in {op[p].list[n]} :
                          Routable(k, n, m)'
<1>1. ASSUME Told, Told', NEW p \in Procs, UpsertCommit(p), NEW n \in DOMAIN op[p].list
      PROVE  \A k \in {OwnKey(p)}, m \in {op[p].list[n]} : Routable(k, n, m)'
  <2>1. /\ op[p] # Idle /\ ToUpsert(op[p]) /\ ~ Connecting(op[p]) /\ accounts' = accounts
        /\ Base /\ Exact
    BY <1>1 DEF UpsertCommit, ToUpsert, Connecting, Told
  <2>2. OwnKey(p) = KeyOfOp(op[p])
    BY <1>1, <2>1, KeysAreCurrent
  <2>3. \E q \in rows' : q.name = n /\ KeyOf(q)' = OwnKey(p) /\ q.meta = op[p].list[n]
    <3>1. CASE n \in op[p].fresh
      <4>1. NewRow(op[p], n) \in rows'
        BY <1>1, <3>1 DEF UpsertCommit
      <4>2. /\ NewRow(op[p], n).name = n /\ NewRow(op[p], n).meta = op[p].list[n]
            /\ NewRow(op[p], n).acct = op[p].ref /\ NewRow(op[p], n).provider = op[p].provider
        BY DEF NewRow
      <4> QED
        BY <2>1, <2>2, <4>1, <4>2, KeysOfUnit DEF KeyOf
    <3>2. CASE n \notin op[p].fresh
      <4>1. PICK r \in rows : /\ r.name = n /\ KeyOf(r) = KeyOfOp(op[p])
                              /\ Id(r) \in op[p].touch \/ r.meta = op[p].list[n]
        BY <1>1, <2>1, <3>2 DEF Told, UnitExact, UnitOf
      <4>2. Refreshed(op[p], r) \in rows' /\ r \in Row
        BY <1>1 DEF UpsertCommit, Told, Base, TypeInv, TypeOK
      <4>3. Refreshed(op[p], r).meta = op[p].list[n]
        BY <4>1, <4>2 DEF Refreshed, Row
      <4> QED
        BY <2>1, <2>2, <4>1, <4>2, <4>3, RefreshedKeeps DEF KeyOf
    <3> QED
      BY <3>1, <3>2
  <2>4. Enabled' = rows'
    BY <1>1 DEF Told, Exact, UniqueIdentity, Enabled
  <2> QED
    BY <2>3, <2>4 DEF Routable
<1>2. Told /\ Told' => [Reaches]_vars
  BY <1>1
<1> HIDE DEF Reaches
<1>3. ApartSpec => [][Reaches]_vars
  BY <1>2, ToldAlways, PTL DEF ApartSpec
<1> QED
  BY <1>3 DEF Reaches, UpsertReachesRouting

(* No upsert fails because a row it is to update has gone.                   *)
THEOREM UpdatesFindTheirRows ==
  ASSUME Shorts = {}
  PROVE  ApartSpec => [](\A p \in Procs : ToUpsert(op[p]) => op[p].touch \subseteq {Id(r) : r \in rows})
<1>1. Told => \A p \in Procs : ToUpsert(op[p]) => op[p].touch \subseteq {Id(r) : r \in rows}
  BY DEF Told, UnitExact, UnitOf
<1> QED
  BY <1>1, ToldAlways, PTL

-----------------------------------------------------------------------------
(* The registry implements the catalogue.                                    *)

(* No row is shadowed: routing is offered all of them.                       *)
LEMMA Unshadowed == Told => Offers = {Offer(r) : r \in rows}
<1> SUFFICES ASSUME Told PROVE Enabled = rows
  BY DEF Offers
<1> QED
  BY DEF Told, Exact, UniqueIdentity, Enabled

LEMMA UnshadowedNext == Told' => Offers' = {Offer(r)' : r \in rows'}
<1> SUFFICES ASSUME Told' PROVE Enabled' = rows'
  BY DEF Offers
<1> QED
  BY DEF Told, Exact, UniqueIdentity, Enabled

(* A row's key is its owner's.                                               *)
LEMMA KeyOfOwner ==
  ASSUME Told, NEW r \in rows
  PROVE  r.acct \in Connected /\ KeyOf(r) = Sources[r.acct]
<1>1. r.acct \in Connected /\ accounts[r.acct].provider = r.provider
  BY DEF Told, Exact, NoOrphanRows, Base, OneProvider, OwnerProviderAgrees
<1> QED
  BY <1>1 DEF KeyOf, Sources

(* A step keeps what the accounts that stay stand for.                       *)
LEMMA SourcesKept ==
  ASSUME Told, NEW p \in Procs, Step(p), NEW a \in Connected, a \in Connected'
  PROVE  Sources'[a] = Sources[a]
<1>1. TypeInv /\ Exact
  BY DEF Told, Base
<1>2. accounts'[a].provider = accounts[a].provider
  BY <1>1, UrlsKept
<1>3. SourceKey(accounts', a, accounts[a].provider) = SourceKey(accounts, a, accounts[a].provider)
  BY <1>1, KeyOfRowKept
<1> QED
  BY <1>2, <1>3 DEF Sources

(* Of rows that stay as they are, with their owners, routing is offered the  *)
(* same.                                                                     *)
LEMMA SameOffer ==
  ASSUME Shorts = {}, Told, NEW p \in Procs, Step(p), NEW r \in rows, r \in rows'
  PROVE  Offer(r)' = Offer(r)
<1>1. Base /\ Exact /\ TypeInv /\ r.acct \in Connected
  BY DEF Told, Base, Exact, NoOrphanRows
<1>2. r.acct \in Connected'
  BY <1>1, OwnStep DEF NoOrphanRows
<1>3. KeyOf(r)' = KeyOf(r)
  BY <1>1, <1>2, KeyOfRowKept DEF KeyOf
<1> QED
  BY <1>3 DEF Offer

(* The source of a running operation's account.                              *)
LEMMA SourceOfOp ==
  ASSUME Told, NEW p \in Procs, op[p] # Idle, ~ Connecting(op[p])
  PROVE  op[p].acct \in Connected /\ Sources[op[p].acct] = KeyOfOp(op[p])
<1>1. SessionOf(p)
  BY DEF Told, Exact
<1>2. op[p].acct \in Connected /\ accounts[op[p].acct].provider = op[p].provider
  BY <1>1 DEF SessionOf
<1>3. SourceKey(accounts, op[p].acct, op[p].provider) = KeyOfOp(op[p])
  BY <1>1, KeyOfSession
<1> QED
  BY <1>2, <1>3 DEF Sources

(* What the first commit of a connect shows is an account without offers.    *)
LEMMA ConnectShows ==
  ASSUME Shorts = {}, Told, Told', NEW p \in Procs, ConnectPersist(p)
  PROVE  C!Next
<1>1. /\ op[p] # Idle /\ Connecting(op[p]) /\ UNCHANGED rows /\ Step(p)
      /\ op[p] \in Op /\ SessionOf(p)
  BY OpTypes DEF ConnectPersist, Connecting, Step, Told, Base, TypeInv, Exact
<1>2. op[p].acct \in Accounts /\ op[p].acct \notin Connected
  BY <1>1 DEF SessionOf, Op
<1>3. /\ Connected' = Connected \cup {op[p].acct}
      /\ accounts'[op[p].acct].url = op[p].url
      /\ accounts'[op[p].acct].provider = op[p].provider
  BY DEF ConnectPersist, Connected
<1>4. Sources'[op[p].acct] = KeyOfOp(op[p])
  BY <1>3 DEF Sources, SourceKey, KeyOfOp, Connected
<1>5. KeyOfOp(op[p]) \in Providers \cup {Canon[u] : u \in Urls}
  BY <1>1 DEF KeyOfOp, Op
<1>6. \A a \in Connected : Sources'[a] = Sources[a]
  BY <1>1, <1>3, SourcesKept
<1>7. Sources' = [b \in Connected \cup {op[p].acct} |->
                    IF b = op[p].acct THEN KeyOfOp(op[p]) ELSE Sources[b]]
  BY <1>2, <1>3, <1>4, <1>6 DEF Sources
<1>8. Offers' = Offers
  BY <1>1, SameOffer, Unshadowed, UnshadowedNext
<1>9. C!Connect(op[p].acct, KeyOfOp(op[p]))
  BY <1>2, <1>7, <1>8 DEF C!Connect, Sources
<1> QED
  BY <1>2, <1>5, <1>9 DEF C!Next

(* What the commit of an upsert shows is its listing.                        *)
LEMMA UpsertShows ==
  ASSUME Told, Told', NEW p \in Procs, UpsertCommit(p)
  PROVE  C!Next
<1> DEFINE k == KeyOfOp(op[p])
           l == op[p].list
<1>1. /\ op[p] # Idle /\ ToUpsert(op[p]) /\ ~ Connecting(op[p]) /\ op[p] \in Op
      /\ accounts' = accounts
      /\ rows' = {Refreshed(op[p], r) : r \in rows} \cup {NewRow(op[p], n) : n \in op[p].fresh}
  BY OpTypes DEF UpsertCommit, ToUpsert, Connecting, Told, Base, TypeInv
<1>2. /\ op[p].acct \in Connected /\ Sources[op[p].acct] = k
      /\ op[p].ref = op[p].acct /\ SessionOf(p) /\ UnitOf(op[p])
      /\ op[p].fresh \subseteq DOMAIN l
      /\ \A t \in Nat, n \in Names : <<t, n>> \in op[p].touch => n \in DOMAIN l
  BY <1>1, SourceOfOp DEF Told, Exact, SessionOf, UnitExact, Base, TypeInv, UnitsOfWork, ToUpsert
<1>3. ASSUME NEW r \in rows, NEW q, q = Refreshed(op[p], r)
      PROVE  Offer(q)' = C!Heard(Offer(r), k, l)
  <2>1. r \in Row
    BY DEF Told, Base, TypeInv, TypeOK
  <2>2. q.acct = r.acct /\ q.name = r.name /\ KeyOf(q)' = KeyOf(r)
    BY <1>1, <1>3, <2>1, RefreshedKeeps DEF KeyOf
  <2>3. Offer(q)' = [key |-> KeyOf(r), name |-> r.name, owner |-> r.acct, meta |-> q.meta]
    BY <2>2 DEF Offer
  <2>4. CASE Id(r) \in op[p].touch
    <3>1. KeyOf(r) = k
      BY <1>1, <1>2, <2>4 DEF UnitOf, Told, Base, FreshIds
    <3>2. r.name \in DOMAIN l
      BY <1>2, <2>1, <2>4 DEF Row
    <3>3. q.meta = l[r.name]
      BY <1>3, <2>1, <2>4 DEF Refreshed, Row
    <3> HIDE DEF k, l
    <3> QED
      BY <2>3, <3>1, <3>2, <3>3 DEF Offer, C!Heard
  <2>5. CASE Id(r) \notin op[p].touch
    <3>1. q = r
      BY <1>3, <2>5 DEF Refreshed
    <3>2. ASSUME KeyOf(r) = k, r.name \in DOMAIN l PROVE r.meta = l[r.name]
      <4>1. r.name \notin op[p].fresh
        BY <1>1, <1>2, <3>2 DEF SessionOf
      <4>2. PICK s \in rows : /\ s.name = r.name /\ KeyOf(s) = k
                              /\ Id(s) \in op[p].touch \/ s.meta = l[r.name]
        BY <1>1, <1>2, <3>2, <4>1 DEF UnitOf
      <4>3. s = r
        BY <3>2, <4>2 DEF Told, Exact, UniqueIdentity, SameIdentity
      <4> QED
        BY <2>5, <4>2, <4>3
    <3> HIDE DEF k, l
    <3> QED
      BY <2>3, <3>1, <3>2 DEF Offer, C!Heard
  <2> QED
    BY <2>4, <2>5
<1>4. ASSUME NEW n \in op[p].fresh, NEW q, q = NewRow(op[p], n)
      PROVE  Offer(q)' = [key |-> k, name |-> n, owner |-> op[p].acct, meta |-> l[n]]
  <2>1. q.name = n /\ q.meta = l[n] /\ q.acct = op[p].ref /\ q.provider = op[p].provider
    BY <1>4 DEF NewRow
  <2>2. SourceKey(accounts, op[p].ref, op[p].provider) = k
    BY <1>1, KeysOfUnit DEF Told
  <2>3. KeyOf(q)' = k
    BY <1>1, <2>1, <2>2 DEF KeyOf
  <2> QED
    BY <1>2, <2>1, <2>3 DEF Offer
<1>5. op[p].fresh = C!Unheard(k, l)
  <2>1. \A n \in DOMAIN l : n \in op[p].fresh <=> \A r \in rows : ~ (KeyOf(r) = k /\ r.name = n)
    BY <1>1, <1>2 DEF SessionOf, UnitOf
  <2>2. \A r : Offer(r).key = KeyOf(r) /\ Offer(r).name = r.name
    BY DEF Offer
  <2>3. Offers = {Offer(r) : r \in rows}
    BY Unshadowed
  <2>4. \A n : (\A o \in Offers : ~ (o.key = k /\ o.name = n))
                 <=> \A r \in rows : ~ (KeyOf(r) = k /\ r.name = n)
    BY <2>2, <2>3
  <2> QED
    BY <1>2, <2>1, <2>4 DEF C!Unheard
<1>6. op[p].acct \in Accounts /\ l \in C!Listings
  BY <1>1 DEF Op, Listings, C!Listings
<1> HIDE DEF k, l
<1>7. Offers' = {C!Heard(o, k, l) : o \in Offers}
                  \cup {[key |-> k, name |-> n, owner |-> op[p].acct, meta |-> l[n]] :
                          n \in C!Unheard(k, l)}
  <2> DEFINE Added(n) == [key |-> k, name |-> n, owner |-> op[p].acct, meta |-> l[n]]
  <2>1. Offers' = {Offer(q)' : q \in rows'} /\ Offers = {Offer(r) : r \in rows}
    BY Unshadowed, UnshadowedNext
  <2>2. ASSUME NEW x \in Offers'
        PROVE  \/ \E o \in Offers : x = C!Heard(o, k, l)
               \/ \E n \in C!Unheard(k, l) : x = Added(n)
    <3>1. PICK q \in rows' : x = Offer(q)'
      BY <2>1
    <3>2. CASE \E r \in rows : q = Refreshed(op[p], r)
      BY <1>3, <2>1, <3>1, <3>2
    <3>3. CASE \E n \in op[p].fresh : q = NewRow(op[p], n)
      BY <1>4, <1>5, <3>1, <3>3
    <3> QED
      BY <1>1, <3>2, <3>3
  <2>3. ASSUME NEW o \in Offers PROVE C!Heard(o, k, l) \in Offers'
    <3>1. PICK r \in rows : o = Offer(r)
      BY <2>1
    <3>2. PICK q : q = Refreshed(op[p], r)
      OBVIOUS
    <3>3. q \in rows'
      BY <1>1, <3>2
    <3> QED
      BY <1>3, <2>1, <3>1, <3>2, <3>3
  <2>4. ASSUME NEW n \in C!Unheard(k, l) PROVE Added(n) \in Offers'
    <3>1. PICK q : q = NewRow(op[p], n)
      OBVIOUS
    <3>2. q \in rows' /\ n \in op[p].fresh
      BY <1>1, <1>5, <3>1
    <3> QED
      BY <1>4, <2>1, <3>1, <3>2
  <2> HIDE DEF Added
  <2>5. Offers' = {C!Heard(o, k, l) : o \in Offers} \cup {Added(n) : n \in C!Unheard(k, l)}
    BY <2>2, <2>3, <2>4
  <2> QED
    BY <2>5 DEF Added
<1>8. Sources' = Sources /\ DOMAIN Sources = Connected
  BY <1>1 DEF Sources, Connected, SourceKey
<1>9. C!Listing(op[p].acct, l)
  BY <1>2, <1>7, <1>8 DEF C!Listing
<1> QED
  BY <1>6, <1>9 DEF C!Next

(* What the commit of a disconnect shows is that the account has gone, and   *)
(* its offers.                                                               *)
LEMMA DisconnectShows ==
  ASSUME Shorts = {}, Told, Told', NEW p \in Procs, DisconnectCommit(p)
  PROVE  C!Next
<1>1. /\ op[p] # Idle /\ WillDelete(op[p]) /\ ~ Connecting(op[p]) /\ op[p] \in Op /\ Step(p)
      /\ SessionOf(p)
  BY OpTypes DEF DisconnectCommit, WillDelete, Connecting, Step, Told, Base, TypeInv, Exact
<1>2. /\ Connected' = Connected \ {op[p].acct}
      /\ rows' = {r \in rows : Id(r) \notin op[p].touch}
  BY DEF DisconnectCommit, Connected
<1>3. op[p].acct \in Connected /\ op[p].acct \in Accounts
  BY <1>1, SourceOfOp DEF Op
<1>4. \A r \in rows : Id(r) \in op[p].touch <=> r.acct = op[p].acct
  BY <1>1, KeysOfUnit DEF SessionOf, WillDelete, Told
<1>5. \A a \in Connected' : Sources'[a] = Sources[a]
  BY <1>1, <1>2, SourcesKept
<1>6. Sources' = [b \in Connected \ {op[p].acct} |-> Sources[b]]
  BY <1>2, <1>5 DEF Sources
<1>7. \A r \in rows' : Offer(r)' = Offer(r)
  BY <1>1, <1>2, SameOffer
<1>8. Offers' = {o \in Offers : o.owner # op[p].acct}
  <2>1. \A r : Offer(r).owner = r.acct
    BY DEF Offer
  <2>2. Offers = {Offer(r) : r \in rows} /\ Offers' = {Offer(r)' : r \in rows'}
    BY Unshadowed, UnshadowedNext
  <2>3. rows' = {r \in rows : r.acct # op[p].acct}
    BY <1>2, <1>4
  <2>4. Offers' = {Offer(r) : r \in rows'}
    BY <1>7, <2>2
  <2>5. ASSUME NEW x \in Offers, x.owner # op[p].acct PROVE x \in Offers'
    <3>1. PICK r \in rows : x = Offer(r)
      BY <2>2
    <3>2. r \in rows'
      BY <2>1, <2>3, <2>5, <3>1
    <3> QED
      BY <2>4, <3>1, <3>2
  <2>6. ASSUME NEW x \in Offers' PROVE x \in Offers /\ x.owner # op[p].acct
    <3>1. PICK r \in rows' : x = Offer(r)
      BY <2>4, <2>6
    <3> QED
      BY <2>1, <2>2, <2>3, <3>1
  <2> QED
    BY <2>5, <2>6
<1>9. C!Disconnect(op[p].acct)
  BY <1>3, <1>6, <1>8 DEF C!Disconnect, Sources
<1> QED
  BY <1>3, <1>9 DEF C!Next

(* Any other step shows nothing.                                             *)
LEMMA OtherStepsShowNothing ==
  ASSUME Shorts = {}, Told, Told', NEW p \in Procs, Step(p),
         ~ ConnectPersist(p), ~ UpsertCommit(p), ~ DisconnectCommit(p)
  PROVE  UNCHANGED <<Sources, Offers>>
<1>1. UNCHANGED rows /\ Connected' = Connected
  BY DEF Step, ConnectStart, SyncStart, SyncInvalid, SyncDiscover, SyncTouch, UpsertRead,
     DisconnectRead, Abandon, Connected, Told, Base, TypeInv, TypeOK
<1>2. Sources' = Sources
  BY <1>1, SourcesKept DEF Sources
<1>3. Offers' = Offers
  BY <1>1, SameOffer, Unshadowed, UnshadowedNext
<1> QED
  BY <1>2, <1>3

(* What connect, sync and disconnect do to the models that can be routed to, *)
(* with all their reads, commits, failures and interleavings, is what the    *)
(* catalogue's three steps do - as long as operations that overlap are about *)
(* different sources, and ids are given in full.                             *)
THEOREM Refines == ASSUME Shorts = {} PROVE ApartSpec => ImplementsCatalogue
<1>1. Init => C!Init
  BY DEF Init, C!Init, Sources, Offers, Enabled, Connected
<1>2. Told /\ Told' /\ [Next /\ Apart']_vars => [C!Next]_(C!vars)
  <2> SUFFICES ASSUME Told, Told', [Next]_vars PROVE [C!Next]_(C!vars)
    OBVIOUS
  <2>1. CASE UNCHANGED vars
    BY <2>1 DEF vars, C!vars, Sources, Offers, Enabled, Offer, SameIdentity, ListedBefore, KeyOf, Connected
  <2>2. ASSUME NEW p \in Procs, Step(p) PROVE [C!Next]_(C!vars)
    BY <2>2, ConnectShows, UpsertShows, DisconnectShows, OtherStepsShowNothing DEF C!vars
  <2> QED
    BY <2>1, <2>2 DEF Next
<1> QED
  BY <1>1, <1>2, ToldAlways, PTL DEF ApartSpec, ImplementsCatalogue, C!Spec
=============================================================================
