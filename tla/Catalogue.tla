------------------------------ MODULE Catalogue ------------------------------
(***************************************************************************)
(* What the registry promises: the models that can be routed to, as if      *)
(* connect, sync and disconnect each took one step.  An account stands for  *)
(* a source - an endpoint, or a cloud provider - and a listing of any       *)
(* account of a source says what the source offers.  An offer belongs to    *)
(* the account whose listing named it first and leaves with that account.   *)
(***************************************************************************)
CONSTANTS Accounts, Keys, Names, Metas

VARIABLES
  sources,  \* sources[a]: the key of the source a connected account stands for
  offers    \* one offer per source and model name

vars == <<sources, offers>>

Listings == UNION {[S -> Metas] : S \in SUBSET Names}

Init == sources = <<>> /\ offers = {}

Connect(a, k) ==
  /\ a \notin DOMAIN sources
  /\ sources' = [b \in DOMAIN sources \cup {a} |-> IF b = a THEN k ELSE sources[b]]
  /\ UNCHANGED offers

(* A listing refreshes the offers of its own source that it names, adds     *)
(* those the source did not have, and takes none away.                      *)
Heard(o, k, l) ==
  IF o.key = k /\ o.name \in DOMAIN l THEN [o EXCEPT !.meta = l[o.name]] ELSE o
Unheard(k, l) == {n \in DOMAIN l : \A o \in offers : ~ (o.key = k /\ o.name = n)}
Listing(a, l) ==
  /\ a \in DOMAIN sources
  /\ offers' = {Heard(o, sources[a], l) : o \in offers}
                 \cup {[key |-> sources[a], name |-> n, owner |-> a, meta |-> l[n]] :
                         n \in Unheard(sources[a], l)}
  /\ UNCHANGED sources

(* The offers go that the account was the first to name, also when another  *)
(* account of the same source stays.                                        *)
Disconnect(a) ==
  /\ a \in DOMAIN sources
  /\ sources' = [b \in DOMAIN sources \ {a} |-> sources[b]]
  /\ offers' = {o \in offers : o.owner # a}

Next ==
  \E a \in Accounts :
    \/ \E k \in Keys : Connect(a, k)
    \/ \E l \in Listings : Listing(a, l)
    \/ Disconnect(a)

Spec == Init /\ [][Next]_vars
=============================================================================
