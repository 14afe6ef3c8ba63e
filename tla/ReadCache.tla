------------------------------- MODULE ReadCache -------------------------------
(***************************************************************************)
(* The API's cached answers: what the read use cases put into Redis, what  *)
(* makes it stale, and what takes it out again: program events heard over  *)
(* a websocket, joins, and the time to live.                               *)
(*                                                                         *)
(* A datum is the set of changes it reflects.  The model follows one       *)
(* organization, one wallet and one token, with one API process.           *)
(***************************************************************************)
EXTENDS Naturals, Sequences, FiniteSets, SequencesExt

CONSTANTS
    Requests,       \* requests that may run at the same time
    Keys,           \* the cached answers of the instance
    MaxChanges,     \* bound: changes of what the answers are made from
    MaxLosses,      \* bound: restarts and closed sockets
    None            \* no entry, no request

(* What each answer is made from, in the order it is read.  The token      *)
(* descriptions that come with balances do not change.                     *)
OrganizationDetails == <<"chain", "rows">>
Organizations       == <<"chain", "rows">>
Proposals           == <<"chain", "rows">>
OrganizationMembers == <<"rows", "chain">>
OrganizationBalance == <<"chain">>
UserBalance         == <<"wallet">>
TokenPrice          == <<"market">>

Plan == [organization         |-> OrganizationDetails,
         organizations        |-> Organizations,
         proposals            |-> Proposals,
         organization_members |-> OrganizationMembers,
         organization_balance |-> OrganizationBalance,
         user_balance         |-> UserBalance,
         price                |-> TokenPrice]

ASSUME CacheAssumption == Keys \subseteq DOMAIN Plan /\ MaxChanges \in Nat /\ MaxLosses \in Nat

(* Answers that a request may ask to have read again. *)
Revalidated == {"organization_balance", "user_balance"}

(* Answers that are stored again while they are there.  Only for these the *)
(* age of an entry matters: storing starts the time to live anew.          *)
Restored == Revalidated \cup {"price"}

MadeFrom(k) == ToSet(Plan[k])

VARIABLES
    changes,    \* everything that has changed, and what became of the news
    entries,    \* the entries of Redis
    reads,      \* requests that are reading
    socket,     \* the websocket to the network
    process,    \* "starting" until the socket has been open, then "listening"
    losses

cacheVars == <<changes, entries, reads, socket, process, losses>>

(* The news of a change is on its way, waits for the cache to be cleared,  *)
(* clears it (while keys are left to delete), or is heard by nobody.  A    *)
(* node may not show a change yet that another announced.                  *)
Change == [source : {"chain", "rows", "wallet", "market"}, visible : BOOLEAN,
           news : {"sent", "waiting", "clearing", "unheard"}, left : SUBSET Keys]

(* A request read before a clear may store after it: it was overtaken.  An *)
(* old entry is due to expire.                                             *)
Datum == SUBSET (1..MaxChanges)
Entry == [value : Datum, overtaken : BOOLEAN, old : BOOLEAN]
Read  == [key : Keys, left : Seq({"chain", "rows", "wallet", "market"}), value : Datum,
          overtaken : BOOLEAN]

ChangesOf(sources) == {j \in DOMAIN changes : changes[j].source \in sources}

Missing(k, value) == ChangesOf(MadeFrom(k)) \ value

-----------------------------------------------------------------------------
(* Changes. *)
HearsEvents == process = "listening" /\ socket = "open"

Happen(source, news, left) ==
    /\ Len(changes) < MaxChanges
    /\ changes' = Append(changes, [source |-> source, visible |-> source # "chain",
                                   news |-> news, left |-> left])

(* An instruction succeeds.  Some emit no event: create_organization,      *)
(* update_organization_parameters, renew_contributor, the two of the       *)
(* metadata and initialize_treasury_registry.                              *)
ExecuteInstruction(announced) ==
    /\ Happen("chain", IF announced /\ HearsEvents THEN "sent" ELSE "unheard", {})
    /\ UNCHANGED <<entries, reads, socket, process, losses>>

(* Rows stored by the use cases, other than joining; they clear nothing. *)
StoreRows ==
    /\ process = "listening"
    /\ Happen("rows", "unheard", {})
    /\ UNCHANGED <<entries, reads, socket, process, losses>>

(* join-organization makes the member and then deletes two keys. *)
JoinOrganization ==
    /\ process = "listening"
    /\ Happen("rows", "clearing", Keys \cap {"organization", "organizations"})
    /\ UNCHANGED <<entries, reads, socket, process, losses>>

(* Wallets' balances and prices change without a sign. *)
MoveMarket(source) ==
    /\ Happen(source, "unheard", {})
    /\ UNCHANGED <<entries, reads, socket, process, losses>>

CatchUp(j) ==
    /\ ~changes[j].visible
    /\ changes' = [changes EXCEPT ![j].visible = TRUE]
    /\ UNCHANGED <<entries, reads, socket, process, losses>>

-----------------------------------------------------------------------------
(* Reading.  A hit changes nothing, but a price that is asked for is       *)
(* stored again.                                                           *)
Miss(k) == entries[k] = None

StartRead(r, k) ==
    /\ process = "listening" /\ reads[r] = None
    /\ Miss(k) \/ k \in Revalidated
    /\ reads' = [reads EXCEPT ![r] =
                      [key |-> k, left |-> Plan[k], value |-> {}, overtaken |-> FALSE]]
    /\ UNCHANGED <<changes, entries, socket, process, losses>>

GetTokenPrice(r) ==
    /\ process = "listening" /\ reads[r] = None
    /\ "price" \in Keys /\ ~Miss("price")
    /\ reads' = [reads EXCEPT ![r] =
                      [key |-> "price", left |-> <<>>, value |-> entries["price"].value,
                       overtaken |-> entries["price"].overtaken]]
    /\ UNCHANGED <<changes, entries, socket, process, losses>>

(* A chain read may go to a node that has yet to catch up. *)
ReadSource(r) ==
    /\ reads[r] # None /\ reads[r].left # <<>>
    /\ LET read == {j \in ChangesOf({Head(reads[r].left)}) : changes[j].visible}
       IN  reads' = [reads EXCEPT ![r].left = Tail(@), ![r].value = @ \cup read]
    /\ UNCHANGED <<changes, entries, socket, process, losses>>

StoreAnswer(r) ==
    /\ reads[r] # None /\ reads[r].left = <<>>
    /\ entries' = [entries EXCEPT ![reads[r].key] =
                     [value |-> reads[r].value, overtaken |-> reads[r].overtaken,
                      old |-> reads[r].key \notin Restored]]
    /\ reads' = [reads EXCEPT ![r] = None]
    /\ UNCHANGED <<changes, socket, process, losses>>

(* A source fails, three times over where it is retried; a balance may     *)
(* then be answered from the cache.  Or there is no row for the members.   *)
GiveUp(r) ==
    /\ reads[r] # None /\ reads[r].left # <<>>
    /\ reads' = [reads EXCEPT ![r] = None]
    /\ UNCHANGED <<changes, entries, socket, process, losses>>

-----------------------------------------------------------------------------
(* Program events. *)
Overtake(keys) ==
    reads' = [r \in Requests |->
                   IF reads[r] # None /\ reads[r].key \in keys
                   THEN [reads[r] EXCEPT !.overtaken = TRUE] ELSE reads[r]]

(* A message has the events of one transaction, here the sizes of their    *)
(* largest numbers: one beyond 2^53 - 1 cannot be converted, and none of   *)
(* the events is handled then.                                             *)
Sizes == {"safe", "beyond"}

Parses(message) == "beyond" \notin message

(* The handler starts a clear for each event, which wait and end together, *)
(* and tells the clients without waiting for them.                         *)
HandleEvents(j, message) ==
    /\ HearsEvents /\ changes[j].news = "sent"
    /\ changes' = [changes EXCEPT ![j].news = IF Parses(message) THEN "waiting" ELSE "unheard"]
    /\ UNCHANGED <<entries, reads, socket, process, losses>>

FaultyClearCache(j) ==                       \* fault: no wait before the keys are listed
    /\ changes[j].news = "waiting"
    /\ LET keys == {k \in Keys : ~Miss(k)}
       IN  /\ changes' = [changes EXCEPT ![j].news = "clearing", ![j].left = keys]
           /\ Overtake(Keys \ keys)
    /\ UNCHANGED <<entries, socket, process, losses>>

(* The wait of 20 seconds is taken to be longer than any node lags.  Then  *)
(* the keys are listed, once; what is stored from then on is not seen.     *)
ClearCache(j) ==
    /\ changes[j].news = "waiting" /\ changes[j].visible
    /\ LET keys == {k \in Keys : ~Miss(k)}
       IN  /\ changes' = [changes EXCEPT ![j].news = "clearing", ![j].left = keys]
           /\ Overtake(Keys \ keys)
    /\ UNCHANGED <<entries, socket, process, losses>>

DeleteKey(j, k) ==
    /\ changes[j].news = "clearing" /\ k \in changes[j].left
    /\ changes[j].source = "rows" /\ k = "organizations" => "organization" \notin changes[j].left
    /\ entries' = [entries EXCEPT ![k] = None]
    /\ changes' = [changes EXCEPT ![j].left = @ \ {k}]
    /\ Overtake({k})
    /\ UNCHANGED <<socket, process, losses>>

FaultyTimeToLive(k) == FALSE                 \* fault: entries are stored without one

TimeToLive(k) == TRUE

(* The time to live runs from the last time an entry was stored. *)
GrowOld(k) ==
    /\ ~Miss(k) /\ ~entries[k].old
    /\ entries' = [entries EXCEPT ![k].old = TRUE]
    /\ UNCHANGED <<changes, reads, socket, process, losses>>

Expire(k) ==
    /\ ~Miss(k) /\ TimeToLive(k) /\ entries[k].old
    /\ entries' = [entries EXCEPT ![k] = None]
    /\ UNCHANGED <<changes, reads, socket, process, losses>>

-----------------------------------------------------------------------------
(* The listener opens one socket, and the process serves no request until  *)
(* it is open and subscribed.  A socket that closes is not opened again.   *)
OpenSocket ==
    /\ socket = "connecting"
    /\ socket' = "open"
    /\ UNCHANGED <<changes, entries, reads, process, losses>>

FaultyStartMonitoring ==                     \* fault: requests are served at once
    /\ process = "starting"
    /\ process' = "listening"
    /\ UNCHANGED <<changes, entries, reads, socket, losses>>

StartMonitoring ==
    /\ process = "starting" /\ socket = "open"
    /\ process' = "listening"
    /\ UNCHANGED <<changes, entries, reads, socket, losses>>

Forget(lost) ==
    changes' = [j \in DOMAIN changes |-> IF j \in lost
                  THEN [changes[j] EXCEPT !.news = "unheard", !.left = {}] ELSE changes[j]]

OnItsWay == {j \in DOMAIN changes : changes[j].news = "sent"}
InProcess == {j \in DOMAIN changes : changes[j].news = "waiting" \/ changes[j].left # {}}

CloseSocket ==
    /\ socket # "closed" /\ losses < MaxLosses
    /\ losses' = losses + 1
    /\ socket' = "closed"
    /\ Forget(OnItsWay)
    /\ UNCHANGED <<entries, reads, process>>

(* Redis keeps its entries; requests and the waits for a clear are lost. *)
Restart ==
    /\ losses < MaxLosses
    /\ losses' = losses + 1
    /\ process' = "starting" /\ socket' = "connecting"
    /\ reads' = [r \in Requests |-> None]
    /\ Forget(OnItsWay \cup InProcess)
    /\ UNCHANGED entries

-----------------------------------------------------------------------------
CacheInit ==
    /\ changes = <<>>
    /\ entries = [k \in Keys |-> None]
    /\ reads = [r \in Requests |-> None]
    /\ socket = "connecting"
    /\ process = "starting"
    /\ losses = 0

Happens ==
    \/ \E announced \in BOOLEAN : ExecuteInstruction(announced)
    \/ StoreRows
    \/ JoinOrganization
    \/ \E source \in {"wallet", "market"} \cap UNION {MadeFrom(k) : k \in Keys} : MoveMarket(source)

Serve(r) == ReadSource(r) \/ StoreAnswer(r) \/ GiveUp(r)

Clear(j) == ClearCache(j) \/ (\E k \in Keys : DeleteKey(j, k))

CacheNext ==
    \/ Happens
    \/ \E j \in DOMAIN changes : CatchUp(j) \/ Clear(j)
    \/ \E j \in DOMAIN changes, message \in SUBSET Sizes \ {{}} : HandleEvents(j, message)
    \/ \E r \in Requests, k \in Keys : StartRead(r, k)
    \/ \E r \in Requests : GetTokenPrice(r) \/ Serve(r)
    \/ \E k \in Keys : GrowOld(k) \/ Expire(k)
    \/ OpenSocket \/ StartMonitoring \/ CloseSocket \/ Restart

CacheSpec == CacheInit /\ [][CacheNext]_cacheVars

(* Nodes catch up, requests end one way or the other, clears run to their  *)
(* end, and time passes.  Nothing is assumed of sockets, events and users. *)
FairCacheSpec ==
    /\ CacheSpec
    /\ \A j \in 1..MaxChanges : WF_cacheVars(j \in DOMAIN changes /\ (CatchUp(j) \/ Clear(j)))
    /\ \A r \in Requests : WF_cacheVars(Serve(r))
    /\ \A k \in Keys : WF_cacheVars(GrowOld(k)) /\ WF_cacheVars(Expire(k))

-----------------------------------------------------------------------------
CacheTypeOK ==
    /\ changes \in Seq(Change) /\ Len(changes) <= MaxChanges
    /\ entries \in [Keys -> Entry \cup {None}]
    /\ \A r \in Requests : reads[r] # None => reads[r] \in Read
    /\ socket \in {"connecting", "open", "closed"}
    /\ process \in {"starting", "listening"}
    /\ process = "listening" => socket # "connecting"
    /\ losses \in 0..MaxLosses

(* An entry lacks a change only for a reason: nobody heard of the change,  *)
(* its clear is still to reach the entry, it is a join, which forgets all  *)
(* but two keys, or the entry was stored by a request the clear overtook.  *)
(* A clear that ran after its change was to be seen leaves nothing else.   *)
WillReach(j, k) == changes[j].news \in {"sent", "waiting"} \/ k \in changes[j].left

StaleHasCause ==
    \A k \in Keys : entries[k] # None /\ ~entries[k].overtaken =>
        \A j \in Missing(k, entries[k].value) :
            \/ changes[j].news = "unheard"
            \/ WillReach(j, k)
            \/ changes[j].source = "rows" /\ k \notin {"organization", "organizations"}

(* Under FairCacheSpec, whatever was missed, overtaken or lost in a        *)
(* restart, every answer is up to date for good once changes have stopped; *)
(* all but the price, which each request for it keeps alive.               *)
CacheSettles ==
    \A k \in Keys \ {"price"} :
        <>[](entries[k] # None => Missing(k, entries[k].value) = {})
=============================================================================
