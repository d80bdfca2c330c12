------------------------------ MODULE ClientList ------------------------------
(***************************************************************************)
(* The list of connected clients (client_list.c).                          *)
(*                                                                         *)
(* A t_client lives at an address of the heap; the linked list is the set  *)
(* `clients' of the addresses reachable from firstclient, ordered by the   *)
(* field `ord': _client_list_append adds at the end and client_list_delete *)
(* keeps the order of the others, so the order of the list is the order of *)
(* the appends.  A freed address keeps its bytes until malloc reuses it,   *)
(* and may still be pointed to by a thread.                                *)
(*                                                                         *)
(* The byte counters are kept as the two facts the timeout check reads:    *)
(* last_updated, and over_limit (a session_limit_block is configured and   *)
(* incoming is above it).                                                  *)
(* Tokens are random and not stored: a lookup by token names the entry.    *)
(***************************************************************************)
EXTENDS Integers, FiniteSets, Hosts

CONSTANTS
    Node,         \* heap addresses a t_client may be allocated at
    Null,         \* the NULL pointer
    MaxClients,   \* config->maxclients
    MaxId         \* bound of the model: client_id stays at most MaxId

ASSUME NullAssumption == Null \notin Node
ASSUME MaxClientsAssumption == MaxClients \in Nat \ {0}
ASSUME MaxIdAssumption == MaxId \in Nat \ {0}

VARIABLES
    heap,          \* address -> the t_client bytes at it
    clients,       \* addresses on the list
    client_id,     \* static int client_id, the id of the next entry
    client_count   \* static int client_count

listVars == <<heap, clients, client_id, client_count>>

FW_MARK_PREAUTHENTICATED == "Preauthenticated"
FW_MARK_AUTHENTICATED    == "Authenticated"
FW_MARK_TRUSTED          == "Trusted"
FW_MARK_BLOCKED          == "Blocked"

Mark == {FW_MARK_PREAUTHENTICATED, FW_MARK_AUTHENTICATED,
         FW_MARK_TRUSTED, FW_MARK_BLOCKED}

(* The bytes at an address; peer is Null where malloc never placed a client, *)
(* and ord is the place of the entry in the list.                            *)
t_client == [peer : Peer \cup {Null}, id : Nat, ord : Nat,
             fw_connection_state : Mark, session_end : Nat,
             last_updated : Nat, over_limit : BOOLEAN]

PeerOf(n)  == heap[n].peer
MacOf(n)   == heap[n].peer[1]
IpOf(n)    == heap[n].peer[2]
StateOf(n) == heap[n].fw_connection_state

(* No address was ever used for a client. *)
FreshHeap ==
    [n \in Node |->
       [peer |-> Null, id |-> 0, ord |-> 0,
        fw_connection_state |-> FW_MARK_PREAUTHENTICATED,
        session_end |-> 0, last_updated |-> 0, over_limit |-> FALSE]]

client_list_init ==
    /\ heap = FreshHeap
    /\ clients = {}
    /\ client_id = 1
    /\ client_count = 0

-------------------------------------------------------------------------------
(* Lookups: every one walks the list and returns the first match. *)

FirstOf(S) ==
    IF S = {} THEN Null
    ELSE CHOOSE n \in S : \A k \in S : heap[n].ord <= heap[k].ord

client_get_first_client == FirstOf(clients)
NextClient(n) == FirstOf({k \in clients : heap[k].ord > heap[n].ord})

client_list_find_IgnoresMac(peer) == FirstOf({n \in clients : IpOf(n) = peer[2]})

client_list_find(peer)       == FirstOf({n \in clients : PeerOf(n) = peer})
client_list_find_by_id(id)   == FirstOf({n \in clients : heap[n].id = id})
client_list_find_by_ip(ip)   == FirstOf({n \in clients : IpOf(n) = ip})
client_list_find_by_mac(mac) == FirstOf({n \in clients : MacOf(n) = mac})

(* The argument of ndsctl: a token, an IP or a MAC, tried in that order.  A  *)
(* token is named by the entry that holds it.                                *)
client_list_find_by_any(arg) ==
    IF arg \in clients THEN arg
    ELSE IF arg \in Ip THEN client_list_find_by_ip(arg)
    ELSE client_list_find_by_mac(arg)

-------------------------------------------------------------------------------
(* Updates.  An operator whose name ends in a capitalised word is a bug one  *)
(* could plausibly write in the definition below it.                         *)

(* client_reset clears the counters and the session (and draws a new token); *)
(* it leaves the download and upload limits of the client alone.             *)
client_reset(c, time) ==
    [c EXCEPT !.last_updated = time, !.over_limit = FALSE, !.session_end = 0]

ListFull == client_count >= MaxClients

(* The place behind the last entry. *)
NextPlace ==
    CHOOSE o \in {heap[n].ord + 1 : n \in clients} \cup {1} :
       \A n \in clients : heap[n].ord < o

NewClient(peer, id, state, time) ==
    [peer |-> peer, id |-> id, ord |-> NextPlace, fw_connection_state |-> state,
     session_end |-> 0, last_updated |-> time, over_limit |-> FALSE]

client_list_append_IdNotAdvanced(n, peer, state, time) ==
    /\ heap' = [heap EXCEPT ![n] = NewClient(peer, client_id, state, time)]
    /\ clients' = clients \cup {n}
    /\ client_count' = client_count + 1
    /\ UNCHANGED client_id

client_list_append_IdFromCount(n, peer, state, time) ==
    /\ heap' = [heap EXCEPT ![n] = NewClient(peer, client_count + 1, state, time)]
    /\ clients' = clients \cup {n}
    /\ client_id' = client_id + 1
    /\ client_count' = client_count + 1

(* _client_list_append at the address n that malloc returned; `state' is     *)
(* what the MAC lists say.  The caller below has tested ListFull.            *)
client_list_append(n, peer, state, time) ==
    /\ heap' = [heap EXCEPT ![n] = NewClient(peer, client_id, state, time)]
    /\ clients' = clients \cup {n}
    /\ client_id' = client_id + 1
    /\ client_count' = client_count + 1

client_list_add_client_SkipsLookup(n, peer, state, time) ==
    \/ ~ListFull /\ client_list_append(n, peer, state, time)
    \/ ListFull /\ UNCHANGED listVars

(* client_list_add_client: the lookup is repeated under the lock. *)
client_list_add_client(n, peer, state, time) ==
    \/ /\ client_list_find(peer) = Null
       /\ ~ListFull
       /\ client_list_append(n, peer, state, time)
    \/ client_list_find(peer) # Null /\ UNCHANGED listVars
    \/ client_list_find(peer) = Null /\ ListFull /\ UNCHANGED listVars

(* What client_list_add_client returns. *)
AddedClient(n, peer) ==
    IF client_list_find(peer) # Null THEN client_list_find(peer)
    ELSE IF ListFull THEN Null ELSE n

client_list_delete_KeepsCount(n) ==
    /\ clients' = clients \ {n}
    /\ UNCHANGED <<heap, client_id, client_count>>

(* client_list_delete: unlinked and freed, the bytes stay; an address that   *)
(* is not on the list is only complained about.                              *)
client_list_delete(n) ==
    /\ clients' = clients \ {n}
    /\ client_count' = IF n \in clients THEN client_count - 1 ELSE client_count
    /\ UNCHANGED <<heap, client_id>>

-------------------------------------------------------------------------------
(* What the list promises its callers, whichever thread calls and whatever   *)
(* the callers write into the other fields of an entry.                      *)

SameEntry(c, d) == c.peer = d.peer /\ c.id = d.id /\ c.ord = d.ord

FieldWrites ==
    /\ heap' \in [Node -> t_client]
    /\ \A n \in Node : SameEntry(heap[n], heap'[n])
    /\ UNCHANGED <<clients, client_id, client_count>>

ListNext ==
    \/ \E n \in Node, peer \in Peer, state \in Mark :
          /\ n \in clients => ListFull
          /\ heap'[n].last_updated \in Nat
          /\ client_list_add_client(n, peer, state, heap'[n].last_updated)
    \/ \E n \in clients : client_list_delete(n)
    \/ FieldWrites

ListSpec == client_list_init /\ [][ListNext]_listVars

ListTypeOK ==
    /\ heap \in [Node -> t_client]
    /\ clients \subseteq Node
    /\ client_id \in Nat \ {0}
    /\ client_count \in Int

(* Two entries of the list never describe the same MAC and IP: the lookup    *)
(* without the lock in libmicrohttpd_cb is repeated by client_list_add_client.*)
UniquePeer ==
    \A n, k \in clients : PeerOf(n) = PeerOf(k) => n = k

(* An id names one entry and is not reused: the id a thread took before it   *)
(* waited for the lock, or reads from a freed entry, names no other entry.   *)
UniqueId ==
    /\ \A n \in clients, k \in Node : heap[n].id = heap[k].id => n = k
    /\ \A n \in clients : heap[n].id > 0
    /\ \A n \in Node : heap[n].id < client_id

(* client_count is the length of the list, which never exceeds maxclients.   *)
CountMatches ==
    /\ client_count = Cardinality(clients)
    /\ client_count <= MaxClients
===============================================================================
