------------------------------- MODULE Traffic --------------------------------
(***************************************************************************)
(* What is measured and limited per client: the byte counts of the         *)
(* OUTGOING rules in the kernel, the counters of the entries that          *)
(* iptables_fw_counters_update derives from them, whom the timeout thread  *)
(* takes for idle, and the rate limits of TrafficControl, which is on      *)
(* here.                                                                   *)
(*                                                                         *)
(* Everything but the writing of the limits in authenticate_client happens *)
(* under the client list lock, one step each; only the loop of the timeout *)
(* thread keeps the lock over a step for every client.  Incoming traffic   *)
(* is counted in the same way and updates no time; what it leads to, the   *)
(* end of a session by time and the lists of MACs are part of Portal.      *)
(***************************************************************************)
EXTENDS TrafficControl, SequencesExt, FiniteSets, FiniteSetsExt

CONSTANTS
    Guests,        \* the hosts that come
    BinLimits,     \* pairs of upload and download limits a binauth program may print
    IdleTimeout,   \* config->auth_idle_timeout, 0 for none
    PreauthIdleTimeout,
    MaxClients,    \* config->maxclients
    MaxId, MaxBytes, MaxTime   \* bounds of the model

ASSUME TrafficAssumption ==
    /\ BinLimits \subseteq Int \X Int
    /\ Guests \subseteq Peer
    /\ {IdleTimeout, PreauthIdleTimeout, MaxBytes, MaxTime} \subseteq Nat
    /\ {MaxClients, MaxId} \subseteq Nat \ {0}

VARIABLES
    list,        \* the client list, a sequence of entries
    client_id,   \* the id of the next entry
    out,         \* peer -> bytes counted by its OUTGOING rule, -1 without one
    granting,    \* the webserver, between auth_client_auth and the limits: host and id
    timer,       \* the timeout thread: pc, the time it took at the begin of the round,
                 \* and the place in the list where its loop is
    now,
    sent,        \* history: host -> when it last sent something
    shared       \* history: hosts that began their session beside another entry with their
                 \* IP, or have been credited with what another host sent

vars == <<list, client_id, out, granting, timer, now, sent, shared, tc>>

(* The entry of a client.  imported: it comes from a state file. *)
Entry == [peer : Peer, id : 1..MaxId, authenticated : BOOLEAN,
          outgoing : 0..MaxBytes, last_updated : 0..MaxTime,
          upload_limit : Nat, download_limit : Nat, imported : BOOLEAN]

(* The limits iptables_fw_authenticate and iptables_fw_deauthenticate use:   *)
(* those of the client when it has both, else those of the configuration.    *)
Limits(e) ==
    IF e.download_limit > 0 /\ e.upload_limit > 0
    THEN [down |-> e.download_limit, up |-> e.upload_limit]
    ELSE [down |-> DownloadLimit, up |-> UploadLimit]

Attached(t, e) == tc_attach_client(t, Limits(e).down, Limits(e).up, e.id, IpOfPeer(e.peer))
Detached(t, e) == tc_detach_client(t, Limits(e).down, Limits(e).up, e.id)

(* A start finds no state file, or imports a client: its id, limits and      *)
(* counters come back, its rule counts from zero, and client_id counts the   *)
(* entries, not their ids.                                                   *)
Imported ==
    [peer : Guests, id : 1..(MaxId - 1), authenticated : {TRUE}, outgoing : {0, MaxBytes},
     last_updated : {0}, upload_limit : {0}, download_limit : {0}, imported : {TRUE}]

Init ==
    /\ \/ /\ list = <<>>
          /\ out = [p \in Guests |-> -1]
          /\ tc = tc_init_tc
       \/ \E e \in Imported :
             /\ list = <<e>>
             /\ out = [p \in Guests |-> IF p = e.peer THEN 0 ELSE -1]
             /\ tc \in Attached(tc_init_tc, e)
    /\ client_id = Len(list) + 1
    /\ granting = <<>>
    /\ timer = [pc |-> "sleep", now |-> 0, at |-> 1]
    /\ now = 0
    /\ sent = [p \in Guests |-> 0]
    /\ shared = {}

-------------------------------------------------------------------------------
(* Entries, by their place in the list. *)

Places == DOMAIN list
IpAt(i) == IpOfPeer(list[i].peer)

WithIp(ip) == {i \in Places : IpAt(i) = ip}
Sessions(ip) == {i \in WithIp(ip) : list[i].authenticated}

(* Ids may clash after an import: a lookup finds the first. *)
WithId(id) == {i \in Places : list[i].id = id}
client_list_find_by_id(id) == Min(WithId(id))

LockFree == timer.pc # "loop"

client_reset_KeepsCounters(e) == [e EXCEPT !.last_updated = now]

(* The limits of the entry stay. *)
client_reset(e) == [e EXCEPT !.outgoing = 0, !.last_updated = now]

NewEntry(peer) ==
    [peer |-> peer, id |-> client_id, authenticated |-> FALSE, outgoing |-> 0,
     last_updated |-> now, upload_limit |-> 0, download_limit |-> 0, imported |-> FALSE]

-------------------------------------------------------------------------------
(* Requests and the administrator. *)

AddClient(peer) ==
    /\ LockFree
    /\ \A i \in Places : list[i].peer # peer
    /\ Len(list) < MaxClients /\ client_id < MaxId
    /\ list' = Append(list, NewEntry(peer))
    /\ client_id' = client_id + 1
    /\ shared' = shared \ {peer}
    /\ UNCHANGED <<out, granting, timer, now, sent, tc>>

iptables_fw_authenticate(i) ==
    /\ LockFree /\ ~list[i].authenticated
    /\ out' = [out EXCEPT ![list[i].peer] = 0]   \* the OUTGOING rule counts from 0
    /\ tc' \in Attached(tc, list[i])
    /\ list' = [list EXCEPT ![i].authenticated = TRUE]
    /\ shared' = IF WithIp(IpAt(i)) = {i} THEN shared
                 ELSE shared \cup {list[j].peer : j \in Sessions(IpAt(i)) \cup {i}}
    /\ UNCHANGED <<client_id, timer, now, sent>>

(* auth_client_auth for the client at i, by its id. *)
HttpAuthenticate(i) ==
    /\ granting = <<>>
    /\ granting' = <<list[i].peer, list[i].id>>
    /\ iptables_fw_authenticate(client_list_find_by_id(list[i].id))

NdsctlAuth(i) ==
    /\ iptables_fw_authenticate(client_list_find_by_id(list[i].id))
    /\ UNCHANGED granting

Stored_AsPrinted(limit) == limit

(* do_binauth: MAX(.., 0) *)
Stored(limit) == IF limit > 0 THEN limit ELSE 0

(* authenticate_client stores what binauth printed, through its pointer.     *)
(* Nothing is observed of a write to an entry that was freed meanwhile.      *)
SetLimits ==
    /\ granting # <<>>
    /\ granting' = <<>>
    /\ \E limits \in BinLimits :
          list' = [i \in Places |->
                     IF <<list[i].peer, list[i].id>> = granting
                     THEN [list[i] EXCEPT !.upload_limit = Stored(limits[1]),
                                           !.download_limit = Stored(limits[2])]
                     ELSE list[i]]
    /\ UNCHANGED <<client_id, out, timer, now, sent, shared, tc>>

Preauthenticated(e) == [client_reset(e) EXCEPT !.authenticated = FALSE]

iptables_fw_deauthenticate(i) ==
    /\ list[i].authenticated
    /\ out' = [out EXCEPT ![list[i].peer] = -1]
    /\ tc' = Detached(tc, list[i])
    /\ list' = [list EXCEPT ![i] = Preauthenticated(list[i])]
    /\ shared' = shared \ {list[i].peer}

(* auth_client_deauth for the client at i, by a request or by ndsctl. *)
auth_client_deauth(i) ==
    /\ LockFree
    /\ iptables_fw_deauthenticate(client_list_find_by_id(list[i].id))
    /\ UNCHANGED <<client_id, granting, timer, now, sent>>

-------------------------------------------------------------------------------
(* Packets of authenticated clients, and time. *)

Send(peer) ==
    /\ out[peer] \in 0..(MaxBytes - 1)
    /\ out' = [out EXCEPT ![peer] = @ + 1]
    /\ sent' = [sent EXCEPT ![peer] = now]
    /\ UNCHANGED <<list, client_id, granting, timer, now, shared, tc>>

Tick ==
    /\ now < MaxTime
    /\ now' = now + 1
    /\ UNCHANGED <<list, client_id, out, granting, timer, sent, shared, tc>>

-------------------------------------------------------------------------------
(* fw_refresh_client_list *)

(* The counts are credited to the first entry with the IP, when they exceed  *)
(* what it has.                                                              *)
Counts(ip) == {out[p] : p \in {q \in Guests : IpOfPeer(q) = ip}}

Credited(i) ==
    LET e == list[i]
        n == Max(Counts(IpAt(i)) \cup {e.outgoing})
    IN IF i = Min(WithIp(IpAt(i))) /\ n > e.outgoing
       THEN [e EXCEPT !.outgoing = n, !.last_updated = now] ELSE e

CreditedForAnother(i) == Credited(i).outgoing \notin {list[i].outgoing, out[list[i].peer]}

iptables_fw_counters_update ==
    /\ timer.pc = "update"
    /\ list' = [i \in Places |-> Credited(i)]
    /\ shared' = shared \cup {list[i].peer : i \in {j \in Places : CreditedForAnother(j)}}
    /\ timer' = [timer EXCEPT !.pc = "lock"]
    /\ UNCHANGED <<client_id, out, granting, now, sent, tc>>

(* The round begins with the time. *)
RoundBegins ==
    /\ timer.pc = "sleep"
    /\ timer' = [timer EXCEPT !.pc = "update", !.now = now]
    /\ UNCHANGED <<list, client_id, out, granting, now, sent, shared, tc>>

Idle(e) ==
    LET timeout == IF e.authenticated THEN IdleTimeout ELSE PreauthIdleTimeout IN
    timeout > 0 /\ e.last_updated + timeout <= timer.now

LoopBegins ==
    /\ timer.pc = "lock"
    /\ timer' = [timer EXCEPT !.pc = "loop", !.at = 1]
    /\ UNCHANGED <<list, client_id, out, granting, now, sent, shared, tc>>

(* The entry at hand is looked up again by its id.  An idle client loses its *)
(* session when it is authenticated, else its entry.                         *)
Revalidate ==
    /\ timer.pc = "loop" /\ timer.at \in Places
    /\ LET i == client_list_find_by_id(list[timer.at].id) IN
       \/ /\ Idle(list[i]) /\ iptables_fw_deauthenticate(i)
          /\ timer' = [timer EXCEPT !.at = @ + 1]
       \/ /\ Idle(list[i]) /\ ~list[i].authenticated
          /\ list' = RemoveAt(list, i)
          /\ UNCHANGED <<out, timer, shared, tc>>
       \/ /\ ~Idle(list[i])
          /\ timer' = [timer EXCEPT !.at = @ + 1]
          /\ UNCHANGED <<list, out, shared, tc>>
    /\ UNCHANGED <<client_id, granting, now, sent>>

LoopEnds ==
    /\ timer.pc = "loop" /\ timer.at \notin Places
    /\ timer' = [timer EXCEPT !.pc = "sleep", !.at = 1]
    /\ UNCHANGED <<list, client_id, out, granting, now, sent, shared, tc>>

-------------------------------------------------------------------------------
Next ==
    \/ \E peer \in Guests : AddClient(peer) \/ Send(peer)
    \/ \E i \in Places : HttpAuthenticate(i) \/ NdsctlAuth(i) \/ auth_client_deauth(i)
    \/ SetLimits
    \/ RoundBegins \/ iptables_fw_counters_update
    \/ LoopBegins \/ Revalidate \/ LoopEnds
    \/ Tick

TrafficSpec == Init /\ [][Next]_vars
-------------------------------------------------------------------------------
(* Every variable keeps its type; the limits stored for a client are never   *)
(* negative, whatever a binauth program prints.                              *)
TrafficTypeOK ==
    /\ list \in Seq(Entry) /\ Len(list) <= MaxClients
    /\ client_id \in 1..MaxId
    /\ out \in [Guests -> -1..MaxBytes]
    /\ granting \in {<<>>} \cup (Guests \X (1..MaxId))
    /\ timer \in [pc : {"sleep", "update", "lock", "loop"}, now : 0..MaxTime,
                  at : 1..(MaxClients + 1)]
    /\ now \in 0..MaxTime
    /\ sent \in [Guests -> 0..MaxTime]
    /\ shared \subseteq Guests

(* Nothing is left of the rate limits of a client that is no longer          *)
(* authenticated, although commands fail and the limits of an entry change   *)
(* between attaching and detaching (authenticate_client).                    *)
NoShapingLeft ==
    \A d \in Dev :
       LET own == UNION {TcId(list[i].id)..(TcId(list[i].id) + 2) :
                           i \in {j \in Places : list[j].authenticated}}
       IN {c.k : c \in tc[d].class} \cup {f.k : f \in tc[d].filter} \subseteq own

(* What is done for one client leaves the rate limits of the others alone,   *)
(* as long as their ids differ.                                              *)
ShapingUndisturbed ==
    [][\A i \in Places, j \in DOMAIN list' :
         (/\ \A k \in Places : k # i => list[k].id # list[i].id
          /\ list[i].authenticated /\ list'[j].authenticated
          /\ list'[j].id = list[i].id)
         => \A d \in Dev : ShapingOf(tc', d, list[i].id) = ShapingOf(tc, d, list[i].id)]_vars

(* Entries whose counters are those of their own host: not mixed up with     *)
(* those of another behind the same IP and not set by an import.             *)
OwnCounters(e) == e.authenticated /\ ~e.imported /\ e.peer \notin shared

(* Whoever is found idle when the counters are read, and loses its session   *)
(* in this round, had not sent anything for AuthIdleTimeout, across          *)
(* sessions and whatever earlier rules of the client had counted.            *)
ActiveStays ==
    [][(timer.pc = "update" /\ timer'.pc = "lock") =>
         \A i \in DOMAIN list' : (OwnCounters(list'[i]) /\ Idle(list'[i])) =>
             sent[list'[i].peer] + IdleTimeout <= timer.now]_vars
===============================================================================
