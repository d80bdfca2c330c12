-------------------------------- MODULE Portal --------------------------------
(***************************************************************************)
(* The running daemon: the webserver thread of libmicrohttpd, the ndsctl   *)
(* thread and the client timeout thread over one client list.              *)
(*                                                                         *)
(* The client list lock is a mutex.  Only the timeout thread keeps it over *)
(* several steps (one per client of its loop); the critical sections of    *)
(* the others are one step, possible when the timeout thread is outside    *)
(* its loop.  The webserver thread also reads and writes entries without   *)
(* the lock: each such access is a step of its own.                        *)
(***************************************************************************)
EXTENDS Auth, Integers

CONSTANTS
    BinAuth,              \* config->binauth is set
    BinSeconds,           \* seconds the binauth script may print
    SessionTimeout,       \* 60 * config->session_timeout
    SessionTimeoutBlock,  \* config->session_timeout_block > 0
    PreauthIdleTimeout,   \* 60 * config->preauth_idle_timeout
    AuthIdleTimeout,      \* 60 * config->auth_idle_timeout
    AdminMac,             \* MACs ndsctl puts on and takes off the MAC lists
    MaxTime               \* bound of the model: the clock stops at MaxTime

ASSUME BooleanAssumption ==
    {BinAuth, SessionTimeoutBlock, SessionLimitBlock} \subseteq BOOLEAN
ASSUME TimeAssumption ==
    /\ {SessionTimeout, PreauthIdleTimeout, AuthIdleTimeout, MaxTime} \subseteq Nat
    /\ BinSeconds \subseteq Int
    /\ AdminMac \subseteq Mac

VARIABLES
    now,     \* time(NULL)
    http,    \* the request the webserver thread is serving
    ndsctl,  \* the command the ndsctl thread is serving
    timer    \* the timeout thread

vars == <<authVars, now, http, ndsctl, timer>>

HttpPc == {"idle", "add", "dispatch", "binauth", "auth", "session", "deauth"}

(* peer: where the request comes from; node: the t_client pointer; id:       *)
(* client->id as read before the lock is taken; start: `now' of              *)
(* authenticate_client; seconds: length of the session to grant.             *)
HttpThread == [pc : HttpPc, peer : Peer \cup {Null}, node : Node \cup {Null},
               id : Nat, start : Nat, seconds : Nat]

IdleHttp == [pc |-> "idle", peer |-> Null, node |-> Null,
             id |-> 0, start |-> 0, seconds |-> 0]

(* peer: the entry ndsctl_deauth found, kept for the properties. *)
NdsctlThread == [pc : {"idle", "deauth"}, id : Nat, peer : Peer \cup {Null}]
IdleNdsctl == [pc |-> "idle", id |-> 0, peer |-> Null]

(* now: `now' of fw_refresh_client_list; node: cp1 of its loop. *)
TimerThread == [pc : {"sleep", "counters", "lock", "loop"}, now : Nat,
                node : Node \cup {Null}]
IdleTimer == [pc |-> "sleep", now |-> 0, node |-> Null]

Init ==
    /\ client_list_init
    /\ ClientChainsInit
    /\ MacListsInit
    /\ now = 1
    /\ http = IdleHttp
    /\ ndsctl = IdleNdsctl
    /\ timer = IdleTimer

ListLockFree == timer.pc # "loop"

Tick ==
    /\ now < MaxTime
    /\ now' = now + 1
    /\ UNCHANGED <<authVars, http, ndsctl, timer>>

-------------------------------------------------------------------------------
(* The webserver thread. *)

(* Reading a field through the pointer of the request.  A freed entry may    *)
(* hold any state.  Its id is the old one, or 0 when its memory was cleared: *)
(* only the webserver thread, the reader, allocates entries.                 *)
ReadState(n) == IF n \in clients THEN {StateOf(n)} ELSE Mark
ReadId(n)    == IF n \in clients THEN {heap[n].id} ELSE {heap[n].id, 0}

(* libmicrohttpd_cb: the lookup takes no lock.  While the timeout thread     *)
(* unlinks entries it may also miss one.                                     *)
HttpRequest(peer) ==
    /\ http.pc = "idle"
    /\ \E n \in {client_list_find(peer)} \cup (IF ListLockFree THEN {} ELSE {Null}) :
         /\ n = Null => client_id < MaxId
         /\ http' = [IdleHttp EXCEPT !.pc = IF n = Null THEN "add" ELSE "dispatch",
                                     !.peer = peer, !.node = n]
    /\ UNCHANGED <<authVars, now, ndsctl, timer>>

HttpAdd_AppendsDirectly ==
    /\ http.pc = "add"
    /\ ListLockFree
    /\ \E n \in Node \ clients :
         /\ client_list_append(n, http.peer, InitialMark(http.peer[1]), now)
         /\ http' = [http EXCEPT !.pc = "dispatch", !.node = n]
    /\ UNCHANGED <<rules, macVars, now, ndsctl, timer>>

(* add_client at any free address n; when the list is full there is no entry *)
(* and the request ends with error 503.                                      *)
HttpAdd ==
    /\ http.pc = "add"
    /\ ListLockFree
    /\ \E n \in Node :
         /\ n \in clients => ListFull
         /\ client_list_add_client(n, http.peer, InitialMark(http.peer[1]), now)
         /\ LET added == AddedClient(n, http.peer) IN
            http' = IF added = Null THEN IdleHttp
                    ELSE [http EXCEPT !.pc = "dispatch", !.node = added]
    /\ UNCHANGED <<rules, macVars, now, ndsctl, timer>>

(* Redirects, the splash and status pages and static files only read.        *)
HttpServePage ==
    /\ http.pc = "dispatch"
    /\ http' = IdleHttp
    /\ UNCHANGED <<authVars, now, ndsctl, timer>>

(* preauthenticated -> try_to_authenticate, with the entry's token, ->       *)
(* authenticate_client up to the call of the script or of auth_client_auth.  *)
HttpAuthdir ==
    /\ http.pc = "dispatch"
    /\ \E s \in ReadState(http.node) :
         s \notin {FW_MARK_AUTHENTICATED, FW_MARK_TRUSTED}
    /\ IF BinAuth
       THEN http' = [http EXCEPT !.pc = "binauth", !.start = now]
       ELSE \E id \in ReadId(http.node) :
              http' = [http EXCEPT !.pc = "auth", !.start = now, !.id = id,
                                   !.seconds = SessionTimeout]
    /\ UNCHANGED <<authVars, now, ndsctl, timer>>

HttpBinauth_NoClamp ==
    /\ http.pc = "binauth"
    /\ \/ http' = IdleHttp
       \/ \E id \in ReadId(http.node), s \in BinSeconds \cup {SessionTimeout} :
            http' = [http EXCEPT !.pc = "auth", !.id = id, !.seconds = s]
    /\ UNCHANGED <<authVars, now, ndsctl, timer>>

(* do_binauth ran the script without any lock.  A refusal ends the request.  *)
(* Seconds the script prints replace the default, clamped at zero.           *)
HttpBinauth ==
    /\ http.pc = "binauth"
    /\ \/ http' = IdleHttp
       \/ \E id \in ReadId(http.node), s \in BinSeconds \cup {SessionTimeout} :
            http' = [http EXCEPT !.pc = "auth", !.id = id,
                                 !.seconds = IF s > 0 THEN s ELSE 0]
    /\ UNCHANGED <<authVars, now, ndsctl, timer>>

(* auth_client_auth *)
HttpAuth ==
    /\ http.pc = "auth"
    /\ ListLockFree
    /\ AuthById(http.id, FW_MARK_AUTHENTICATED, now)
    /\ http' = IF AuthSucceeds(http.id, FW_MARK_AUTHENTICATED)
               THEN [http EXCEPT !.pc = "session"] ELSE IdleHttp
    /\ UNCHANGED <<now, ndsctl, timer>>

(* The rest of authenticate_client writes the session through the pointer,   *)
(* after the lock was released.                                              *)
HttpSession ==
    /\ http.pc = "session"
    /\ SetEntry(http.node,
                [heap[http.node] EXCEPT
                    !.session_end = IF http.seconds > 0
                                    THEN http.start + http.seconds ELSE 0])
    /\ http' = IdleHttp
    /\ UNCHANGED <<rules, macVars, now, ndsctl, timer>>

(* authenticated, for the deny URL: reads client->id, then waits for the lock.*)
HttpDenydir ==
    /\ http.pc = "dispatch"
    /\ \E s \in ReadState(http.node) :
         s \in {FW_MARK_AUTHENTICATED, FW_MARK_TRUSTED}
    /\ \E id \in ReadId(http.node) :
         http' = [http EXCEPT !.pc = "deauth", !.id = id]
    /\ UNCHANGED <<authVars, now, ndsctl, timer>>

(* auth_client_deauth *)
HttpDeauth ==
    /\ http.pc = "deauth"
    /\ ListLockFree
    /\ AuthById(http.id, FW_MARK_PREAUTHENTICATED, now)
    /\ http' = IdleHttp
    /\ UNCHANGED <<now, ndsctl, timer>>

Http ==
    \/ \E peer \in Peer : HttpRequest(peer)
    \/ HttpAdd \/ HttpServePage \/ HttpAuthdir \/ HttpBinauth \/ HttpAuth
    \/ HttpSession \/ HttpDenydir \/ HttpDeauth

-------------------------------------------------------------------------------
(* The ndsctl thread. *)

ClientArg == Node \cup Ip \cup Mac

(* ndsctl_auth: one critical section. *)
NdsctlAuth(arg) ==
    /\ ndsctl.pc = "idle"
    /\ ListLockFree
    /\ LET n == client_list_find_by_any(arg) IN
       n # Null /\ AuthById(heap[n].id, FW_MARK_AUTHENTICATED, now)
    /\ UNCHANGED <<now, http, ndsctl, timer>>

(* ndsctl_deauth releases the lock between the lookup and the change. *)
NdsctlDeauthFind(arg) ==
    /\ ndsctl.pc = "idle"
    /\ ListLockFree
    /\ LET n == client_list_find_by_any(arg) IN
       /\ n # Null
       /\ ndsctl' = [pc |-> "deauth", id |-> heap[n].id, peer |-> PeerOf(n)]
    /\ UNCHANGED <<authVars, now, http, timer>>

NdsctlDeauth ==
    /\ ndsctl.pc = "deauth"
    /\ ListLockFree
    /\ AuthById(ndsctl.id, FW_MARK_PREAUTHENTICATED, now)
    /\ ndsctl' = IdleNdsctl
    /\ UNCHANGED <<now, http, timer>>

(* ndsctl_trust, ndsctl_block and ndsctl_allow, and their opposites. *)
NdsctlList(l, mac) ==
    /\ ndsctl.pc = "idle"
    /\ auth_client_list(l, mac)
    /\ UNCHANGED <<listVars, rules, now, http, ndsctl, timer>>

NdsctlUnlist(l, mac) ==
    /\ ndsctl.pc = "idle"
    /\ auth_client_unlist(l, mac)
    /\ UNCHANGED <<listVars, rules, now, http, ndsctl, timer>>

(* ndsctl_status, ndsctl_clients and ndsctl_json refresh the counters and    *)
(* ignore a failure.                                                         *)
NdsctlStatus ==
    /\ ndsctl.pc = "idle"
    /\ ListLockFree
    /\ \E rc \in {0, 1} : iptables_fw_counters_update(now, rc)
    /\ UNCHANGED <<now, http, ndsctl, timer>>

Ndsctl ==
    \/ \E arg \in ClientArg : NdsctlAuth(arg) \/ NdsctlDeauthFind(arg)
    \/ NdsctlDeauth
    \/ \E l \in MacListName, mac \in AdminMac : NdsctlList(l, mac) \/ NdsctlUnlist(l, mac)
    \/ NdsctlStatus

-------------------------------------------------------------------------------
(* The timeout thread: fw_refresh_client_list every checkinterval. *)

TimerWake ==
    /\ timer.pc = "sleep"
    /\ timer' = [timer EXCEPT !.pc = "counters", !.now = now]
    /\ UNCHANGED <<authVars, now, http, ndsctl>>

TimerCounters ==
    /\ timer.pc = "counters"
    /\ iptables_fw_counters_update(now, 0)
    /\ timer' = [timer EXCEPT !.pc = "lock"]
    /\ UNCHANGED <<now, http, ndsctl>>

(* popen failed: this round is given up. *)
TimerCountersFail ==
    /\ timer.pc = "counters"
    /\ iptables_fw_counters_update(now, 1)
    /\ timer' = IdleTimer
    /\ UNCHANGED <<now, http, ndsctl>>

TimerLock ==
    /\ timer.pc = "lock"
    /\ timer' = [timer EXCEPT !.pc = "loop", !.node = client_get_first_client]
    /\ UNCHANGED <<authVars, now, http, ndsctl>>

SessionEnded(c) == c.session_end > 0 /\ c.session_end <= timer.now
PreauthIdle(c) ==
    /\ PreauthIdleTimeout > 0
    /\ c.fw_connection_state = FW_MARK_PREAUTHENTICATED
    /\ c.last_updated + PreauthIdleTimeout <= timer.now
AuthIdle(c) ==
    /\ AuthIdleTimeout > 0
    /\ c.fw_connection_state = FW_MARK_AUTHENTICATED
    /\ c.last_updated + AuthIdleTimeout <= timer.now

(* The body of the loop of fw_refresh_client_list for the entry n. *)
CheckClient(n) ==
    LET c == heap[n] IN
    \/ /\ SessionEnded(c)
       /\ auth_change_state(n, IF SessionTimeoutBlock THEN FW_MARK_BLOCKED
                               ELSE FW_MARK_PREAUTHENTICATED, now)
    \/ /\ ~SessionEnded(c)
       /\ c.over_limit
       /\ auth_change_state(n, FW_MARK_BLOCKED, now)
    \/ /\ ~SessionEnded(c) /\ ~c.over_limit
       /\ PreauthIdle(c)
       /\ client_list_delete(n) /\ UNCHANGED <<rules, macVars>>
    \/ /\ ~SessionEnded(c) /\ ~c.over_limit
       /\ AuthIdle(c)
       /\ auth_change_state(n, FW_MARK_PREAUTHENTICATED, now)
    \/ /\ ~SessionEnded(c) /\ ~c.over_limit /\ ~PreauthIdle(c) /\ ~AuthIdle(c)
       /\ UNCHANGED authVars

TimerStep_OnlyFirst ==
    /\ timer.pc = "loop"
    /\ timer.node # Null
    /\ CheckClient(timer.node)
    /\ timer' = [timer EXCEPT !.node = Null]
    /\ UNCHANGED <<now, http, ndsctl>>

TimerStep ==
    /\ timer.pc = "loop"
    /\ timer.node # Null
    /\ LET n == client_list_find_by_id(heap[timer.node].id) IN
       \/ n # Null /\ CheckClient(n)
       \/ n = Null /\ UNCHANGED authVars
    /\ timer' = [timer EXCEPT !.node = NextClient(timer.node)]
    /\ UNCHANGED <<now, http, ndsctl>>

TimerUnlock ==
    /\ timer.pc = "loop"
    /\ timer.node = Null
    /\ timer' = IdleTimer
    /\ UNCHANGED <<authVars, now, http, ndsctl>>

Timer ==
    \/ TimerWake \/ TimerCounters \/ TimerCountersFail
    \/ TimerLock \/ TimerStep \/ TimerUnlock

-------------------------------------------------------------------------------
Next == Tick \/ Http \/ Ndsctl \/ Timer

Spec == Init /\ [][Next]_vars

(* The timeout thread keeps running, and popen does not fail for ever. *)
FairSpec ==
    /\ Spec
    /\ WF_vars(Timer)
    /\ SF_vars(TimerCounters)

-------------------------------------------------------------------------------
(* Properties. *)

TypeOK ==
    /\ AuthTypeOK
    /\ now \in Nat
    /\ http \in HttpThread
    /\ ndsctl \in NdsctlThread
    /\ timer \in TimerThread

IsAuthenticated(n) == n \in clients /\ StateOf(n) = FW_MARK_AUTHENTICATED

Owners(r) == {n \in Node : IsAuthenticated(n) /\ r \in ClientRules(PeerOf(n))}

(* No rule outlives its client: whatever -A commands fail, the OUTGOING and  *)
(* INCOMING chains hold no more copies of a rule than there are              *)
(* authenticated entries it belongs to.                                      *)
RulesOnlyForClients == \A r \in Rule : rules[r] <= Cardinality(Owners(r))

(* The firewall and the list agree whenever no iptables call fails: calls of *)
(* iptables_fw_authenticate and iptables_fw_deauthenticate are paired on     *)
(* every path, blocking and deletion of an entry included.                   *)
RulesMatchClients == \A r \in Rule : rules[r] = Cardinality(Owners(r))

(* The rules for listed MACs agree with the lists, although the timeout      *)
(* thread blocks MACs while ndsctl blocks and unblocks them.                 *)
MacRulesMatch ==
    \A l \in MacListName, m \in Mac :
       macrules[<<l, m>>] = IF m \in maclist[l] THEN 1 ELSE 0

(* The pointer a request holds is to the entry of the host that sent it, on  *)
(* the list or freed: no other host's entry takes its place in the heap.     *)
PointerIsRequester ==
    http.node # Null => PeerOf(http.node) = http.peer

(* A request authenticates and deauthenticates only the host that sent it,   *)
(* and ndsctl deauth only the entry it looked up, although both act on an id *)
(* they read before they waited for the lock.                                *)
ActsOnRequesterStep ==
    \A n \in clients : StateOf(n)' # StateOf(n) =>
       /\ http'.pc # http.pc => PeerOf(n) = http.peer
       /\ ndsctl'.pc # ndsctl.pc => PeerOf(n) = ndsctl.peer
ActsOnRequester == [][ActsOnRequesterStep]_vars

(* With fair scheduling of the timeout thread, an authenticated session past *)
(* its end does not last: fw_refresh_client_list ends it.                    *)
SessionExpired(p) ==
    \E n \in clients : /\ PeerOf(n) = p
                       /\ StateOf(n) = FW_MARK_AUTHENTICATED
                       /\ heap[n].session_end \in 1..now
ExpiredSessionEnds == \A p \in Peer : SessionExpired(p) ~> ~SessionExpired(p)

(* An idle preauthenticated entry whose session_end is clear is removed, or  *)
(* stops being idle: the timeout thread comes back for it.                   *)
IdlePreauth(p) ==
    \E n \in clients : /\ PeerOf(n) = p
                       /\ StateOf(n) = FW_MARK_PREAUTHENTICATED
                       /\ heap[n].last_updated + PreauthIdleTimeout <= now
IdleWithoutSession(p) ==
    IdlePreauth(p) /\ heap[client_list_find(p)].session_end = 0
IdleEntryRemoved == \A p \in Peer : IdleWithoutSession(p) ~> ~IdleWithoutSession(p)

(* nodogsplash.conf: a preauthenticated user is removed from the client list *)
(* after PreAuthIdleTimeout.                                                 *)
PreauthIdleRemoved == \A p \in Peer : IdlePreauth(p) ~> ~IdlePreauth(p)

(* The daemon implements the abstract admission control: the hosts that pass *)
(* the firewall are those the abstract specification admits, the hosts with  *)
(* an entry on the list are those it knows.                                  *)
known    == {PeerOf(n) : n \in clients}
admitted == {p \in Peer : rules[OutgoingMark(p[1], p[2])] > 0}

A == INSTANCE Admission WITH Host <- Peer, known <- known, admitted <- admitted
ImplementsAdmission == A!Spec

(* Every step is one the client list allows its callers. *)
ImplementsClientList == ListSpec
===============================================================================
