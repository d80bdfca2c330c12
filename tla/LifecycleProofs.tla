---------------------------- MODULE LifecycleProofs ----------------------------
(***************************************************************************)
(* The daemon over all its lives: types, the clean exit, what a crash      *)
(* leaves in the firewall and what an import brings back, for every number *)
(* of hosts, starts, stops and signals.                                    *)
(*                                                                         *)
(* An import takes the ids of the file, so UniqueId is no invariant here;  *)
(* the proofs use ListCore, which does without.                            *)
(***************************************************************************)
EXTENDS Lifecycle, AccessProofs

(* The bytes of every entry of a state file are those of some host. *)
OfHosts(E) == \A e \in E : e.peer \in Peer

ChainsOK ==
    /\ DOMAIN rules \subseteq Rule /\ rules \in [DOMAIN rules -> Nat]
    /\ DOMAIN macrules \subseteq MacListName \X Mac /\ macrules \in [DOMAIN macrules -> Nat]

SavedOK ==
    /\ saved \in StateFile \cup {Null}
    /\ saved # Null => OfHosts(saved.clients)
MainOK ==
    /\ main \in MainThread /\ OfHosts(main.todo)
    /\ main.pc = "write" => saved \in StateFile /\ OfHosts(saved.clients)
AliveOK == alive \subseteq {"http", "ndsctl", "timer"}

(* client_list_flush is only called in a life whose import failed, and may   *)
(* get the count wrong from then on.                                         *)
Flushing == {"flush", "flush_list", "flush_count", "flush_id"}
RetryOK ==
    /\ main.pc \in Flushing => main.retry
    /\ main.pc = "off" => ~main.retry
CountOK == ~main.retry => CountMatches

(* The inductive invariant of all lives. *)
LifeCore ==
    /\ ListCore
    /\ ChainsOK
    /\ maclist \in [MacListName -> SUBSET Mac]
    /\ ThreadsTypeOK /\ HttpOK
    /\ SavedOK /\ MainOK /\ AliveOK
LifeInv == LifeCore /\ RetryOK /\ CountOK

-------------------------------------------------------------------------------
(* A step of the webserver, ndsctl or timeout thread. *)

(* The list stays in order, and its count right if it was. *)
CoreStep == ListCore' /\ (CountMatches => CountMatches')

LEMMA KeptCore ==
    ASSUME ListCore, NEW S, EntriesKept(S)
    PROVE  CoreStep
<1>1. CASE UNCHANGED listVars
  BY <1>1 DEF CoreStep, listVars, ListCore, ListTypeOK, UniquePeer, CountMatches, EntriesHavePeer,
              PeerOf
<1>2. CASE FieldWrites
  BY <1>2, FieldWritesKeepCore DEF CoreStep
<1>3. ASSUME NEW k \in clients, client_list_delete(k) PROVE CoreStep
  <2>1. ListCore'
    BY <1>3, DeleteKeepsCore
  <2>2. CountMatches => CountMatches'
    BY <1>3, DeleteKeepsCount
  <2>3. QED
    BY <2>1, <2>2 DEF CoreStep
<1>4. QED
  BY <1>1, <1>2, <1>3 DEF EntriesKept

LEMMA ByIdCore ==
    ASSUME ListCore, NEW id, NEW new_state, NEW time \in Nat, AuthById(id, new_state, time)
    PROVE  CoreStep
<1> DEFINE n == client_list_find_by_id(id)
<1>1. CASE n # Null /\ auth_change_state(n, new_state, time)
  <2>1. n \in clients
    BY <1>1, FindById DEF ListCore
  <2>2. EntriesKept({n})
    BY <1>1, <2>1, ChangeKeeps
  <2>3. QED
    BY <2>2, KeptCore
<1>2. CASE UNCHANGED authVars
  BY <1>2, UnchangedKeeps, KeptCore DEF authVars
<1>3. QED
  BY <1>1, <1>2 DEF AuthById

LEMMA HttpAddCore ==
    ASSUME ListCore, ThreadsTypeOK, HttpOK, HttpAdd
    PROVE  CoreStep /\ http' \in HttpThread /\ HttpOK'
<1>1. /\ http \in HttpThread /\ now \in Nat /\ http.pc = "add" /\ http.peer \in Peer
      /\ ListTypeOK
  BY DEF HttpAdd, ThreadsTypeOK, HttpOK, ListCore
<1> DEFINE state == InitialMark(http.peer[1])
<1>2. state \in Mark
  BY DEF InitialMark, Mark
<1>3. PICK n \in Node :
        /\ n \in clients => ListFull
        /\ client_list_add_client(n, http.peer, state, now)
        /\ http' = IF AddedClient(n, http.peer) = Null THEN IdleHttp
                   ELSE [http EXCEPT !.pc = "dispatch", !.node = AddedClient(n, http.peer)]
  BY DEF HttpAdd
<1>4. CoreStep
  <2>1. CASE UNCHANGED listVars
    BY <2>1, UnchangedKeeps, KeptCore
  <2>2. CASE /\ client_list_find(http.peer) = Null /\ ~ListFull
             /\ client_list_append(n, http.peer, state, now)
    <3>1. n \in Node \ clients
      BY <1>3, <2>2
    <3>2. ListCore'
      BY <1>1, <1>2, <2>2, <3>1, AppendKeepsCore
    <3>3. clients' = clients \cup {n} /\ client_count' = client_count + 1
      BY <2>2 DEF client_list_append
    <3>4. CountMatches => CountMatches'
      BY <2>2, <3>1, <3>3, PlaceKeepsCount
    <3>5. QED
      BY <3>2, <3>4 DEF CoreStep
  <2>3. QED
    BY <1>3, <2>1, <2>2 DEF client_list_add_client
<1>5. AddedClient(n, http.peer) \in Node \cup {Null}
  <2>1. client_list_find(http.peer) # Null => client_list_find(http.peer) \in Node
    BY <1>1, FindPeer DEF ListTypeOK
  <2>2. QED
    BY <2>1 DEF AddedClient
<1>6. http' \in HttpThread /\ HttpOK'
  <2>1. CASE http' = IdleHttp
    BY <2>1 DEF IdleHttp, HttpThread, HttpPc, HttpOK
  <2>2. CASE AddedClient(n, http.peer) \in Node
             /\ http' = [http EXCEPT !.pc = "dispatch", !.node = AddedClient(n, http.peer)]
    BY <1>1, <2>2 DEF HttpThread, HttpPc, HttpOK
  <2>3. QED
    BY <1>3, <1>5, <2>1, <2>2
<1>7. QED
  BY <1>4, <1>6

LEMMA HttpCore ==
    ASSUME ListCore, ThreadsTypeOK, HttpOK, Http
    PROVE  CoreStep /\ ThreadsTypeOK' /\ HttpOK'
<1>0. /\ ListTypeOK /\ now \in Nat
      /\ http \in HttpThread /\ ndsctl \in NdsctlThread /\ timer \in TimerThread
  BY DEF ThreadsTypeOK, ListCore
<1>1. UNCHANGED <<now, ndsctl, timer>>
  BY DEF Http, HttpRequest, HttpAdd, HttpServePage, HttpAuthdir, HttpBinauth,
         HttpAuth, HttpSession, HttpDenydir, HttpDeauth
<1>2. SUFFICES CoreStep /\ http' \in HttpThread /\ HttpOK'
  BY <1>0, <1>1 DEF ThreadsTypeOK
<1>3. CASE HttpAdd
  BY <1>3, HttpAddCore
<1>4. CASE HttpAuth \/ HttpDeauth
  <2>1. CoreStep
    BY <1>0, <1>4, ByIdCore DEF HttpAuth, HttpDeauth
  <2>2. CASE http' = IdleHttp
    BY <2>1, <2>2 DEF IdleHttp, HttpThread, HttpPc, HttpOK
  <2>3. CASE http.pc = "auth" /\ http' = [http EXCEPT !.pc = "session"]
    BY <1>0, <2>1, <2>3 DEF HttpThread, HttpPc, HttpOK
  <2>4. QED
    BY <1>4, <2>2, <2>3 DEF HttpAuth, HttpDeauth
<1>5. CASE HttpSession
  <2> DEFINE e == IF http.seconds > 0 THEN http.start + http.seconds ELSE 0
             c == [heap[http.node] EXCEPT !.session_end = e]
  <2>1. http.node \in Node /\ heap[http.node] \in t_client
    BY <1>0, <1>5 DEF HttpSession, HttpOK, ListTypeOK
  <2>2. e \in Nat
    BY <1>0 DEF HttpThread
  <2>3. c \in t_client /\ SameEntry(heap[http.node], c)
    BY <2>1, <2>2 DEF t_client, SameEntry
  <2>4. CoreStep
    BY <1>0, <1>5, <2>1, <2>3, SetEntryKeeps, KeptCore DEF HttpSession
  <2>5. QED
    BY <1>5, <2>4 DEF HttpSession, IdleHttp, HttpThread, HttpPc, HttpOK
(* The other steps leave the list alone. *)
<1>6. ASSUME UNCHANGED authVars PROVE CoreStep
  BY <1>6, UnchangedKeeps, KeptCore DEF authVars
<1>7. ASSUME NEW peer \in Peer, HttpRequest(peer)
      PROVE  CoreStep /\ http' \in HttpThread /\ HttpOK'
  <2>1. PICK n \in {client_list_find(peer), Null} :
          http' = [IdleHttp EXCEPT !.pc = IF n = Null THEN "add" ELSE "dispatch",
                                   !.peer = peer, !.node = n]
    BY <1>7 DEF HttpRequest
  <2>2. n # Null => n \in Node
    BY <1>0, <2>1, FindPeer DEF ListTypeOK
  <2>3. QED
    BY <1>6, <1>7, <2>1, <2>2 DEF HttpRequest, IdleHttp, HttpThread, HttpPc, HttpOK
<1>8. ASSUME http.pc \notin {"idle", "add"}, NEW id \in ReadId(http.node) PROVE id \in Nat
  BY <1>0, <1>8 DEF ReadId, HttpOK, ListTypeOK, t_client
<1>9. CASE HttpServePage
  BY <1>6, <1>9 DEF HttpServePage, IdleHttp, HttpThread, HttpPc, HttpOK
<1>10. CASE HttpAuthdir
  <2>1. \E id \in Nat : http' \in {[http EXCEPT !.pc = "binauth", !.start = now],
                                   [http EXCEPT !.pc = "auth", !.start = now, !.id = id,
                                                !.seconds = SessionTimeout]}
    BY <1>8, <1>10 DEF HttpAuthdir
  <2>2. http' \in HttpThread /\ HttpOK'
    BY <1>0, <1>10, <2>1, TimeAssumption DEF HttpAuthdir, HttpThread, HttpPc, HttpOK
  <2>3. QED
    BY <1>6, <1>10, <2>2 DEF HttpAuthdir
<1>11. CASE HttpBinauth
  <2>1. CASE http' = IdleHttp
    BY <1>6, <1>11, <2>1 DEF HttpBinauth, IdleHttp, HttpThread, HttpPc, HttpOK
  <2>2. ASSUME NEW id \in ReadId(http.node), NEW s \in BinSeconds \cup {SessionTimeout},
               http' = [http EXCEPT !.pc = "auth", !.id = id,
                                    !.seconds = IF s > 0 THEN s ELSE 0]
        PROVE  http' \in HttpThread /\ HttpOK'
    <3>1. id \in Nat
      BY <1>8, <1>11 DEF HttpBinauth
    <3>2. (IF s > 0 THEN s ELSE 0) \in Nat
      BY TimeAssumption
    <3>3. QED
      BY <1>0, <1>11, <2>2, <3>1, <3>2 DEF HttpBinauth, HttpThread, HttpPc, HttpOK
  <2>3. QED
    BY <1>6, <1>11, <2>1, <2>2 DEF HttpBinauth
<1>12. CASE HttpDenydir
  <2>1. PICK id \in ReadId(http.node) : http' = [http EXCEPT !.pc = "deauth", !.id = id]
    BY <1>12 DEF HttpDenydir
  <2>2. id \in Nat
    BY <1>8, <1>12 DEF HttpDenydir
  <2>3. QED
    BY <1>0, <1>6, <1>12, <2>1, <2>2 DEF HttpDenydir, HttpThread, HttpPc, HttpOK
<1>13. QED
  BY <1>3, <1>4, <1>5, <1>7, <1>9, <1>10, <1>11, <1>12 DEF Http

LEMMA NdsctlCore ==
    ASSUME ListCore, ThreadsTypeOK, HttpOK, Ndsctl
    PROVE  CoreStep /\ ThreadsTypeOK' /\ HttpOK'
<1>0. /\ ListTypeOK /\ now \in Nat
      /\ http \in HttpThread /\ ndsctl \in NdsctlThread /\ timer \in TimerThread
  BY DEF ThreadsTypeOK, ListCore
<1>1. UNCHANGED <<now, http, timer>>
  BY DEF Ndsctl, NdsctlAuth, NdsctlDeauthFind, NdsctlDeauth, NdsctlList,
         NdsctlUnlist, NdsctlStatus
<1>2. SUFFICES CoreStep /\ ndsctl' \in NdsctlThread
  BY <1>0, <1>1 DEF ThreadsTypeOK, HttpOK
<1>3. ASSUME UNCHANGED listVars PROVE CoreStep
  BY <1>3, UnchangedKeeps, KeptCore
<1>4. ASSUME NEW arg \in ClientArg, NdsctlAuth(arg)
      PROVE  CoreStep /\ ndsctl' \in NdsctlThread
  BY <1>0, <1>4, ByIdCore DEF NdsctlAuth
<1>5. ASSUME NEW arg \in ClientArg, NdsctlDeauthFind(arg)
      PROVE  CoreStep /\ ndsctl' \in NdsctlThread
  <2> DEFINE n == client_list_find_by_any(arg)
  <2>1. n # Null /\ ndsctl' = [pc |-> "deauth", id |-> heap[n].id, peer |-> PeerOf(n)]
    BY <1>5 DEF NdsctlDeauthFind
  <2>2. n \in clients
    BY <1>0, <2>1, FindByAny
  <2>3. heap[n] \in t_client
    BY <1>0, <2>2 DEF ListTypeOK
  <2>4. ndsctl' \in NdsctlThread
    BY <2>1, <2>3 DEF NdsctlThread, t_client, PeerOf
  <2>5. QED
    BY <1>3, <1>5, <2>4 DEF NdsctlDeauthFind, authVars
<1>6. CASE NdsctlDeauth
  BY <1>0, <1>6, ByIdCore DEF NdsctlDeauth, IdleNdsctl, NdsctlThread
<1>7. ASSUME NEW l \in MacListName, NEW mac \in AdminMac,
             NdsctlList(l, mac) \/ NdsctlUnlist(l, mac)
      PROVE  CoreStep /\ ndsctl' \in NdsctlThread
  BY <1>0, <1>3, <1>7 DEF NdsctlList, NdsctlUnlist
<1>8. CASE NdsctlStatus
  BY <1>0, <1>8, CountersUpdate, KeptCore DEF NdsctlStatus
<1>9. QED
  BY <1>4, <1>5, <1>6, <1>7, <1>8 DEF Ndsctl

LEMMA TimerCore ==
    ASSUME ListCore, ThreadsTypeOK, HttpOK, Timer
    PROVE  CoreStep /\ ThreadsTypeOK' /\ HttpOK'
<1>0. /\ ListTypeOK /\ now \in Nat
      /\ http \in HttpThread /\ ndsctl \in NdsctlThread /\ timer \in TimerThread
  BY DEF ThreadsTypeOK, ListCore
<1>1. UNCHANGED <<now, http, ndsctl>> /\ timer' \in TimerThread
  BY <1>0, TimerType
<1>2. ThreadsTypeOK' /\ HttpOK'
  BY <1>0, <1>1 DEF ThreadsTypeOK, HttpOK
<1>3. CASE UNCHANGED authVars
  BY <1>2, <1>3, UnchangedKeeps, KeptCore DEF authVars
<1>4. CASE TimerCounters \/ TimerCountersFail
  BY <1>0, <1>2, <1>4, CountersUpdate, KeptCore DEF TimerCounters, TimerCountersFail
<1>5. CASE TimerStep
  <2> DEFINE n == client_list_find_by_id(heap[timer.node].id)
  <2>1. CASE n # Null /\ CheckClient(n)
    <3>1. n \in clients
      BY <1>0, <2>1, FindById
    <3>2. CASE \E s : auth_change_state(n, s, now)
      BY <1>0, <1>2, <3>1, <3>2, ChangeKeeps, KeptCore
    <3>3. CASE client_list_delete(n)
      <4>1. ListCore' /\ (CountMatches => CountMatches')
        BY <3>1, <3>3, DeleteKeepsCore, DeleteKeepsCount
      <4>2. QED
        BY <1>2, <4>1 DEF CoreStep
    <3>4. QED
      BY <1>3, <2>1, <3>2, <3>3 DEF CheckClient
  <2>2. QED
    BY <1>3, <1>5, <2>1 DEF TimerStep
<1>6. QED
  BY <1>3, <1>4, <1>5 DEF Timer, TimerWake, TimerLock, TimerUnlock
-------------------------------------------------------------------------------
(* Chains are made and removed by the main thread only. *)

LEMMA BagChains ==
    ASSUME NEW b, b \in [DOMAIN b -> Nat], NEW D,
           NEW c \in {b, Plus(b, D), Minus(b, D)}
    PROVE  DOMAIN c = DOMAIN b /\ c \in [DOMAIN c -> Nat]
<1>1. DOMAIN c = DOMAIN b
  BY DEF Plus, Minus
<1>2. PICK S : S = DOMAIN b
  OBVIOUS
<1>3. c \in [S -> Nat]
  BY <1>2, BagType
<1>4. QED
  BY <1>1, <1>2, <1>3

LEMMA ChainsStep ==
    ASSUME ChainsOK, maclist \in [MacListName -> SUBSET Mac], AccessStep, MacStep
    PROVE  /\ ChainsOK' /\ maclist' \in [MacListName -> SUBSET Mac]
           /\ DOMAIN rules' = DOMAIN rules /\ DOMAIN macrules' = DOMAIN macrules
<1>1. \E D : rules' \in {rules, Plus(rules, D), Minus(rules, D)}
  BY DEF AccessStep, Idles, Met, Left, Granted, Revoked, iptables_fw_authenticate,
         iptables_fw_deauthenticate
<1>2. \E D : macrules' \in {macrules, Plus(macrules, D), Minus(macrules, D)}
  <2>1. ASSUME NEW l, NEW mac, iptables_list_mac(l, mac) \/ iptables_unlist_mac(l, mac)
        PROVE  \E D : macrules' \in {macrules, Plus(macrules, D), Minus(macrules, D)}
    BY <2>1 DEF iptables_list_mac, iptables_unlist_mac
  <2>2. CASE UNCHANGED macVars
    BY <2>2 DEF macVars
  <2>3. QED
    BY <2>1, <2>2 DEF MacStep, auth_client_list, auth_client_unlist
<1>3. DOMAIN rules' = DOMAIN rules /\ rules' \in [DOMAIN rules' -> Nat]
  BY <1>1, BagChains DEF ChainsOK
<1>4. DOMAIN macrules' = DOMAIN macrules /\ macrules' \in [DOMAIN macrules' -> Nat]
  BY <1>2, BagChains DEF ChainsOK
<1>5. maclist' \in [MacListName -> SUBSET Mac]
  <2>1. CASE UNCHANGED macVars
    BY <2>1 DEF macVars
  <2>2. ASSUME NEW l \in MacListName, NEW mac \in Mac,
               add_to_mac_list(l, mac) \/ remove_from_mac_list(l, mac)
        PROVE  maclist' \in [MacListName -> SUBSET Mac]
    BY <2>2 DEF add_to_mac_list, remove_from_mac_list
  <2>3. QED
    BY <2>1, <2>2 DEF MacStep, auth_client_list, auth_client_unlist
<1>6. QED
  BY <1>3, <1>4, <1>5 DEF ChainsOK

(* What a step of another thread than main, or of the clock, leaves to prove. *)
Running == RunningHttp \/ RunningNdsctl \/ RunningTimer \/ Clock

LEMMA MissesCore ==
    ASSUME ListCore, ThreadsTypeOK, NEW peer \in Peer, HttpRequestMisses(peer)
    PROVE  CoreStep /\ ThreadsTypeOK' /\ HttpOK' /\ AccessStep /\ MacStep
<1>1. AccessStep /\ MacStep
  BY UnchangedAccess DEF HttpRequestMisses
<1>2. CoreStep
  BY UnchangedKeeps, KeptCore DEF HttpRequestMisses, authVars
<1>3. ThreadsTypeOK' /\ HttpOK'
  BY DEF HttpRequestMisses, ThreadsTypeOK, IdleHttp, HttpThread, HttpPc, HttpOK
<1>4. QED
  BY <1>1, <1>2, <1>3

LEMMA RunningStep ==
    ASSUME LifeInv, Running
    PROVE  LifeInv' /\ AccessStep /\ MacStep /\ UNCHANGED <<saved, main, alive, stops>>
<1>1. UNCHANGED <<saved, main, alive, stops>>
  BY DEF Running, RunningHttp, RunningNdsctl, RunningTimer, Clock
<1>2. CoreStep /\ ThreadsTypeOK' /\ HttpOK' /\ AccessStep /\ MacStep
  <2>1. ListCore /\ ThreadsTypeOK /\ HttpOK
    BY DEF LifeInv, LifeCore
  <2>2. CASE Http
    BY <2>1, <2>2, HttpCore, HttpAccess
  <2>3. CASE Ndsctl
    BY <2>1, <2>3, NdsctlCore, NdsctlAccess
  <2>4. CASE Timer
    BY <2>1, <2>4, TimerCore, TimerAccess
  <2>5. CASE Tick
    <3>1. AccessStep /\ MacStep
      BY <2>5, UnchangedAccess DEF Tick
    <3>2. CoreStep
      BY <2>1, <2>5, UnchangedKeeps, KeptCore DEF Tick, authVars
    <3>3. ThreadsTypeOK' /\ HttpOK'
      BY <2>1, <2>5 DEF Tick, ThreadsTypeOK, HttpOK
    <3>4. QED
      BY <3>1, <3>2, <3>3
  <2>6. QED
    BY <2>1, <2>2, <2>3, <2>4, <2>5, MissesCore
       DEF Running, RunningHttp, RunningNdsctl, RunningTimer, Clock
<1>3. ChainsOK' /\ maclist' \in [MacListName -> SUBSET Mac]
  BY <1>2, ChainsStep DEF LifeInv, LifeCore
<1>4. SavedOK' /\ MainOK' /\ AliveOK' /\ RetryOK'
  BY <1>1 DEF LifeInv, LifeCore, SavedOK, MainOK, AliveOK, RetryOK
<1>5. ListCore' /\ CountOK'
  BY <1>1, <1>2 DEF LifeInv, CountOK, CoreStep
<1>6. QED
  BY <1>1, <1>2, <1>3, <1>4, <1>5 DEF LifeInv, LifeCore
-------------------------------------------------------------------------------
(* The steps of the main thread. *)

(* The count stays right, or the import has failed. *)
Counted == main'.retry \/ (CountMatches => CountMatches')

(* A step that leaves the portal and the state file alone. *)
LEMMA QuietMain ==
    ASSUME LifeInv, UNCHANGED vars, UNCHANGED saved, MainOK', AliveOK'
    PROVE  LifeCore' /\ Counted
<1>1. UNCHANGED listVars /\ UNCHANGED <<rules, maclist, macrules, now, http, ndsctl, timer>>
  BY DEF vars, authVars, macVars
<1>2. CoreStep
  BY <1>1, UnchangedKeeps, KeptCore DEF LifeInv, LifeCore
<1>3. QED
  BY <1>1, <1>2 DEF LifeInv, LifeCore, CoreStep, Counted, ChainsOK, ThreadsTypeOK, HttpOK, SavedOK

(* A step that changes the firewall and the list, and not the threads. *)
LEMMA FirewallMain ==
    ASSUME LifeInv, UNCHANGED <<now, threadVars, saved, alive>>,
           ListCore', ChainsOK', maclist' \in [MacListName -> SUBSET Mac], MainOK'
    PROVE  LifeCore'
BY DEF threadVars, LifeInv, LifeCore, ThreadsTypeOK, HttpOK, SavedOK, AliveOK

LEMMA MainOffOK ==
    MainOff \in MainThread /\ MainOff.todo = {} /\ MainOff.pc = "off" /\ ~MainOff.retry
BY DEF MainOff, MainThread, MainPc, Commands

(* The program counters and registers the quiet steps of main leave behind. *)
LEMMA MainRegisters ==
    ASSUME LifeInv
    PROVE  /\ main \in MainThread /\ OfHosts(main.todo)
           /\ Terminating(main) \in MainThread /\ Terminating(main).todo = main.todo
           /\ Terminating(main).pc \in {"export", "deauth_all"}
           /\ Terminating(main).retry = main.retry
<1>1. main \in MainThread /\ OfHosts(main.todo)
  BY DEF LifeInv, LifeCore, MainOK
<1>2. \A pc \in MainPc : [main EXCEPT !.term = TRUE, !.cmd = 0, !.pc = pc] \in MainThread
  <2>1. 0 \in Commands
    BY DEF Commands
  <2>2. QED
    BY <1>1, <2>1 DEF MainThread
<1>3. \A pc \in MainPc : LET m == [main EXCEPT !.term = TRUE, !.cmd = 0, !.pc = pc] IN
        m.todo = main.todo /\ m.retry = main.retry /\ m.pc = pc
  BY <1>1 DEF MainThread
<1>4. "export" \in MainPc /\ "deauth_all" \in MainPc
  BY DEF MainPc
<1>5. \E pc \in {"export", "deauth_all"} :
        Terminating(main) = [main EXCEPT !.term = TRUE, !.cmd = 0, !.pc = pc]
  BY DEF Terminating
<1>6. QED
  BY <1>1, <1>2, <1>3, <1>4, <1>5

LEMMA QuietSteps ==
    ASSUME LifeInv,
           \/ Start \/ FwInitMarks \/ ImportBegin \/ ImportFails \/ ImportEnd \/ FlushEntries
           \/ StartThreads \/ NdsctlStop \/ StopWeb \/ DeauthAll \/ DeauthAllDone
           \/ \E s \in Signal : SignalMain(s)
           \/ \E s \in Signal, t \in alive : SignalOther(s, t)
    PROVE  LifeCore' /\ Counted /\ UNCHANGED vars /\ UNCHANGED saved
<1>0. UNCHANGED vars /\ UNCHANGED saved
  BY DEF Start, FwInitMarks, ImportBegin, ImportFails, ImportEnd, FlushEntries,
         StartThreads, NdsctlStop,
         StopWeb, DeauthAll, DeauthAllDone, SignalMain, SignalOther
<1>1. /\ main \in MainThread /\ OfHosts(main.todo) /\ AliveOK
      /\ main.pc = "write" => saved \in StateFile /\ OfHosts(saved.clients)
  BY DEF LifeInv, LifeCore, MainOK
<1>2. SUFFICES MainOK' /\ AliveOK'
  BY <1>0, QuietMain
<1>3. ASSUME main' \in MainThread, OfHosts(main'.todo), main'.pc # "write" PROVE MainOK'
  BY <1>3 DEF MainOK, OfHosts
<1>4. CASE Start
  <2>1. main' \in MainThread /\ main'.todo = {} /\ main'.pc = "destroy"
    BY <1>4, MainOffOK DEF Start, MainThread, MainPc
  <2>2. QED
    BY <1>3, <1>4, <2>1 DEF Start, OfHosts, AliveOK
<1>5. CASE FwInitMarks
  <2>1. main' \in MainThread /\ main'.todo = main.todo /\ main'.pc = "chains"
    BY <1>1, <1>5 DEF FwInitMarks, MainThread, MainPc
  <2>2. QED
    BY <1>1, <1>3, <1>5, <2>1 DEF FwInitMarks, OfHosts, AliveOK
<1>6. CASE ImportBegin
  <2>1. CASE main' = [main EXCEPT !.pc = "threads"]
    <3>1. main' \in MainThread /\ main'.todo = main.todo /\ main'.pc = "threads"
      BY <1>1, <2>1 DEF MainThread, MainPc
    <3>2. QED
      BY <1>1, <1>3, <1>6, <3>1 DEF ImportBegin, OfHosts, AliveOK
  <2>2. CASE main' = [main EXCEPT !.pc = "destroy", !.retry = TRUE]
    <3>1. main' \in MainThread /\ main'.todo = main.todo /\ main'.pc = "destroy"
      BY <1>1, <2>2 DEF MainThread, MainPc
    <3>2. QED
      BY <1>1, <1>3, <1>6, <3>1 DEF ImportBegin, OfHosts, AliveOK
  <2>3. CASE /\ saved # Null
             /\ main' = [main EXCEPT !.pc = "importing", !.locked = TRUE, !.todo = saved.clients]
    <3>1. saved.clients \in SUBSET t_client /\ OfHosts(saved.clients)
      BY <2>3 DEF LifeInv, LifeCore, SavedOK, StateFile
    <3>2. main' \in MainThread /\ main'.todo = saved.clients /\ main'.pc = "importing"
      BY <1>1, <2>3, <3>1 DEF MainThread, MainPc
    <3>3. QED
      BY <1>1, <1>3, <1>6, <3>1, <3>2 DEF ImportBegin, AliveOK
  <2>4. QED
    BY <1>6, <2>1, <2>2, <2>3 DEF ImportBegin
<1>7. CASE ImportFails
  <2>1. main' \in MainThread /\ main'.todo = {} /\ main'.pc = "destroy"
    BY <1>1, <1>7 DEF ImportFails, MainThread, MainPc
  <2>2. QED
    BY <1>1, <1>3, <1>7, <2>1 DEF ImportFails, OfHosts, AliveOK
<1>8. CASE ImportEnd
  <2>1. main' \in MainThread /\ main'.todo = main.todo /\ main'.pc = "threads"
    BY <1>1, <1>8 DEF ImportEnd, MainThread, MainPc
  <2>2. QED
    BY <1>1, <1>3, <1>8, <2>1 DEF ImportEnd, OfHosts, AliveOK
<1>9. CASE StartThreads
  <2>1. AliveOK'
    BY <1>1, <1>9 DEF StartThreads, AliveOK
  <2>2. main' = [main EXCEPT !.pc = "join", !.write = TRUE] \/ main' = Terminating(main)
    BY <1>9 DEF StartThreads
  <2>3. main' \in MainThread /\ main'.todo = main.todo /\ main'.pc # "write"
    <3>1. CASE main' = [main EXCEPT !.pc = "join", !.write = TRUE]
      BY <1>1, <3>1 DEF MainThread, MainPc
    <3>2. QED
      BY <2>2, <3>1, MainRegisters
  <2>4. QED
    BY <1>1, <1>3, <2>1, <2>3 DEF OfHosts
<1>10. CASE NdsctlStop
  <2> DEFINE pc == IF main.pc = "join" THEN "stop_web" ELSE main.pc
  <2>1. main' = [main EXCEPT !.pc = pc] /\ pc \in MainPc
    BY <1>1, <1>10 DEF NdsctlStop, MainThread, MainPc
  <2>2. main' \in MainThread /\ main'.todo = main.todo /\ main'.pc = pc
    BY <1>1, <2>1 DEF MainThread
  <2>3. QED
    BY <1>0, <1>1, <1>10, <2>2 DEF NdsctlStop, AliveOK, MainOK, OfHosts
<1>11. CASE StopWeb
  BY <1>1, <1>3, <1>11, MainRegisters DEF StopWeb, AliveOK, OfHosts
<1>12. CASE DeauthAll
  <2>1. client_get_first_client \in Node \cup {Null}
    BY WalkType DEF LifeInv, LifeCore, ListCore
  <2>2. main' \in MainThread /\ main'.todo = main.todo /\ main'.pc = "deauthing"
    BY <1>1, <1>12, <2>1 DEF DeauthAll, MainThread, MainPc
  <2>3. QED
    BY <1>1, <1>3, <1>12, <2>2 DEF DeauthAll, OfHosts, AliveOK
<1>13. CASE DeauthAllDone
  <2>1. main' \in MainThread /\ main'.todo = main.todo /\ main'.pc = "fw_destroy"
    BY <1>1, <1>13 DEF DeauthAllDone, MainThread, MainPc
  <2>2. QED
    BY <1>1, <1>3, <1>13, <2>1 DEF DeauthAllDone, OfHosts, AliveOK
<1>14. ASSUME NEW s \in Signal, SignalMain(s) PROVE MainOK' /\ AliveOK'
  <2>1. CASE main' = [main EXCEPT !.pc = "gone"]
    <3>1. main' \in MainThread /\ main'.todo = main.todo /\ main'.pc = "gone"
      BY <1>1, <2>1 DEF MainThread, MainPc
    <3>2. QED
      BY <1>1, <1>3, <1>14, <3>1 DEF SignalMain, OfHosts, AliveOK
  <2>2. CASE main' = [Terminating(main) EXCEPT !.blocked = {s}]
    <3>1. main' \in MainThread /\ main'.todo = main.todo /\ main'.pc # "write"
      BY <2>2, MainRegisters DEF MainThread
    <3>2. QED
      BY <1>1, <1>3, <1>14, <3>1 DEF SignalMain, OfHosts, AliveOK
  <2>3. QED
    BY <1>14, <2>1, <2>2 DEF SignalMain
<1>15. ASSUME NEW s \in Signal, NEW t \in alive, SignalOther(s, t) PROVE MainOK' /\ AliveOK'
  BY <1>0, <1>1, <1>15 DEF SignalOther, MainOK, OfHosts, AliveOK
<1>16. CASE FlushEntries
  <2>1. PICK pc \in {"threads", "flush_list"} : main' = [main EXCEPT !.pc = pc]
    BY <1>16 DEF FlushEntries
  <2>2. main' \in MainThread /\ main'.todo = main.todo /\ main'.pc = pc
    BY <1>1, <2>1 DEF MainThread, MainPc
  <2>3. QED
    BY <1>1, <1>3, <1>16, <2>2 DEF FlushEntries, OfHosts, AliveOK
<1>17. QED
  BY <1>4, <1>5, <1>6, <1>7, <1>8, <1>9, <1>10, <1>11, <1>12, <1>13, <1>14, <1>15, <1>16

(* The commands of iptables_fw_destroy and iptables_fw_init. *)
LEMMA DestroyedChains ==
    ASSUME ChainsOK, NEW k, DestroyCommand(k)
    PROVE  ChainsOK' /\ DOMAIN rules' \subseteq DOMAIN rules
<1>1. CASE \E c : iptables_flush(c)
  BY <1>1 DEF iptables_flush, ChainsOK
<1>2. CASE \E c : iptables_delete_chain(c)
  <2>1. PICK c : iptables_delete_chain(c)
    BY <1>2
  <2>2. CASE UNCHANGED <<rules, macrules>>
    BY <2>2 DEF ChainsOK
  <2>3. CASE /\ rules' = [r \in {q \in DOMAIN rules : q[1] # c} |-> rules[r]]
             /\ macrules' = [r \in {q \in DOMAIN macrules : ListChain(q[1]) # c} |-> macrules[r]]
    BY <2>3 DEF ChainsOK
  <2>4. QED
    BY <2>1, <2>2, <2>3 DEF iptables_delete_chain
<1>3. CASE UNCHANGED <<rules, macrules>>
  BY <1>3 DEF ChainsOK
<1>4. QED
  BY <1>1, <1>2, <1>3 DEF DestroyCommand

LEMMA MadeChains ==
    ASSUME ChainsOK, NEW C, iptables_fw_init(C)
    PROVE  ChainsOK'
<1>1. DOMAIN rules' \subseteq Rule /\ rules' \in [DOMAIN rules' -> Nat]
  BY DEF iptables_fw_init, ChainsOK
<1>2. DOMAIN macrules' \subseteq MacListName \X Mac
  BY DEF iptables_fw_init, ChainsOK
<1>3. macrules' \in [DOMAIN macrules' -> Nat]
  BY DEF iptables_fw_init, ChainsOK
<1>4. QED
  BY <1>1, <1>2, <1>3 DEF ChainsOK

(* The next program counters of main in iptables_fw_destroy. *)
LEMMA DestroyMain ==
    ASSUME LifeInv, NEW next \in MainPc, iptables_fw_destroy(next)
    PROVE  /\ main' \in MainThread /\ main'.todo = main.todo /\ main'.retry = main.retry
           /\ main'.term = main.term
           /\ \/ main.cmd < 7 /\ main'.pc = main.pc /\ main'.cmd = main.cmd + 1
              \/ main.cmd = 7 /\ main'.pc = next /\ main'.cmd = 0
<1>1. main \in MainThread /\ main.cmd \in Commands
  BY DEF LifeInv, LifeCore, MainOK, MainThread
<1>2. CASE main.cmd < 7
  <2>1. main.cmd + 1 \in Commands
    BY <1>1, <1>2 DEF Commands
  <2>2. main' = [main EXCEPT !.cmd = main.cmd + 1]
    BY <1>2 DEF iptables_fw_destroy
  <2>3. QED
    BY <1>1, <1>2, <2>1, <2>2 DEF MainThread
<1>3. CASE ~(main.cmd < 7)
  <2>1. main.cmd = 7 /\ 0 \in Commands
    BY <1>1, <1>3 DEF Commands
  <2>2. main' = [main EXCEPT !.cmd = 0, !.pc = next]
    BY <1>3 DEF iptables_fw_destroy
  <2>3. QED
    BY <1>1, <2>1, <2>2 DEF MainThread
<1>4. QED
  BY <1>2, <1>3

LEMMA ChainSteps ==
    ASSUME LifeInv, FwDestroyAtStart \/ FwInit \/ FwInitFails \/ FwDestroyAtExit
    PROVE  LifeCore' /\ Counted
<1>1. main \in MainThread /\ OfHosts(main.todo) /\ ChainsOK
  BY DEF LifeInv, LifeCore, MainOK
<1>2. ASSUME main' \in MainThread, main'.todo = main.todo, main'.pc # "write" PROVE MainOK'
  BY <1>1, <1>2 DEF MainOK, OfHosts
<1>3. MainOK'
  <2>1. CASE FwDestroyAtStart
    BY <1>2, <2>1, DestroyMain DEF FwDestroyAtStart, MainPc
  <2>2. CASE FwDestroyAtExit
    BY <1>2, <2>2, DestroyMain DEF FwDestroyAtExit, MainPc
  <2>3. CASE FwInit \/ FwInitFails
    <3>1. PICK pc \in {"flush", "import", "fw_destroy"} : main' = [main EXCEPT !.pc = pc]
      BY <2>3 DEF FwInit, FwInitFails
    <3>2. main' \in MainThread /\ main'.todo = main.todo /\ main'.pc = pc
      BY <1>1, <3>1 DEF MainThread, MainPc
    <3>3. QED
      BY <1>2, <3>2
  <2>4. QED
    BY <2>1, <2>2, <2>3
<1>4. UNCHANGED listVars /\ UNCHANGED <<maclist, now, threadVars, saved, alive>>
  BY DEF FwDestroyAtStart, FwInit, FwInitFails, FwDestroyAtExit, iptables_fw_destroy,
         iptables_fw_init
<1>5. ChainsOK'
  <2>1. CASE FwDestroyAtStart \/ FwDestroyAtExit
    BY <1>1, <2>1, DestroyedChains DEF FwDestroyAtStart, FwDestroyAtExit, iptables_fw_destroy
  <2>2. CASE FwInit \/ FwInitFails
    BY <1>1, <2>2, MadeChains DEF FwInit, FwInitFails
  <2>3. QED
    BY <2>1, <2>2
<1>6. CoreStep /\ maclist' \in [MacListName -> SUBSET Mac]
  BY <1>4, UnchangedKeeps, KeptCore DEF LifeInv, LifeCore
<1>7. LifeCore'
  BY <1>3, <1>4, <1>5, <1>6, FirewallMain DEF CoreStep
<1>8. QED
  BY <1>6, <1>7 DEF CoreStep, Counted

(* The end of the process, whatever ends it. *)
LEMMA ProcessSteps ==
    ASSUME LifeInv, Exit \/ Crash
    PROVE  LifeInv' /\ main' = MainOff /\ ProcessEnds
<1>1. ProcessEnds /\ UNCHANGED <<rules, macrules, saved>>
  BY DEF Exit, Crash
<1>2. ListCore' /\ CountMatches'
  <2>1. client_list_init'
    BY <1>1 DEF ProcessEnds, client_list_init, FreshHeap
  <2>2. ListTypeOK' /\ UniquePeer' /\ EntriesHavePeer'
    BY <2>1 DEF client_list_init, FreshHeap, ListTypeOK, t_client, Mark,
                FW_MARK_PREAUTHENTICATED, UniquePeer, EntriesHavePeer
  <2>3. IsFiniteSet(clients') /\ CountMatches'
    BY <2>1, FS_EmptySet, MaxClientsAssumption DEF client_list_init, CountMatches
  <2>4. QED
    BY <2>2, <2>3 DEF ListCore
<1>3. ChainsOK'
  BY <1>1 DEF ChainsOK, LifeInv, LifeCore
<1>4. maclist' \in [MacListName -> SUBSET Mac]
  BY <1>1 DEF ProcessEnds
<1>5. ThreadsTypeOK' /\ HttpOK'
  BY <1>1 DEF ProcessEnds, LifeInv, LifeCore, ThreadsTypeOK, HttpOK, IdleHttp, HttpThread,
              HttpPc, IdleNdsctl, NdsctlThread, IdleTimer, TimerThread
<1>6. SavedOK' /\ MainOK' /\ AliveOK'
  BY <1>1, MainOffOK
     DEF ProcessEnds, LifeInv, LifeCore, SavedOK, MainOK, AliveOK, OfHosts
<1>7. main' = MainOff /\ RetryOK' /\ CountOK'
  BY <1>1, <1>2, MainOffOK DEF ProcessEnds, RetryOK, CountOK, Flushing
<1>8. QED
  BY <1>1, <1>2, <1>3, <1>4, <1>5, <1>6, <1>7 DEF LifeInv, LifeCore

(* The entry of a set that is read first. *)
LEMMA FirstEntryIsMember ==
    ASSUME NEW E \in SUBSET t_client, E # {}
    PROVE  FirstEntry(E) \in E
<1> DEFINE T == {e.ord : e \in E}
<1>1. T \in SUBSET Nat /\ T # {}
  BY DEF t_client
<1>2. PICK x \in T : \A y \in T : x <= y
  BY <1>1, LeastNat
<1>3. \E e \in E : \A f \in E : e.ord <= f.ord
  BY <1>2
<1>4. QED
  BY <1>3 DEF FirstEntry

(* What an import of an entry does to the list and the firewall. *)
Placed(e) ==
    [e EXCEPT !.ord = NextPlace, !.fw_connection_state = ImportedState(e)]

LEMMA ImportFacts ==
    ASSUME LifeInv, ImportClient
    PROVE  LET e == FirstEntry(main.todo) IN
           /\ e \in main.todo /\ e \in t_client /\ e.peer \in Peer
           /\ main' = [main EXCEPT !.todo = @ \ {e}]
           /\ \E n \in Node \ clients :
                 /\ state_file_import_client(e, n)
                 /\ Placed(e) \in t_client /\ Placed(e).peer = e.peer
                 /\ Placed(e).id = e.id /\ Placed(e).session_end = e.session_end
                 /\ Placed(e).fw_connection_state = ImportedState(e)
                 /\ heap'[n] = Placed(e) /\ \A k \in Node \ {n} : heap'[k] = heap[k]
<1> DEFINE e == FirstEntry(main.todo)
<1>1. main.todo \in SUBSET t_client /\ main.todo # {} /\ OfHosts(main.todo)
  BY DEF ImportClient, LifeInv, LifeCore, MainOK, MainThread
<1>2. e \in main.todo /\ e \in t_client /\ e.peer \in Peer
  BY <1>1, FirstEntryIsMember DEF OfHosts
<1>3. PICK n \in Node \ clients : state_file_import_client(e, n)
  BY DEF ImportClient
<1>4. ImportedState(e) \in Mark /\ NextPlace \in Nat
  BY <1>2, NextPlaceType DEF ImportedState, InitialMark, Mark, t_client, LifeInv, LifeCore, ListCore
<1>5. /\ Placed(e) \in t_client /\ Placed(e).peer = e.peer
      /\ Placed(e).id = e.id /\ Placed(e).session_end = e.session_end
      /\ Placed(e).fw_connection_state = ImportedState(e)
  BY <1>2, <1>4 DEF Placed, t_client
<1>6. heap' = [heap EXCEPT ![n] = Placed(e)]
  BY <1>3 DEF state_file_import_client, Placed
<1>7. heap'[n] = Placed(e) /\ \A k \in Node \ {n} : heap'[k] = heap[k]
  BY <1>6 DEF LifeInv, LifeCore, ListCore, ListTypeOK
<1>8. main' = [main EXCEPT !.todo = @ \ {e}]
  BY DEF ImportClient
<1>9. QED
  BY <1>2, <1>3, <1>5, <1>7, <1>8

LEMMA ImportStep ==
    ASSUME LifeInv, ImportClient
    PROVE  LifeCore' /\ Counted
<1> DEFINE e == FirstEntry(main.todo)
<1>1. /\ e \in main.todo /\ e \in t_client /\ e.peer \in Peer
      /\ main' = [main EXCEPT !.todo = @ \ {e}]
  BY ImportFacts
<1>2. PICK n \in Node \ clients :
        /\ state_file_import_client(e, n)
        /\ Placed(e) \in t_client /\ Placed(e).peer = e.peer
  BY ImportFacts
<1>3. ListCore' /\ Counted
  <2>1. ListCore /\ client_id \in Nat \ {0} /\ client_count \in Int
    BY DEF LifeInv, LifeCore, ListCore, ListTypeOK
  <2>2. /\ heap' = [heap EXCEPT ![n] = Placed(e)] /\ clients' = clients \cup {n}
        /\ client_id' = client_id + 1 /\ client_count' = client_count + 1
        /\ client_list_find(e.peer) = Null /\ ~ListFull
    BY <1>2 DEF state_file_import_client, Placed, Importable
  <2>3. client_id' \in Nat \ {0} /\ client_count' \in Int
    BY <2>1, <2>2
  <2>4. ListCore'
    BY <1>1, <1>2, <2>1, <2>2, <2>3, PlaceKeepsCore
  <2>5. CountMatches => CountMatches'
    BY <1>2, <2>1, <2>2, PlaceKeepsCount
  <2>6. QED
    BY <2>4, <2>5 DEF Counted
<1>4. ChainsOK' /\ maclist' \in [MacListName -> SUBSET Mac]
  <2>1. UNCHANGED <<maclist, macrules>>
    BY <1>2 DEF state_file_import_client, macVars
  <2>2. \E D : rules' \in {rules, Plus(rules, D), Minus(rules, D)}
    BY <1>2 DEF state_file_import_client, iptables_fw_authenticate
  <2>3. QED
    BY <2>1, <2>2, BagChains DEF LifeInv, LifeCore, ChainsOK
<1>5. MainOK'
  <2>1. /\ main' \in MainThread /\ main'.todo = main.todo \ {e} /\ main'.pc = "importing"
    BY <1>1 DEF ImportClient, LifeInv, LifeCore, MainOK, MainThread
  <2>2. QED
    BY <2>1 DEF LifeInv, LifeCore, MainOK, OfHosts
<1>6. QED
  BY <1>3, <1>4, <1>5, FirewallMain DEF ImportClient

(* The stores of client_list_flush. *)
LEMMA FlushSteps ==
    ASSUME LifeInv, FlushList \/ FlushCount \/ FlushId
    PROVE  LifeCore' /\ main'.retry
<1>1. main \in MainThread /\ OfHosts(main.todo) /\ ListCore /\ main.retry
  BY DEF LifeInv, LifeCore, MainOK, RetryOK, Flushing, FlushList, FlushCount, FlushId
<1>2. ListCore'
  <2>1. CASE FlushList
    BY <1>1, <2>1, FS_EmptySet
       DEF FlushList, ListCore, ListTypeOK, UniquePeer, EntriesHavePeer
  <2>2. CASE FlushCount \/ FlushId
    BY <1>1, <2>2
       DEF FlushCount, FlushId, ListCore, ListTypeOK, UniquePeer, EntriesHavePeer, PeerOf
  <2>3. QED
    BY <2>1, <2>2
<1>3. PICK pc \in {"flush_count", "flush_id", "threads"} : main' = [main EXCEPT !.pc = pc]
  BY DEF FlushList, FlushCount, FlushId
<1>4. main' \in MainThread /\ main'.todo = main.todo /\ main'.pc = pc /\ main'.retry = main.retry
  BY <1>1, <1>3 DEF MainThread, MainPc
<1>5. MainOK'
  BY <1>1, <1>4 DEF MainOK, OfHosts
<1>6. ChainsOK' /\ maclist' \in [MacListName -> SUBSET Mac]
  BY DEF FlushList, FlushCount, FlushId, macVars, LifeInv, LifeCore, ChainsOK
<1>7. LifeCore'
  BY <1>2, <1>5, <1>6, FirewallMain DEF FlushList, FlushCount, FlushId
<1>8. QED
  BY <1>1, <1>4, <1>7

LEMMA FlushAppendStep ==
    ASSUME LifeInv, FlushMeetsAppend
    PROVE  LifeCore' /\ main'.retry
<1>1. /\ main \in MainThread /\ OfHosts(main.todo) /\ ListCore /\ ListTypeOK /\ main.retry
      /\ http \in HttpThread /\ http.peer \in Peer /\ now \in Nat
      /\ client_id \in Nat \ {0} /\ client_count \in Int
  BY DEF LifeInv, LifeCore, MainOK, RetryOK, Flushing, FlushMeetsAppend, ThreadsTypeOK, HttpOK,
         ListCore, ListTypeOK
<1> DEFINE state == InitialMark(http.peer[1])
<1>2. state \in Mark
  BY DEF InitialMark, Mark
<1>3. PICK n \in Node \ clients, id \in {1, client_id} :
        /\ heap' = [heap EXCEPT ![n] = NewClient(http.peer, id, state, now)]
        /\ clients' \in IF main.pc = "flush_list" THEN {{}, {n}} ELSE {clients \cup {n}}
        /\ client_id' \in {id + 1} \cup (IF id = client_id THEN {1, 2} ELSE {})
        /\ http' = [http EXCEPT !.pc = "dispatch", !.node = n]
  BY DEF FlushMeetsAppend
<1> DEFINE new == NewClient(http.peer, id, state, now)
<1>4. new \in t_client /\ new.peer = http.peer
  BY <1>1, <1>2, NewClientType
<1>5. client_id' \in Nat \ {0} /\ client_count' \in Int
  BY <1>1, <1>3 DEF FlushMeetsAppend
<1>6. ListCore'
  <2>1. CASE main.pc # "flush_list"
    <3>1. client_list_find(http.peer) = Null /\ clients' = clients \cup {n}
      BY <1>3, <2>1 DEF FlushMeetsAppend
    <3>2. QED
      BY <1>1, <1>3, <1>4, <1>5, <3>1, PlaceKeepsCore
  <2>2. CASE main.pc = "flush_list"
    <3>1. clients' = {} \/ clients' = {n}
      BY <1>3, <2>2
    <3>2. heap' \in [Node -> t_client] /\ heap'[n] = new
      BY <1>1, <1>3, <1>4 DEF ListTypeOK
    <3>3. ListTypeOK' /\ EntriesHavePeer' /\ UniquePeer'
      BY <1>1, <1>3, <1>4, <1>5, <3>1, <3>2
         DEF ListTypeOK, EntriesHavePeer, UniquePeer, PeerOf
    <3>4. IsFiniteSet(clients')
      BY <3>1, FS_EmptySet, FS_Singleton
    <3>5. QED
      BY <3>3, <3>4 DEF ListCore
  <2>3. QED
    BY <2>1, <2>2
<1>7. ThreadsTypeOK' /\ HttpOK'
  <2>1. http' \in HttpThread /\ HttpOK'
    BY <1>1, <1>3 DEF HttpThread, HttpPc, HttpOK
  <2>2. QED
    BY <2>1 DEF FlushMeetsAppend, LifeInv, LifeCore, ThreadsTypeOK
<1>8. main' \in MainThread /\ main'.todo = main.todo /\ main'.pc = "threads" /\ main'.retry
  BY <1>1 DEF FlushMeetsAppend, MainThread, MainPc
<1>9. MainOK'
  BY <1>1, <1>8 DEF MainOK, OfHosts
<1>10. ChainsOK' /\ maclist' \in [MacListName -> SUBSET Mac] /\ SavedOK' /\ AliveOK'
  BY DEF FlushMeetsAppend, macVars, LifeInv, LifeCore, ChainsOK, SavedOK, AliveOK
<1>11. QED
  BY <1>6, <1>7, <1>8, <1>9, <1>10 DEF LifeCore

LEMMA ExportSteps ==
    ASSUME LifeInv, Export \/ ExportWrite
    PROVE  LifeCore' /\ Counted
<1>1. UNCHANGED listVars /\ UNCHANGED <<rules, maclist, macrules, now, threadVars, alive>>
  BY DEF Export, ExportWrite, state_file_export, json_object_to_file, authVars, macVars
<1>2. CoreStep /\ ChainsOK' /\ maclist' \in [MacListName -> SUBSET Mac]
  BY <1>1, UnchangedKeeps, KeptCore DEF LifeInv, LifeCore, ChainsOK
<1>3. main \in MainThread /\ OfHosts(main.todo)
  BY DEF LifeInv, LifeCore, MainOK
<1>4. CASE Export
  <2> DEFINE E == {heap[n] : n \in clients}
  <2>1. saved' = [complete |-> FALSE, clients |-> E]
    BY <1>4 DEF Export, state_file_export
  <2>2. E \in SUBSET t_client /\ OfHosts(E)
    BY DEF LifeInv, LifeCore, ListCore, ListTypeOK, EntriesHavePeer, PeerOf, OfHosts
  <2>3. saved' \in StateFile /\ OfHosts(saved'.clients)
    BY <2>1, <2>2 DEF StateFile
  <2>4. main' \in MainThread /\ main'.todo = main.todo
    BY <1>3, <1>4 DEF Export, MainThread, MainPc
  <2>5. SavedOK' /\ MainOK'
    BY <1>3, <2>3, <2>4 DEF SavedOK, MainOK, OfHosts
  <2>6. QED
    BY <1>1, <1>2, <2>5 DEF LifeInv, LifeCore, CoreStep, Counted, threadVars, ThreadsTypeOK, HttpOK, AliveOK
<1>5. CASE ExportWrite
  <2>1. saved \in StateFile /\ OfHosts(saved.clients)
    BY <1>5 DEF ExportWrite, LifeInv, LifeCore, MainOK
  <2>2. saved' \in StateFile /\ saved'.clients = saved.clients
    BY <1>5, <2>1 DEF ExportWrite, json_object_to_file, StateFile
  <2>3. main' \in MainThread /\ main'.todo = main.todo
    BY <1>3, <1>5 DEF ExportWrite, MainThread, MainPc
  <2>4. SavedOK' /\ MainOK'
    BY <1>3, <2>1, <2>2, <2>3 DEF SavedOK, MainOK, OfHosts
  <2>5. QED
    BY <1>1, <1>2, <2>4 DEF LifeInv, LifeCore, CoreStep, Counted, threadVars, ThreadsTypeOK, HttpOK, AliveOK
<1>6. QED
  BY <1>4, <1>5

LEMMA DeauthStep ==
    ASSUME LifeInv, DeauthClient
    PROVE  LifeCore' /\ Counted
<1>1. ListCore /\ now \in Nat /\ AuthById(heap[main.node].id, FW_MARK_PREAUTHENTICATED, now)
  BY DEF DeauthClient, LifeInv, LifeCore, ThreadsTypeOK
<1>2. AccessStep /\ MacStep /\ CoreStep
  BY <1>1, ByIdAccess, ByIdCore
<1>3. ChainsOK' /\ maclist' \in [MacListName -> SUBSET Mac]
  BY <1>2, ChainsStep DEF LifeInv, LifeCore
<1>4. NextClient(main.node) \in Node \cup {Null}
  BY WalkType DEF LifeInv, LifeCore, ListCore
<1>5. main' \in MainThread /\ main'.todo = main.todo /\ main'.pc = "deauthing"
  BY <1>4 DEF DeauthClient, LifeInv, LifeCore, MainOK, MainThread
<1>6. MainOK'
  BY <1>5 DEF LifeInv, LifeCore, MainOK, OfHosts
<1>7. LifeCore'
  BY <1>2, <1>3, <1>6, FirewallMain DEF DeauthClient, CoreStep
<1>8. QED
  BY <1>2, <1>7 DEF CoreStep, Counted

-------------------------------------------------------------------------------
(* Where each step takes the main thread, and whether the import failed. *)
MovesTo(P) == main'.pc \in P /\ main'.retry = main.retry

LEMMA MainMoves ==
    ASSUME LifeInv
    PROVE  /\ Start => main' = [MainOff EXCEPT !.pc = "destroy"] /\ main'.pc = "destroy"
           /\ FwDestroyAtStart => MovesTo({"destroy", "init"})
           /\ FwInitMarks => main.pc = "init" /\ MovesTo({"chains"})
           /\ FwInit => MovesTo({IF main.retry THEN "flush" ELSE "import"})
           /\ FwInitFails => MovesTo({"fw_destroy"})
           /\ ImportBegin => \/ MovesTo({"threads", "importing"})
                             \/ main'.pc = "destroy" /\ main'.retry
           /\ ImportClient => MovesTo({"importing"})
           /\ ImportFails => main'.pc = "destroy" /\ main'.retry
           /\ ImportEnd => MovesTo({"threads"})
           /\ FlushEntries => MovesTo({"threads", "flush_list"})
           /\ FlushList => MovesTo({"flush_count"})
           /\ FlushCount => MovesTo({"flush_id"})
           /\ FlushId \/ FlushMeetsAppend => MovesTo({"threads"})
           /\ StartThreads => MovesTo({"join", "export", "deauth_all"})
           /\ NdsctlStop => MovesTo({IF main.pc = "join" THEN "stop_web" ELSE main.pc})
           /\ StopWeb => MovesTo({"export", "deauth_all"})
           /\ Export => MovesTo({"write"})
           /\ ExportWrite => MovesTo({"deauth_all"})
           /\ DeauthAll \/ DeauthClient => MovesTo({"deauthing"})
           /\ DeauthAllDone => MovesTo({"fw_destroy"})
           /\ FwDestroyAtExit => MovesTo({"fw_destroy", "exit"})
           /\ (\E s \in Signal : SignalMain(s)) => MovesTo({"gone", "export", "deauth_all"})
<1>1. main \in MainThread
  BY DEF LifeInv, LifeCore, MainOK
<1>2. /\ Start => main' = [MainOff EXCEPT !.pc = "destroy"] /\ main'.pc = "destroy"
  BY DEF Start, MainOff
<1>3. /\ FwInitMarks => main.pc = "init" /\ MovesTo({"chains"})
      /\ FwInit => MovesTo({IF main.retry THEN "flush" ELSE "import"})
      /\ FwInitFails => MovesTo({"fw_destroy"})
  BY <1>1 DEF MovesTo, FwInitMarks, FwInit, FwInitFails, MainThread
<1>4. ImportBegin => \/ MovesTo({"threads", "importing"})
                     \/ main'.pc = "destroy" /\ main'.retry
  BY <1>1 DEF MovesTo, ImportBegin, MainThread
<1>5. /\ ImportClient => MovesTo({"importing"})
      /\ ImportFails => main'.pc = "destroy" /\ main'.retry
      /\ ImportEnd => MovesTo({"threads"})
  BY <1>1 DEF MovesTo, ImportClient, ImportFails, ImportEnd, MainThread
<1>6. /\ StartThreads => MovesTo({"join", "export", "deauth_all"})
      /\ StopWeb => MovesTo({"export", "deauth_all"})
  <2>1. [main EXCEPT !.pc = "join", !.write = TRUE].pc = "join"
        /\ [main EXCEPT !.pc = "join", !.write = TRUE].retry = main.retry
    BY <1>1 DEF MainThread
  <2>2. QED
    BY <2>1, MainRegisters DEF MovesTo, StartThreads, StopWeb
<1>7. NdsctlStop => MovesTo({IF main.pc = "join" THEN "stop_web" ELSE main.pc})
  BY <1>1 DEF MovesTo, NdsctlStop, MainThread
<1>8. /\ Export => MovesTo({"write"})
      /\ ExportWrite => MovesTo({"deauth_all"})
      /\ DeauthAll \/ DeauthClient => MovesTo({"deauthing"})
      /\ DeauthAllDone => MovesTo({"fw_destroy"})
  BY <1>1 DEF MovesTo, Export, ExportWrite, DeauthAll, DeauthClient, DeauthAllDone,
              MainThread
<1>9. ASSUME NEW s \in Signal, SignalMain(s) PROVE MovesTo({"gone", "export", "deauth_all"})
  <2>1. CASE main' = [main EXCEPT !.pc = "gone"]
    BY <1>1, <2>1 DEF MovesTo, MainThread
  <2>2. CASE main' = [Terminating(main) EXCEPT !.blocked = {s}]
    BY <2>2, MainRegisters DEF MovesTo, MainThread
  <2>3. QED
    BY <1>9, <2>1, <2>2 DEF SignalMain
<1>10. /\ FlushEntries => MovesTo({"threads", "flush_list"})
       /\ FlushList => MovesTo({"flush_count"})
       /\ FlushCount => MovesTo({"flush_id"})
       /\ FlushId \/ FlushMeetsAppend => MovesTo({"threads"})
  BY <1>1 DEF MovesTo, FlushEntries, FlushList, FlushCount, FlushId, FlushMeetsAppend, MainThread
<1>11. /\ FwDestroyAtStart => MovesTo({"destroy", "init"})
       /\ FwDestroyAtExit => MovesTo({"fw_destroy", "exit"})
  BY DestroyMain DEF MovesTo, FwDestroyAtStart, FwDestroyAtExit, MainPc
<1>12. QED
  BY <1>2, <1>3, <1>4, <1>5, <1>6, <1>7, <1>8, <1>9, <1>10, <1>11

LEMMA LifeInitOK == LifeInit => LifeInv
<1> SUFFICES ASSUME LifeInit PROVE LifeInv
  OBVIOUS
<1>1. ListCore /\ CountMatches
  BY ListInitOK DEF LifeInit, ListInv
<1>2. ChainsOK /\ maclist \in [MacListName -> SUBSET Mac]
  BY DEF LifeInit, ChainsOK, NoChains
<1>3. ThreadsTypeOK /\ HttpOK
  BY DEF LifeInit, ThreadsTypeOK, HttpOK, IdleHttp, HttpThread, HttpPc, IdleNdsctl,
         NdsctlThread, IdleTimer, TimerThread
<1>4. SavedOK /\ MainOK /\ AliveOK
  BY MainOffOK DEF LifeInit, SavedOK, MainOK, AliveOK, OfHosts
<1>5. RetryOK /\ CountOK
  BY <1>1, MainOffOK DEF LifeInit, RetryOK, CountOK, Flushing
<1>6. QED
  BY <1>1, <1>2, <1>3, <1>4, <1>5 DEF LifeInv, LifeCore

LEMMA LifeNextOK == LifeInv /\ [LifeNext]_allVars => LifeInv'
<1> SUFFICES ASSUME LifeInv, [LifeNext]_allVars PROVE LifeInv'
  OBVIOUS
<1>1. CASE UNCHANGED allVars
  <2>1. UNCHANGED vars /\ UNCHANGED <<saved, main, alive>>
    BY <1>1 DEF allVars
  <2>2. MainOK' /\ AliveOK' /\ RetryOK'
    BY <2>1 DEF LifeInv, LifeCore, MainOK, AliveOK, RetryOK
  <2>3. LifeCore' /\ Counted
    BY <2>1, <2>2, QuietMain
  <2>4. QED
    BY <2>1, <2>2, <2>3 DEF LifeInv, Counted, CountOK
<1>2. CASE Running \/ Exit \/ Crash
  BY <1>2, RunningStep, ProcessSteps
<1>3. CASE Start
  <2>1. main.pc = "off" /\ main' = [MainOff EXCEPT !.pc = "destroy"]
    BY <1>3 DEF Start
  <2>2. main'.pc = "destroy" /\ ~main'.retry
    BY <2>1, MainOffOK DEF MainOff
  <2>3. LifeCore' /\ Counted
    BY <1>3, QuietSteps
  <2>4. QED
    BY <2>1, <2>2, <2>3 DEF LifeInv, RetryOK, CountOK, Counted, Flushing
<1>4. CASE \/ Starting \/ NdsctlStop \/ (Stopping /\ ~Exit)
           \/ \E s \in Signal : SignalMain(s)
           \/ \E s \in Signal, t \in alive : SignalOther(s, t)
  <2>1. LifeCore' /\ Counted
    BY <1>4, QuietSteps, ChainSteps, ImportStep, FlushSteps, FlushAppendStep, ExportSteps,
       DeauthStep
       DEF Starting, Stopping, Counted
  <2>2. RetryOK' /\ (main'.retry = main.retry \/ main'.retry)
    <3>1. CASE ImportBegin \/ ImportFails
      BY <3>1, MainMoves DEF MovesTo, RetryOK, Flushing
    <3>2. CASE FlushEntries \/ FlushList \/ FlushCount \/ FlushId \/ FlushMeetsAppend
      <4>1. main.retry
        BY <3>2 DEF LifeInv, RetryOK, Flushing, FlushEntries, FlushList, FlushCount, FlushId,
                    FlushMeetsAppend
      <4>2. QED
        BY <3>2, <4>1, MainMoves DEF MovesTo, RetryOK
    <3>3. CASE FwInit
      BY <3>3, MainMoves DEF MovesTo, RetryOK, Flushing
    <3>4. CASE NdsctlStop \/ \E s \in Signal, t \in alive : SignalOther(s, t)
      BY <3>4, MainMoves DEF MovesTo, RetryOK, Flushing, SignalOther, LifeInv
    <3>5. CASE \/ FwDestroyAtStart \/ FwInitMarks \/ FwInitFails \/ ImportClient \/ ImportEnd
               \/ StartThreads \/ (Stopping /\ ~Exit)
               \/ \E s \in Signal : SignalMain(s)
      BY <3>5, MainMoves DEF MovesTo, RetryOK, Flushing, Stopping
    <3>6. QED
      BY <1>4, <3>1, <3>2, <3>3, <3>4, <3>5 DEF Starting
  <2>3. QED
    BY <2>1, <2>2 DEF LifeInv, CountOK, Counted
<1>5. QED
  BY <1>1, <1>2, <1>3, <1>4 DEF LifeNext, Stopping, Running

(* The inductive invariant of all lives. *)
THEOREM LifeInvariant == LifeSpec => []LifeInv
BY LifeInitOK, LifeNextOK, PTL DEF LifeSpec

(* Type correctness over all lives.  client_count is the length of the list, *)
(* across an import and with requests served meanwhile, unless the state     *)
(* file was refused and main flushed the list without the lock               *)
(* (client_list_flush).                                                      *)
THEOREM LifeTypeCorrect == LifeSpec => []LifeTypeOK
<1>1. LifeInv => LifeTypeOK
  BY DEF LifeInv, LifeCore, LifeTypeOK, ListCore, ChainsOK, ThreadsTypeOK, SavedOK, MainOK,
         AliveOK, CountOK
<1>2. QED
  BY <1>1, LifeInvariant, PTL

-------------------------------------------------------------------------------
(* The exit.  iptables_fw_destroy takes no lock: what it flushed may get     *)
(* rules again before it is deleted, and a chain with a rule stays.          *)

(* Where main is in its termination, and where it is in iptables_fw_destroy. *)
TermPc == {"export", "write", "deauth_all", "deauthing", "fw_destroy", "exit", "gone"}
CmdOK == main.pc \notin {"destroy", "fw_destroy", "gone"} => main.cmd = 0

(* The webserver ends before the daemon only by `ndsctl stop', which ended   *)
(* the ndsctl thread first, or by a second signal.                           *)
StopsOK ==
    /\ stops \in Nat
    /\ main.term => stops >= 1 /\ main.pc \in TermPc
    /\ main.pc = "stop_web" => stops >= 1 /\ "ndsctl" \notin alive
    /\ main.pc # "off" /\ "http" \notin alive =>
          main.term /\ (stops <= 1 => "ndsctl" \notin alive)

(* iptables_fw_destroy has flushed the chain c on the way out. *)
Flushed(c) ==
    \/ main.pc = "exit"
    \/ /\ main.pc = "fw_destroy"
       /\ \/ c = "TRUSTED" /\ main.cmd >= 1
          \/ c = "BLOCKED" /\ main.cmd >= 2
          \/ c = "OUTGOING" /\ main.cmd >= 3
          \/ c = "INCOMING" /\ main.cmd >= 4

Listed(r) == IF r[2] \in maclist[r[1]] THEN 1 ELSE 0

(* A flushed chain holds no rules but those of the clients and MACs of now. *)
CurrentRules ==
    \A r \in DOMAIN rules : Flushed(r[1]) => rules[r] <= Cardinality(Owners(r))
CurrentMacRules ==
    \A r \in DOMAIN macrules : Flushed(ListChain(r[1])) => macrules[r] <= Listed(r)

(* Without the webserver and ndsctl nobody adds a rule of a client: flushed  *)
(* chains stay empty and their deletion succeeds.                            *)
DeletedChain(c) ==
    \/ main.pc = "exit"
    \/ main.pc = "fw_destroy" /\ c = "OUTGOING" /\ main.cmd >= 7
Quiet == "http" \notin alive /\ stops <= 1 /\ main.pc \in {"fw_destroy", "exit"}
EmptyRules ==
    Quiet => \A r \in DOMAIN rules : (Flushed(r[1]) => rules[r] = 0) /\ ~DeletedChain(r[1])

ExitInv == CmdOK /\ StopsOK /\ CurrentRules /\ CurrentMacRules /\ EmptyRules

(* The steps of main that touch neither sigterm_mutex nor the place in       *)
(* iptables_fw_destroy.                                                      *)
SameTerm == main'.term = main.term /\ main'.cmd = main.cmd

LEMMA TermMoves ==
    ASSUME LifeInv
    PROVE  /\ Start => ~main'.term /\ main'.cmd = 0
           /\ (\/ FwInitMarks \/ FwInit \/ FwInitFails
               \/ ImportBegin \/ ImportClient \/ ImportFails \/ ImportEnd
               \/ FlushEntries \/ FlushList \/ FlushCount \/ FlushId \/ FlushMeetsAppend
               \/ NdsctlStop \/ Export \/ ExportWrite \/ DeauthAll \/ DeauthClient
               \/ DeauthAllDone) => SameTerm
           /\ StopWeb => main'.term /\ main'.cmd = 0
           /\ StartThreads => \/ SameTerm /\ main'.pc = "join"
                              \/ /\ main'.term /\ main'.cmd = 0 /\ stops' = stops + 1
                                 /\ main'.pc \in {"export", "deauth_all"}
           /\ (\E s \in Signal : SignalMain(s)) =>
                 \/ main.term /\ main'.term /\ main'.pc = "gone"
                 \/ /\ main'.term /\ main'.cmd = 0 /\ main'.pc \in {"export", "deauth_all"}
<1>1. main \in MainThread
  BY DEF LifeInv, LifeCore, MainOK
<1>2. Start => ~main'.term /\ main'.cmd = 0
  BY DEF Start, MainOff
<1>3. FwInitMarks \/ FwInit \/ FwInitFails => SameTerm
  BY <1>1 DEF SameTerm, FwInitMarks, FwInit, FwInitFails, MainThread
<1>4. ImportBegin \/ ImportClient \/ ImportFails \/ ImportEnd => SameTerm
  BY <1>1 DEF SameTerm, ImportBegin, ImportClient, ImportFails, ImportEnd, MainThread
<1>5. FlushEntries \/ FlushList \/ FlushCount \/ FlushId \/ FlushMeetsAppend => SameTerm
  BY <1>1 DEF SameTerm, FlushEntries, FlushList, FlushCount, FlushId, FlushMeetsAppend, MainThread
<1>6. NdsctlStop \/ Export \/ ExportWrite => SameTerm
  BY <1>1 DEF SameTerm, NdsctlStop, Export, ExportWrite, MainThread
<1>7. DeauthAll \/ DeauthClient \/ DeauthAllDone => SameTerm
  BY <1>1 DEF SameTerm, DeauthAll, DeauthClient, DeauthAllDone, MainThread
<1>8. /\ Terminating(main).term /\ Terminating(main).cmd = 0
      /\ Terminating(main).pc \in {"export", "deauth_all"}
  <2>1. \A pc : LET m == [main EXCEPT !.term = TRUE, !.cmd = 0, !.pc = pc] IN
          m.term /\ m.cmd = 0 /\ m.pc = pc
    BY <1>1 DEF MainThread
  <2>2. \E pc \in {"export", "deauth_all"} :
          Terminating(main) = [main EXCEPT !.term = TRUE, !.cmd = 0, !.pc = pc]
    BY DEF Terminating
  <2>3. QED
    BY <2>1, <2>2
<1>9. StopWeb => main'.term /\ main'.cmd = 0
  BY <1>8 DEF StopWeb
<1>10. StartThreads => \/ SameTerm /\ main'.pc = "join"
                       \/ /\ main'.term /\ main'.cmd = 0 /\ stops' = stops + 1
                          /\ main'.pc \in {"export", "deauth_all"}
  <2>1. LET m == [main EXCEPT !.pc = "join", !.write = TRUE] IN
        m.term = main.term /\ m.cmd = main.cmd /\ m.pc = "join"
    BY <1>1 DEF MainThread
  <2>2. QED
    BY <1>8, <2>1 DEF StartThreads, SameTerm
<1>11. ASSUME NEW s \in Signal, SignalMain(s)
       PROVE  \/ main.term /\ main'.term /\ main'.pc = "gone"
              \/ /\ main'.term /\ main'.cmd = 0 /\ main'.pc \in {"export", "deauth_all"}
  <2>1. CASE main.term
    <3>1. main' = [main EXCEPT !.pc = "gone"]
      BY <1>11, <2>1 DEF SignalMain
    <3>2. QED
      BY <1>1, <2>1, <3>1 DEF MainThread
  <2>2. CASE ~main.term
    <3>1. main' = [Terminating(main) EXCEPT !.blocked = {s}] /\ Terminating(main) \in MainThread
      BY <1>11, <2>2, MainRegisters DEF SignalMain
    <3>2. QED
      BY <1>8, <3>1 DEF MainThread
  <2>3. QED
    BY <2>1, <2>2
<1>12. QED
  BY <1>2, <1>3, <1>4, <1>5, <1>6, <1>7, <1>9, <1>10, <1>11

(* The threads of other lives are gone, and the steps of the others leave    *)
(* main alone.                                                               *)
LEMMA CmdStep ==
    ASSUME LifeInv, CmdOK, [LifeNext]_allVars
    PROVE  CmdOK'
<1>1. CASE Running \/ UNCHANGED allVars \/ \E s \in Signal, t \in alive : SignalOther(s, t)
  <2>1. main' = main
    BY <1>1, RunningStep DEF allVars, SignalOther
  <2>2. QED
    BY <2>1 DEF CmdOK
<1>2. CASE FwDestroyAtStart \/ FwDestroyAtExit
  <2>1. CASE FwDestroyAtStart
    BY <2>1, DestroyMain DEF FwDestroyAtStart, MainPc, CmdOK
  <2>2. CASE FwDestroyAtExit
    BY <2>2, DestroyMain DEF FwDestroyAtExit, MainPc, CmdOK
  <2>3. QED
    BY <1>2, <2>1, <2>2
<1>3. CASE Exit \/ Crash
  BY <1>3, ProcessSteps DEF MainOff, CmdOK
<1>4. CASE \/ Start \/ StartThreads \/ StopWeb \/ \E s \in Signal : SignalMain(s)
  <2>1. StartThreads => main.pc = "threads"
    BY DEF StartThreads
  <2>2. QED
    BY <1>4, <2>1, TermMoves DEF CmdOK, SameTerm
<1>5. CASE \/ FwInitMarks \/ FwInit \/ FwInitFails
           \/ ImportBegin \/ ImportClient \/ ImportFails \/ ImportEnd
           \/ FlushEntries \/ FlushList \/ FlushCount \/ FlushId \/ FlushMeetsAppend
           \/ Export \/ ExportWrite \/ DeauthAll \/ DeauthClient \/ DeauthAllDone
  <2>1. main.pc \in MainPc \ {"destroy", "fw_destroy", "gone"}
    BY <1>5 DEF FwInitMarks, FwInit, FwInitFails, ImportBegin, ImportClient, ImportFails,
                ImportEnd, FlushEntries, FlushList, FlushCount, FlushId, FlushMeetsAppend,
                Export, ExportWrite, DeauthAll, DeauthClient, DeauthAllDone, MainPc
  <2>2. SameTerm
    BY <1>5, TermMoves
  <2>3. QED
    BY <2>1, <2>2 DEF CmdOK, SameTerm
<1>6. CASE NdsctlStop
  <2>1. SameTerm /\ main'.pc = IF main.pc = "join" THEN "stop_web" ELSE main.pc
    BY <1>6, TermMoves, MainMoves DEF MovesTo
  <2>2. QED
    BY <2>1 DEF CmdOK, SameTerm
<1>7. QED
  BY <1>1, <1>2, <1>3, <1>4, <1>5, <1>6 DEF LifeNext, Starting, Stopping, Running

LEMMA StopsStep ==
    ASSUME LifeInv, StopsOK, [LifeNext]_allVars
    PROVE  StopsOK'
<1>0. stops \in Nat
  BY DEF StopsOK
<1>1. CASE Running \/ UNCHANGED allVars
  <2>1. UNCHANGED <<main, alive, stops>>
    BY <1>1, RunningStep DEF allVars
  <2>2. QED
    BY <2>1 DEF StopsOK
<1>2. ASSUME NEW s \in Signal, NEW t \in alive, SignalOther(s, t) PROVE StopsOK'
  <2>1. main.term /\ main' = main /\ stops' = stops + 1 /\ alive' \subseteq alive
    BY <1>2 DEF SignalOther
  <2>2. stops' \in Nat /\ stops' >= 2
    BY <1>0, <2>1 DEF StopsOK
  <2>3. QED
    BY <2>1, <2>2 DEF StopsOK
<1>3. CASE Exit \/ Crash
  <2>1. main' = MainOff /\ stops' = stops
    BY <1>3, ProcessSteps DEF ProcessEnds
  <2>2. QED
    BY <1>0, <2>1 DEF MainOff, StopsOK
<1>4. CASE Start
  <2>1. ~main'.term /\ main'.pc = "destroy" /\ alive' = {"http"} /\ stops' = stops
    BY <1>4, TermMoves, MainMoves DEF Start
  <2>2. QED
    BY <1>0, <2>1 DEF StopsOK
<1>5. CASE FwDestroyAtStart \/ FwDestroyAtExit
  <2>1. UNCHANGED <<alive, stops>>
    BY <1>5 DEF FwDestroyAtStart, FwDestroyAtExit
  <2>2. main'.term = main.term
    BY <1>5, DestroyMain DEF FwDestroyAtStart, FwDestroyAtExit, MainPc
  <2>3. \/ main.pc = "destroy" /\ main'.pc \in {"destroy", "init"}
        \/ main.pc = "fw_destroy" /\ main'.pc \in {"fw_destroy", "exit"}
    BY <1>5, MainMoves DEF FwDestroyAtStart, FwDestroyAtExit, MovesTo
  <2>4. QED
    BY <2>1, <2>2, <2>3 DEF StopsOK, TermPc
<1>6. CASE \/ FwInitMarks \/ FwInit \/ FwInitFails
           \/ ImportBegin \/ ImportClient \/ ImportFails \/ ImportEnd
           \/ FlushEntries \/ FlushList \/ FlushCount \/ FlushId \/ FlushMeetsAppend
  <2>1. main.pc \in MainPc \ (TermPc \cup {"off"})
    BY <1>6 DEF FwInitMarks, FwInit, FwInitFails, ImportBegin, ImportClient, ImportFails,
                ImportEnd, FlushEntries, FlushList, FlushCount, FlushId, FlushMeetsAppend,
                MainPc, TermPc
  <2>2. SameTerm /\ UNCHANGED <<alive, stops>>
    BY <1>6, TermMoves
       DEF FwInitMarks, FwInit, FwInitFails, ImportBegin, ImportClient, ImportFails,
           ImportEnd, FlushEntries, FlushList, FlushCount, FlushId, FlushMeetsAppend
  <2>3. main'.pc # "stop_web"
    BY <1>6, MainMoves DEF MovesTo
  <2>4. QED
    BY <2>1, <2>2, <2>3 DEF StopsOK, SameTerm
<1>7. CASE StartThreads
  <2>1. main.pc = "threads" /\ alive \subseteq alive' /\ (stops' = stops \/ stops' = stops + 1)
    BY <1>7 DEF StartThreads
  <2>2. ~main.term /\ "http" \in alive'
    BY <2>1 DEF StopsOK, TermPc
  <2>3. QED
    BY <1>0, <1>7, <2>1, <2>2, TermMoves DEF StopsOK, SameTerm, TermPc
<1>8. CASE NdsctlStop
  <2>1. /\ "ndsctl" \in alive /\ alive' = alive \ {"ndsctl"} /\ stops' = stops + 1
        /\ main'.pc = IF main.pc = "join" THEN "stop_web" ELSE main.pc
        /\ SameTerm
    BY <1>8, TermMoves, MainMoves DEF NdsctlStop, MovesTo
  <2>2. stops' \in Nat /\ stops' >= 1
    BY <1>0, <2>1
  <2>3. main.term => main'.pc \in TermPc
    BY <2>1 DEF StopsOK, TermPc
  <2>4. "http" \notin alive' /\ main'.pc # "off" => main.term
    BY <2>1 DEF StopsOK
  <2>5. QED
    BY <2>1, <2>2, <2>3, <2>4 DEF StopsOK, SameTerm
<1>9. CASE StopWeb
  <2>1. /\ main.pc = "stop_web" /\ stops' = stops /\ alive' = alive \ {"http"}
        /\ main'.term /\ main'.pc \in {"export", "deauth_all"}
    BY <1>9, TermMoves, MainMoves DEF StopWeb, MovesTo
  <2>2. QED
    BY <1>0, <2>1 DEF StopsOK, TermPc
<1>10. CASE \E s \in Signal : SignalMain(s)
  <2>1. main.pc # "off" /\ stops' = stops + 1 /\ alive' = alive
    BY <1>10 DEF SignalMain
  <2>2. main'.term /\ main'.pc \in {"gone", "export", "deauth_all"}
    BY <1>10, TermMoves
  <2>3. stops' \in Nat /\ stops' >= 1 /\ (main.term => stops' >= 2)
    BY <1>0, <2>1 DEF StopsOK
  <2>4. "http" \notin alive => main.term
    BY <2>1 DEF StopsOK
  <2>5. QED
    BY <2>1, <2>2, <2>3, <2>4 DEF StopsOK, TermPc
<1>11. CASE Export \/ ExportWrite \/ DeauthAll \/ DeauthClient \/ DeauthAllDone
  <2>1. main.pc \in TermPc /\ main.pc # "off" /\ UNCHANGED <<alive, stops>>
    BY <1>11 DEF Export, ExportWrite, DeauthAll, DeauthClient, DeauthAllDone, TermPc
  <2>2. SameTerm /\ main'.pc \in TermPc
    BY <1>11, TermMoves, MainMoves DEF MovesTo, TermPc
  <2>3. QED
    BY <2>1, <2>2 DEF StopsOK, SameTerm, TermPc
<1>12. QED
  BY <1>1, <1>2, <1>3, <1>4, <1>5, <1>6, <1>7, <1>8, <1>9, <1>10, <1>11
     DEF LifeNext, Starting, Stopping, Running

(* What a command of iptables_fw_destroy does to a rule, when it is not lost. *)
LEMMA DestroyedRule ==
    ASSUME "destroy" \notin Faults, NEW k \in Commands, DestroyCommand(k)
    PROVE  /\ \A r \in DOMAIN rules' :
                /\ r \in DOMAIN rules /\ rules'[r] \in {0, rules[r]}
                /\ k < 4 /\ Chains[k + 1] = r[1] => rules'[r] = 0
                /\ k >= 4 /\ ChainEmpty(Chains[k - 3]) => r[1] # Chains[k - 3]
           /\ \A r \in DOMAIN macrules' :
                /\ r \in DOMAIN macrules /\ macrules'[r] \in {0, macrules[r]}
                /\ k < 4 /\ Chains[k + 1] = ListChain(r[1]) => macrules'[r] = 0
<1>1. CASE k < 4 /\ iptables_flush(Chains[k + 1])
  BY <1>1 DEF iptables_flush, Commands
<1>2. CASE k >= 4 /\ iptables_delete_chain(Chains[k - 3])
  BY <1>2 DEF iptables_delete_chain, Commands
<1>3. QED
  BY <1>1, <1>2 DEF DestroyCommand

LEMMA ChainOfRule ==
    /\ \A r \in Rule : r[1] \in {"OUTGOING", "INCOMING"}
    /\ \A r \in MacListName \X Mac : ListChain(r[1]) \in {"TRUSTED", "BLOCKED"}
<1>1. \A r \in Rule : r[1] \in {"OUTGOING", "INCOMING"}
  BY DEF Rule, OutgoingMark, IncomingMark, IncomingAccept
<1>2. QED
  BY <1>1 DEF ListChain

(* A chain that is flushed after a command of the last destruction was       *)
(* before, or is by this command.                                            *)
LEMMA FlushedStep ==
    ASSUME LifeInv, FwDestroyAtExit, NEW c \in {"TRUSTED", "BLOCKED", "OUTGOING", "INCOMING"},
           Flushed(c)'
    PROVE  Flushed(c) \/ (main.cmd < 4 /\ c = Chains[main.cmd + 1])
<1>1. main.cmd \in Commands /\ main.pc = "fw_destroy"
  BY DEF LifeInv, LifeCore, MainOK, MainThread, FwDestroyAtExit
<1>2. \/ main.cmd < 7 /\ main'.pc = main.pc /\ main'.cmd = main.cmd + 1
      \/ main.cmd = 7 /\ main'.pc = "exit" /\ main'.cmd = 0
  BY DestroyMain DEF FwDestroyAtExit, MainPc
<1>3. /\ Chains[1] = "TRUSTED" /\ Chains[2] = "BLOCKED"
      /\ Chains[3] = "OUTGOING" /\ Chains[4] = "INCOMING"
  BY DEF Chains
<1>4. main.cmd \in {0, 1, 2, 3, 4, 5, 6, 7}
  BY <1>1 DEF Commands
<1>5. CASE main.cmd = 7
  BY <1>1, <1>5 DEF Flushed
<1>6. CASE main.cmd # 7 /\ ~Flushed(c)
  <2>1. main'.pc = "fw_destroy" /\ main'.cmd = main.cmd + 1
    BY <1>1, <1>2, <1>6
  <2>2. \/ c = "TRUSTED" /\ main.cmd = 0
        \/ c = "BLOCKED" /\ main.cmd = 1
        \/ c = "OUTGOING" /\ main.cmd = 2
        \/ c = "INCOMING" /\ main.cmd = 3
    BY <1>1, <1>4, <1>6, <2>1 DEF Flushed
  <2>3. QED
    BY <1>3, <2>2
<1>7. QED
  BY <1>5, <1>6

(* The steps outside the destruction leave no chain flushed, or it was.      *)
LEMMA OtherFlushed ==
    ASSUME LifeInv, CmdOK, [LifeNext]_allVars, ~FwDestroyAtExit, NEW c, Flushed(c)'
    PROVE  Flushed(c) /\ (Running \/ UNCHANGED vars) /\ SameTerm /\ main'.pc = main.pc
<1>1. main'.pc \in {"fw_destroy", "exit"} /\ (main'.pc = "fw_destroy" => main'.cmd >= 1)
  <2>1. main'.cmd \in Nat
    BY LifeNextOK DEF LifeInv, LifeCore, MainOK, MainThread, Commands
  <2>2. QED
    BY <2>1 DEF Flushed
<1>2. CASE Running \/ UNCHANGED allVars \/ \E s \in Signal, t \in alive : SignalOther(s, t)
  <2>1. main' = main /\ (Running \/ UNCHANGED vars)
    BY <1>2, RunningStep DEF allVars, SignalOther
  <2>2. QED
    BY <2>1 DEF Flushed, SameTerm
<1>3. CASE NdsctlStop
  <2>1. main'.pc = main.pc /\ SameTerm /\ UNCHANGED vars
    BY <1>1, <1>3, TermMoves, MainMoves DEF MovesTo, NdsctlStop
  <2>2. QED
    BY <2>1 DEF Flushed, SameTerm
<1>4. ASSUME FwInitFails \/ DeauthAllDone PROVE FALSE
  <2>1. main.pc \in {"chains", "deauthing"} /\ SameTerm /\ main'.pc = "fw_destroy"
    BY <1>4, TermMoves, MainMoves DEF FwInitFails, DeauthAllDone, MovesTo
  <2>2. main'.cmd = 0
    BY <2>1 DEF CmdOK, SameTerm
  <2>3. QED
    BY <1>1, <2>1, <2>2
<1>5. ASSUME Exit \/ Crash PROVE FALSE
  BY <1>1, <1>5, ProcessSteps, MainOffOK
<1>6. QED
  BY <1>1, <1>2, <1>3, <1>4, <1>5, MainMoves
     DEF LifeNext, Starting, Stopping, Running, MovesTo

LEMMA CurrentStep ==
    ASSUME "delete" \notin Faults, "destroy" \notin Faults,
           LifeInv, CmdOK, CurrentRules, CurrentMacRules, [LifeNext]_allVars
    PROVE  CurrentRules' /\ CurrentMacRules'
<1>1. LifeInv' /\ ListCore /\ ListCore' /\ ChainsOK /\ ChainsOK'
  BY LifeNextOK DEF LifeInv, LifeCore
<1>2. maclist \in [MacListName -> SUBSET Mac]
  BY DEF LifeInv, LifeCore
<1>3. CASE FwDestroyAtExit
  <2>1. /\ main.cmd \in Commands /\ DestroyCommand(main.cmd)
        /\ UNCHANGED listVars /\ maclist' = maclist
    BY <1>3 DEF FwDestroyAtExit, iptables_fw_destroy, LifeInv, LifeCore, MainOK, MainThread
  <2>2. ASSUME NEW r \in DOMAIN rules', Flushed(r[1])'
        PROVE  rules'[r] <= Cardinality(Owners(r))'
    <3>1. Owners(r)' = Owners(r) /\ Cardinality(Owners(r)) \in Nat
      <4>1. UNCHANGED <<heap, clients>>
        BY <2>1 DEF listVars
      <4>2. QED
        BY <1>1, <4>1, OwnersFinite
           DEF Owners, IsAuthenticated, StateOf, PeerOf, ClientRules,
               OutgoingMark, IncomingMark, IncomingAccept, MacOfPeer, IpOfPeer
    <3>2. r \in DOMAIN rules /\ rules'[r] \in {0, rules[r]}
          /\ (main.cmd < 4 /\ Chains[main.cmd + 1] = r[1] => rules'[r] = 0)
      BY <2>1, <2>2, DestroyedRule
    <3>3. r[1] \in {"OUTGOING", "INCOMING"}
      BY <1>1, <3>2, ChainOfRule DEF ChainsOK
    <3>4. Flushed(r[1]) \/ (main.cmd < 4 /\ r[1] = Chains[main.cmd + 1])
      BY <1>3, <2>2, <3>3, FlushedStep
    <3>5. QED
      BY <3>1, <3>2, <3>4 DEF CurrentRules
  <2>3. ASSUME NEW r \in DOMAIN macrules', Flushed(ListChain(r[1]))'
        PROVE  macrules'[r] <= Listed(r)'
    <3>1. Listed(r)' = Listed(r) /\ Listed(r) \in {0, 1}
      BY <2>1 DEF Listed
    <3>2. r \in DOMAIN macrules /\ macrules'[r] \in {0, macrules[r]}
          /\ (main.cmd < 4 /\ Chains[main.cmd + 1] = ListChain(r[1]) => macrules'[r] = 0)
      BY <2>1, <2>3, DestroyedRule
    <3>3. ListChain(r[1]) \in {"TRUSTED", "BLOCKED"}
      BY <1>1, <3>2, ChainOfRule DEF ChainsOK
    <3>4. ListChain(r[1])' = ListChain(r[1])
      BY DEF ListChain
    <3>5. Flushed(ListChain(r[1])) \/ (main.cmd < 4 /\ ListChain(r[1]) = Chains[main.cmd + 1])
      BY <1>3, <2>3, <3>3, <3>4, FlushedStep
    <3>6. QED
      BY <3>1, <3>2, <3>5 DEF CurrentMacRules
  <2>4. QED
    BY <2>2, <2>3 DEF CurrentRules, CurrentMacRules
<1>4. CASE ~FwDestroyAtExit
  <2>1. ASSUME NEW r \in DOMAIN rules', Flushed(r[1])'
        PROVE  rules'[r] <= Cardinality(Owners(r))'
    <3>1. Flushed(r[1]) /\ (Running \/ UNCHANGED vars)
      BY <1>4, <2>1, OtherFlushed
    <3>2. AccessStep /\ MacStep
      BY <3>1, RunningStep, UnchangedAccess DEF vars
    <3>3. r \in DOMAIN rules /\ rules[r] \in Nat
      BY <1>1, <1>2, <2>1, <3>2, ChainsStep DEF ChainsOK
    <3>4. rules[r] <= Cardinality(Owners(r))
      BY <3>1, <3>3 DEF CurrentRules
    <3>5. QED
      BY <1>1, <3>2, <3>3, <3>4, StrayStep
  <2>2. ASSUME NEW r \in DOMAIN macrules', Flushed(ListChain(r[1]))'
        PROVE  macrules'[r] <= Listed(r)'
    <3>1. ListChain(r[1])' = ListChain(r[1])
      BY DEF ListChain
    <3>2. Flushed(ListChain(r[1])) /\ (Running \/ UNCHANGED vars)
      BY <1>4, <2>2, <3>1, OtherFlushed
    <3>3. AccessStep /\ MacStep
      BY <3>2, RunningStep, UnchangedAccess DEF vars
    <3>4. r \in DOMAIN macrules /\ macrules[r] \in Nat
      BY <1>1, <1>2, <2>2, <3>3, ChainsStep DEF ChainsOK
    <3>5. PICK k \in MacListName, m \in Mac : r = <<k, m>>
      BY <1>1, <3>4 DEF ChainsOK
    <3>6. macrules[<<k, m>>] <= (IF m \in maclist[k] THEN 1 ELSE 0)
      BY <3>2, <3>4, <3>5 DEF CurrentMacRules, Listed
    <3>7. macrules'[<<k, m>>] <= (IF m \in maclist'[k] THEN 1 ELSE 0)
      BY <1>2, <3>3, <3>4, <3>5, <3>6, MacStepAt
    <3>8. QED
      BY <3>5, <3>7 DEF Listed
  <2>3. QED
    BY <2>1, <2>2 DEF CurrentRules, CurrentMacRules
<1>5. QED
  BY <1>3, <1>4

(* The timeout thread takes access away and never grants it. *)
LEMMA TimerRemoves ==
    ASSUME Timer
    PROVE  \E D : rules' \in {rules, Minus(rules, D)}
<1>1. CASE UNCHANGED authVars
  BY <1>1 DEF authVars
<1>2. CASE TimerCounters \/ TimerCountersFail
  BY <1>2 DEF TimerCounters, TimerCountersFail, iptables_fw_counters_update, Credit
<1>3. CASE TimerStep
  <2>1. ASSUME NEW n, NEW s \in {FW_MARK_BLOCKED, FW_MARK_PREAUTHENTICATED},
               auth_change_state(n, s, now)
        PROVE  \E D : rules' \in {rules, Minus(rules, D)}
    <3>1. ASSUME iptables_fw_deauthenticate(PeerOf(n))
          PROVE  \E D : rules' \in {rules, Minus(rules, D)}
      BY <3>1 DEF iptables_fw_deauthenticate
    <3>2. s # FW_MARK_AUTHENTICATED
      BY <2>1 DEF FW_MARK_BLOCKED, FW_MARK_PREAUTHENTICATED, FW_MARK_AUTHENTICATED
    <3>3. QED
      BY <2>1, <3>1, <3>2
         DEF auth_change_state, Deauthenticate, DeauthenticateAndBlock, authVars
  <2>2. ASSUME NEW n, CheckClient(n)
        PROVE  \E D : rules' \in {rules, Minus(rules, D)}
    BY <2>1, <2>2 DEF CheckClient, authVars
  <2>3. QED
    BY <1>1, <1>3, <2>2 DEF TimerStep
<1>4. QED
  BY <1>1, <1>2, <1>3 DEF Timer, TimerWake, TimerLock, TimerUnlock

LEMMA EmptyStep ==
    ASSUME "destroy" \notin Faults,
           LifeInv, CmdOK, StopsOK, EmptyRules, [LifeNext]_allVars
    PROVE  EmptyRules'
<1> SUFFICES ASSUME Quiet', NEW r \in DOMAIN rules'
             PROVE  (Flushed(r[1])' => rules'[r] = 0) /\ ~DeletedChain(r[1])'
  BY DEF EmptyRules
<1>1. stops \in Nat /\ LifeInv' /\ StopsOK'
  BY LifeNextOK, StopsStep DEF StopsOK
<1>2. main'.term /\ "ndsctl" \notin alive' /\ main'.pc \in {"fw_destroy", "exit"}
      /\ "http" \notin alive' /\ stops' <= 1
  BY <1>1 DEF Quiet, StopsOK
<1>3. main.cmd \in Commands /\ main'.cmd \in Commands
  BY <1>1 DEF LifeInv, LifeCore, MainOK, MainThread
<1>4. ASSUME main'.pc = "fw_destroy", main'.cmd = 0
      PROVE  ~Flushed(r[1])' /\ ~DeletedChain(r[1])'
  BY <1>4 DEF Flushed, DeletedChain
<1>5. CASE FwDestroyAtExit
  <2>1. Quiet /\ main.pc = "fw_destroy" /\ DestroyCommand(main.cmd)
    BY <1>2, <1>5 DEF FwDestroyAtExit, iptables_fw_destroy, Quiet
  <2>2. /\ r \in DOMAIN rules /\ rules'[r] \in {0, rules[r]}
        /\ main.cmd < 4 /\ Chains[main.cmd + 1] = r[1] => rules'[r] = 0
        /\ main.cmd >= 4 /\ ChainEmpty(Chains[main.cmd - 3]) => r[1] # Chains[main.cmd - 3]
    BY <1>3, <2>1, DestroyedRule
  <2>3. (Flushed(r[1]) => rules[r] = 0) /\ ~DeletedChain(r[1])
    BY <2>1, <2>2 DEF EmptyRules
  <2>4. r[1] \in {"OUTGOING", "INCOMING"}
    BY <2>2, ChainOfRule DEF LifeInv, LifeCore, ChainsOK
  <2>5. Flushed(r[1])' => rules'[r] = 0
    BY <1>5, <2>2, <2>3, <2>4, FlushedStep
  <2>6. ASSUME NEW c \in {"OUTGOING", "INCOMING"}, main.cmd >= 4 PROVE ChainEmpty(c)
    <3>1. Flushed(c)
      BY <1>3, <2>1, <2>6 DEF Flushed, Commands
    <3>2. \A q \in DOMAIN rules : q[1] = c => rules[q] = 0
      BY <2>1, <3>1 DEF EmptyRules
    <3>3. \A q \in DOMAIN macrules : ListChain(q[1]) # c
      BY <2>6, ChainOfRule DEF LifeInv, LifeCore, ChainsOK
    <3>4. QED
      BY <3>2, <3>3 DEF ChainEmpty
  <2>7. Chains[3] = "OUTGOING" /\ Chains[4] = "INCOMING"
    BY DEF Chains
  <2>8. ~DeletedChain(r[1])'
    <3>1. CASE main.cmd = 7
      <4>1. r[1] # "INCOMING"
        BY <2>2, <2>6, <2>7, <3>1
      <4>2. r[1] # "OUTGOING"
        BY <2>1, <2>3, <3>1 DEF DeletedChain
      <4>3. QED
        BY <2>4, <4>1, <4>2
    <3>2. CASE main.cmd < 7
      <4>1. main'.pc = "fw_destroy" /\ main'.cmd = main.cmd + 1
        BY <1>5, <2>1, <3>2, DestroyMain DEF FwDestroyAtExit, MainPc
      <4>2. CASE main.cmd = 6
        BY <2>2, <2>6, <2>7, <4>1, <4>2 DEF DeletedChain
      <4>3. CASE main.cmd < 6
        BY <1>3, <4>1, <4>3 DEF DeletedChain, Commands
      <4>4. QED
        BY <1>3, <3>2, <4>2, <4>3 DEF Commands
    <3>3. QED
      BY <1>3, <3>1, <3>2 DEF Commands
  <2>9. QED
    BY <2>5, <2>8
<1>6. CASE RunningTimer \/ Clock
  <2>1. Quiet /\ main' = main
    BY <1>2, <1>6 DEF RunningTimer, Clock, Quiet
  <2>2. PICK D : rules' \in {rules, Minus(rules, D)}
    BY <1>6, TimerRemoves DEF RunningTimer, Clock, Tick, authVars
  <2>3. r \in DOMAIN rules /\ rules[r] \in Nat
    BY <2>2 DEF Minus, LifeInv, LifeCore, ChainsOK
  <2>4. rules[r] = 0 => rules'[r] = 0
    BY <2>2, <2>3 DEF Minus
  <2>5. (Flushed(r[1]) => rules[r] = 0) /\ ~DeletedChain(r[1])
    BY <2>1, <2>3 DEF EmptyRules
  <2>6. QED
    BY <2>1, <2>4, <2>5 DEF Flushed, DeletedChain
<1>7. CASE UNCHANGED allVars
  BY <1>2, <1>7 DEF allVars, vars, authVars, EmptyRules, Quiet, Flushed, DeletedChain
<1>8. ASSUME \/ RunningHttp \/ RunningNdsctl \/ NdsctlStop
             \/ \E s \in Signal, t \in alive : SignalOther(s, t)
      PROVE  FALSE
  <2>1. CASE RunningHttp \/ RunningNdsctl
    BY <1>2, <2>1 DEF RunningHttp, RunningNdsctl
  <2>2. CASE NdsctlStop
    <3>1. SameTerm /\ stops' = stops + 1
      BY <2>2, TermMoves DEF NdsctlStop
    <3>2. QED
      BY <1>1, <1>2, <3>1 DEF StopsOK, SameTerm
  <2>3. CASE \E s \in Signal, t \in alive : SignalOther(s, t)
    <3>1. main.term /\ stops' = stops + 1
      BY <2>3 DEF SignalOther
    <3>2. QED
      BY <1>1, <1>2, <3>1 DEF StopsOK
  <2>4. QED
    BY <1>8, <2>1, <2>2, <2>3
<1>9. CASE FwInitFails \/ DeauthAllDone
  <2>1. main.pc \in {"chains", "deauthing"} /\ SameTerm /\ main'.pc = "fw_destroy"
    BY <1>9, TermMoves, MainMoves DEF FwInitFails, DeauthAllDone, MovesTo
  <2>2. main'.cmd = 0
    BY <2>1 DEF CmdOK, SameTerm
  <2>3. QED
    BY <1>4, <2>1, <2>2
<1>10. ASSUME Exit \/ Crash PROVE FALSE
  BY <1>2, <1>10, ProcessSteps, MainOffOK
<1>11. QED
  BY <1>2, <1>5, <1>6, <1>7, <1>8, <1>9, <1>10, MainMoves
     DEF LifeNext, Starting, Stopping, MovesTo

(* What is left in the firewall at the exit was put there after the flush:   *)
(* rules of hosts that are authenticated and of MACs that are on a list at   *)
(* that moment, although iptables_fw_destroy runs without the lock while the *)
(* webserver appends rules.  After `ndsctl stop' no chain for clients is     *)
(* left.  A -D or a command of iptables_fw_destroy that fails would break it.*)
THEOREM ExitClean ==
    ASSUME "delete" \notin Faults, "destroy" \notin Faults
    PROVE  LifeSpec => []CleanExit
<1>1. LifeInit => ExitInv
  <2> SUFFICES ASSUME LifeInit PROVE ExitInv
    OBVIOUS
  <2>1. main = MainOff /\ main.pc = "off" /\ main.cmd = 0 /\ ~main.term /\ stops = 0
    BY DEF LifeInit, MainOff
  <2>2. QED
    BY <2>1 DEF ExitInv, CmdOK, StopsOK, CurrentRules, CurrentMacRules, EmptyRules, Flushed, Quiet
<1>2. LifeInv /\ ExitInv /\ [LifeNext]_allVars => ExitInv'
  BY CmdStep, StopsStep, CurrentStep, EmptyStep DEF ExitInv
<1>3. LifeInv /\ ExitInv => CleanExit
  <2> SUFFICES ASSUME LifeInv, ExitInv, main.pc = "exit"
               PROVE  /\ NoStaleRules
                      /\ \A r \in DOMAIN macrules : macrules[r] <= Listed(r)
                      /\ stops <= 1 /\ "http" \notin alive => rules = NoChains
    BY DEF CleanExit, Listed
  <2>1. NoStaleRules /\ \A r \in DOMAIN macrules : macrules[r] <= Listed(r)
    BY DEF ExitInv, CurrentRules, CurrentMacRules, Flushed, NoStaleRules
  <2>2. ASSUME stops <= 1, "http" \notin alive PROVE rules = NoChains
    <3>1. \A r \in DOMAIN rules : FALSE
      BY <2>2 DEF ExitInv, EmptyRules, Quiet, DeletedChain
    <3>2. rules \in [DOMAIN rules -> Nat]
      BY DEF LifeInv, LifeCore, ChainsOK
    <3>3. QED
      BY <3>1, <3>2 DEF NoChains
  <2>3. QED
    BY <2>1, <2>2
<1>4. QED
  BY <1>1, <1>2, <1>3, LifeInvariant, PTL DEF LifeSpec

-------------------------------------------------------------------------------
(* Rules that a killed daemon left behind. *)

(* From the making of the new chains on, which fails where an old one is     *)
(* left, unless an import fails.                                             *)
Built == {"import", "importing", "threads", "join", "stop_web"}
RulesOwned == main.pc \in Built /\ ~main.retry => NoStaleRules

(* An import gives a rule one more copy at most, with one more owner. *)
LEMMA ImportOwned ==
    ASSUME LifeInv, ImportClient, NoStaleRules
    PROVE  NoStaleRules'
<1> DEFINE e == FirstEntry(main.todo)
<1>1. e.peer \in Peer
  BY ImportFacts
<1>2. PICK n \in Node \ clients :
        /\ state_file_import_client(e, n)
        /\ Placed(e) \in t_client /\ Placed(e).peer = e.peer
        /\ Placed(e).fw_connection_state = ImportedState(e)
        /\ heap'[n] = Placed(e) /\ \A k \in Node \ {n} : heap'[k] = heap[k]
  BY ImportFacts
<1>3. clients' = clients \cup {n} /\ clients \subseteq Node
  BY <1>2 DEF state_file_import_client, LifeInv, LifeCore, ListCore, ListTypeOK
<1> DEFINE replayed == CanChange(InitialMark(MacOfPeer(e.peer)), e.fw_connection_state)
<1>4. ImportedState(e) = FW_MARK_AUTHENTICATED <=> replayed
  BY DEF ImportedState, InitialMark, CanChange, FW_MARK_AUTHENTICATED,
         FW_MARK_PREAUTHENTICATED, FW_MARK_TRUSTED, FW_MARK_BLOCKED
<1>5. ASSUME NEW r \in DOMAIN rules
      PROVE  DOMAIN rules' = DOMAIN rules /\ rules'[r] <= Cardinality(Owners(r))'
  <2>1. rules[r] <= Cardinality(Owners(r)) /\ rules[r] \in Nat
    BY <1>5 DEF NoStaleRules, LifeInv, LifeCore, ChainsOK
  <2>2. IsFiniteSet(Owners(r)) /\ Cardinality(Owners(r)) \in Nat /\ n \notin Owners(r)
    BY <1>2, OwnersFinite DEF LifeInv, LifeCore, Owners, IsAuthenticated
  <2>3. Owners(r)' = IF replayed /\ r \in ClientRules(e.peer)
                     THEN Owners(r) \cup {n} ELSE Owners(r)
    <3>1. \A k \in Node \ {n} : k \in Owners(r)' <=> k \in Owners(r)
      BY <1>2, <1>3 DEF Owners, IsAuthenticated, StateOf, PeerOf, ClientRules, OutgoingMark,
                        IncomingMark, IncomingAccept, MacOfPeer, IpOfPeer
    <3>2. n \in Owners(r)' <=> replayed /\ r \in ClientRules(e.peer)
      BY <1>2, <1>3, <1>4 DEF Owners, IsAuthenticated, StateOf, PeerOf, ClientRules,
                        OutgoingMark, IncomingMark, IncomingAccept, MacOfPeer, IpOfPeer
    <3>3. Owners(r)' \subseteq Node /\ Owners(r) \subseteq Node
      BY DEF Owners
    <3>4. QED
      BY <1>2, <2>2, <3>1, <3>2, <3>3
  <2>4. CASE ~replayed
    <3>1. UNCHANGED rules
      BY <1>2, <2>4 DEF state_file_import_client
    <3>2. QED
      BY <2>1, <2>3, <2>4, <3>1
  <2>5. CASE replayed
    <3>1. iptables_fw_authenticate(e.peer)
      BY <1>2, <2>5 DEF state_file_import_client
    <3>2. DOMAIN rules' = DOMAIN rules
      BY <3>1 DEF iptables_fw_authenticate, Plus
    <3>3. \/ rules'[r] = rules[r]
          \/ r \in ClientRules(e.peer) /\ rules'[r] = rules[r] + 1
      BY <1>5, <3>1, RulesStep
    <3>4. CASE r \in ClientRules(e.peer)
      <4>1. Cardinality(Owners(r)') = Cardinality(Owners(r)) + 1
        BY <2>2, <2>3, <2>5, <3>4, FS_AddElement
      <4>2. QED
        BY <2>1, <2>2, <3>2, <3>3, <4>1
    <3>5. CASE r \notin ClientRules(e.peer)
      BY <2>1, <2>3, <3>2, <3>3, <3>5
    <3>6. QED
      BY <3>4, <3>5
  <2>6. QED
    BY <2>4, <2>5
<1>6. DOMAIN rules' = DOMAIN rules
  BY <1>2 DEF state_file_import_client, iptables_fw_authenticate, Plus
<1>7. QED
  BY <1>5, <1>6 DEF NoStaleRules

LEMMA RulesOwnedStep ==
    ASSUME "delete" \notin Faults, LifeInv, RulesOwned, [LifeNext]_allVars
    PROVE  RulesOwned'
<1>0. LifeInv'
  BY LifeNextOK
<1>1. CASE Running
  <2>1. AccessStep /\ MacStep /\ main' = main
    BY <1>1, RunningStep
  <2>2. DOMAIN rules' = DOMAIN rules
    BY <2>1, ChainsStep DEF LifeInv, LifeCore
  <2>3. ASSUME NoStaleRules, NEW r \in DOMAIN rules
        PROVE  rules'[r] <= Cardinality(Owners(r))'
    <3>1. rules[r] \in Nat /\ rules[r] <= Cardinality(Owners(r))
      BY <2>3 DEF NoStaleRules, LifeInv, LifeCore, ChainsOK
    <3>2. QED
      BY <1>0, <2>1, <2>3, <3>1, StrayStep DEF LifeInv, LifeCore
  <2>4. NoStaleRules => NoStaleRules'
    BY <2>2, <2>3 DEF NoStaleRules
  <2>5. QED
    BY <2>1, <2>4 DEF RulesOwned
<1>2. CASE FwDestroyAtStart \/ FwInitFails
  BY <1>2, MainMoves DEF MovesTo, RulesOwned, Built
<1>3. CASE FwInit
  <2>1. ASSUME NEW r \in Rule PROVE 0 <= Cardinality(Owners(r)')
    <3>1. Owners(r)' \in SUBSET clients'
      BY DEF Owners, IsAuthenticated
    <3>2. QED
      BY <1>0, <3>1, FS_Subset, FS_CardinalityType DEF LifeInv, LifeCore, ListCore
  <2>2. NoStaleRules'
    <3>1. DOMAIN rules = {} /\ DOMAIN rules' \subseteq Rule
      BY <1>0, <1>3 DEF FwInit, NoChains, LifeInv, LifeCore, ChainsOK
    <3>2. \A r \in DOMAIN rules' : rules'[r] = 0
      BY <1>3, <3>1 DEF FwInit, iptables_fw_init
    <3>3. QED
      BY <2>1, <3>1, <3>2 DEF NoStaleRules
  <2>3. QED
    BY <1>3, <2>2, MainMoves DEF MovesTo, RulesOwned
<1>4. CASE ImportClient
  <2>1. main.pc = "importing"
    BY <1>4 DEF ImportClient
  <2>2. QED
    BY <1>4, <2>1, MainMoves, ImportOwned DEF MovesTo, RulesOwned, Built
<1>5. CASE FlushEntries \/ FlushList \/ FlushCount \/ FlushId \/ FlushMeetsAppend
  <2>1. main.retry
    BY <1>5 DEF LifeInv, RetryOK, Flushing, FlushEntries, FlushList, FlushCount, FlushId,
                FlushMeetsAppend
  <2>2. QED
    BY <1>5, <2>1, MainMoves DEF MovesTo, RulesOwned
(* The others do not touch the firewall, or leave the chains to a life that  *)
(* destroys them first.                                                      *)
<1>6. ASSUME UNCHANGED vars PROVE NoStaleRules' = NoStaleRules
  <2>1. UNCHANGED <<rules, heap, clients>>
    BY <1>6 DEF vars, authVars, listVars
  <2>2. QED
    BY <2>1 DEF NoStaleRules, Owners, IsAuthenticated, StateOf, PeerOf, ClientRules,
                OutgoingMark, IncomingMark, IncomingAccept, MacOfPeer, IpOfPeer
<1>7. CASE \/ Start \/ FwInitMarks \/ ImportBegin \/ ImportFails \/ ImportEnd
           \/ StartThreads \/ NdsctlStop \/ StopWeb \/ DeauthAll \/ DeauthAllDone
           \/ \E s \in Signal : SignalMain(s)
  <2>1. NoStaleRules' = NoStaleRules
    BY <1>6, <1>7, QuietSteps
  <2>2. /\ ImportBegin => main.pc = "import" 
        /\ ImportEnd => main.pc = "importing"
        /\ StartThreads => main.pc = "threads"
    BY DEF ImportBegin, ImportEnd, StartThreads
  <2>3. QED
    BY <1>7, <2>1, <2>2, MainMoves DEF MovesTo, RulesOwned, Built
<1>8. CASE \/ UNCHANGED allVars
           \/ \E s \in Signal, t \in alive : SignalOther(s, t)
  <2>1. UNCHANGED vars /\ main' = main
    BY <1>8 DEF allVars, SignalOther
  <2>2. QED
    BY <1>6, <2>1 DEF RulesOwned
<1>9. CASE Export \/ ExportWrite \/ DeauthClient \/ FwDestroyAtExit
  BY <1>9, MainMoves DEF MovesTo, RulesOwned, Built
<1>10. CASE Exit \/ Crash
  BY <1>10, ProcessSteps, MainOffOK DEF RulesOwned, Built
<1>11. QED
  BY <1>1, <1>2, <1>3, <1>4, <1>5, <1>7, <1>8, <1>9, <1>10
     DEF LifeNext, Starting, Stopping, Running

(* Whatever rules a killed daemon left, and whatever hosts request during    *)
(* the start, once the next daemon waits for its threads every rule belongs  *)
(* to an authenticated entry of its list, unless its import failed: then the *)
(* list is flushed after the chains were made (main_loop).                   *)
THEOREM CrashRulesGone ==
    ASSUME "delete" \notin Faults
    PROVE  LifeSpec => []NoRuleSurvivesCrash
<1>1. LifeInit => RulesOwned
  BY MainOffOK DEF LifeInit, RulesOwned, Built
<1>2. LifeInv /\ RulesOwned /\ [LifeNext]_allVars => RulesOwned'
  BY RulesOwnedStep
<1>3. RulesOwned => NoRuleSurvivesCrash
  BY DEF RulesOwned, NoRuleSurvivesCrash, Built
<1>4. QED
  BY <1>1, <1>2, <1>3, LifeInvariant, PTL DEF LifeSpec

-------------------------------------------------------------------------------
(* What an import brings back. *)

NoMacs == [l \in MacListName |-> {}]

(* Before the other threads are started the webserver is alone: nothing      *)
(* lists a MAC or deletes an entry, and the pointer of a request is to an    *)
(* entry of the list.                                                        *)
Young == {"destroy", "init", "chains", "import", "importing"}
PointerListed == http.pc \notin {"idle", "add"} => http.node \in clients
WebserverAlone ==
    /\ main.pc = "off" => alive = {} /\ maclist = NoMacs /\ http = IdleHttp
    /\ main.pc \in Young => alive \subseteq {"http"} /\ maclist = NoMacs /\ PointerListed
    /\ main.pc \in {"import", "importing"} => DOMAIN rules = Rule

(* An entry is back at address n, and the session of no request is about to  *)
(* be written there.                                                         *)
Back(e, n) ==
    /\ PeerOf(n) = e.peer /\ heap[n].id = e.id
    /\ heap[n].session_end = e.session_end
    /\ StateOf(n) = FW_MARK_AUTHENTICATED
    /\ \A r \in ClientRules(e.peer) : InChain(r)
    /\ http.pc = "session" => http.node # n

(* While the file is read, what was read of it is back. *)
Recovering ==
    main.pc = "importing" =>
       /\ main.locked /\ saved # Null
       /\ \A e \in saved.clients \ main.todo :
             e.fw_connection_state = FW_MARK_AUTHENTICATED =>
                \E n \in clients : Back(e, n)

(* A request alone lists no MAC and deletes no entry. *)
LEMMA HttpAlone ==
    ASSUME ListCore, ThreadsTypeOK, HttpOK, PointerListed, Http
    PROVE  UNCHANGED maclist /\ PointerListed'
<1>1. ListTypeOK /\ clients \subseteq Node /\ http \in HttpThread
  BY DEF ListCore, ListTypeOK, ThreadsTypeOK
<1>2. ASSUME NEW id, NEW state \in {FW_MARK_AUTHENTICATED, FW_MARK_PREAUTHENTICATED},
             AuthById(id, state, now)
      PROVE  UNCHANGED maclist /\ UNCHANGED clients
  <2>1. ASSUME NEW n, Authenticate(n) \/ Deauthenticate(n, now)
        PROVE  UNCHANGED maclist /\ UNCHANGED clients
    BY <2>1 DEF Authenticate, Deauthenticate, SetEntry, macVars
  <2>2. CASE UNCHANGED authVars
    BY <2>2 DEF authVars, listVars, macVars
  <2>3. QED
    BY <1>2, <2>1, <2>2 DEF AuthById, auth_change_state, FW_MARK_AUTHENTICATED,
                            FW_MARK_PREAUTHENTICATED, FW_MARK_BLOCKED
<1>3. CASE HttpAdd
  <2>1. PICK n \in Node :
          /\ client_list_add_client(n, http.peer, InitialMark(http.peer[1]), now)
          /\ http' = IF AddedClient(n, http.peer) = Null THEN IdleHttp
                     ELSE [http EXCEPT !.pc = "dispatch", !.node = AddedClient(n, http.peer)]
    BY <1>3 DEF HttpAdd
  <2>2. AddedClient(n, http.peer) # Null => AddedClient(n, http.peer) \in clients'
    <3>1. CASE client_list_find(http.peer) # Null
      BY <1>1, <2>1, <3>1, FindPeer DEF AddedClient, client_list_add_client, listVars
    <3>2. CASE client_list_find(http.peer) = Null
      BY <2>1, <3>2 DEF AddedClient, client_list_add_client, client_list_append
    <3>3. QED
      BY <3>1, <3>2
  <2>3. CASE http' = IdleHttp
    BY <1>3, <2>3 DEF HttpAdd, macVars, IdleHttp, PointerListed
  <2>4. CASE /\ AddedClient(n, http.peer) # Null
             /\ http' = [http EXCEPT !.pc = "dispatch", !.node = AddedClient(n, http.peer)]
    <3>1. PICK a : a = AddedClient(n, http.peer)
      OBVIOUS
    <3>2. http' = [http EXCEPT !.pc = "dispatch", !.node = a] /\ a \in clients'
      BY <2>2, <2>4, <3>1
    <3>3. http'.node = a
      BY <1>1, <3>2 DEF HttpThread
    <3>4. QED
      BY <1>3, <3>2, <3>3 DEF HttpAdd, macVars, PointerListed
  <2>5. QED
    BY <2>1, <2>3, <2>4
<1>4. CASE HttpAuth \/ HttpDeauth
  <2>1. UNCHANGED maclist /\ UNCHANGED clients
    BY <1>2, <1>4 DEF HttpAuth, HttpDeauth
  <2>2. http' = IdleHttp \/ (http.pc = "auth" /\ http' = [http EXCEPT !.pc = "session"])
    BY <1>4, Zenon DEF HttpAuth, HttpDeauth
  <2>3. http'.pc = "idle" \/ (http.pc = "auth" /\ http'.node = http.node)
    <3>1. CASE http' = IdleHttp
      BY <3>1 DEF IdleHttp
    <3>2. CASE http.pc = "auth" /\ http' = [http EXCEPT !.pc = "session"]
      BY <1>1, <3>2 DEF HttpThread
    <3>3. QED
      BY <2>2, <3>1, <3>2
  <2>4. QED
    BY <2>1, <2>3 DEF PointerListed
<1>5. CASE HttpSession \/ HttpServePage
  BY <1>5 DEF HttpSession, HttpServePage, authVars, macVars, IdleHttp, PointerListed
<1>6. ASSUME NEW peer \in Peer, HttpRequest(peer) PROVE UNCHANGED maclist /\ PointerListed'
  <2>1. PICK n \in {client_list_find(peer), Null} :
          http' = [IdleHttp EXCEPT !.pc = IF n = Null THEN "add" ELSE "dispatch",
                                   !.peer = peer, !.node = n]
    BY <1>6 DEF HttpRequest
  <2>2. n # Null => n \in clients
    BY <1>1, <2>1, FindPeer
  <2>3. http'.pc # "add" => http'.node \in clients
    BY <2>1, <2>2 DEF IdleHttp
  <2>4. QED
    BY <1>6, <2>3 DEF HttpRequest, authVars, listVars, macVars, PointerListed
<1>7. CASE HttpAuthdir \/ HttpBinauth \/ HttpDenydir
  <2>1. http.pc \notin {"idle", "add"} /\ UNCHANGED maclist /\ UNCHANGED clients
    BY <1>7 DEF HttpAuthdir, HttpBinauth, HttpDenydir, authVars, listVars, macVars
  <2>2. http' = IdleHttp \/ http'.node = http.node
    <3>1. CASE HttpAuthdir
      BY <1>1, <3>1 DEF HttpAuthdir, HttpThread
    <3>2. CASE HttpBinauth
      BY <1>1, <3>2 DEF HttpBinauth, HttpThread
    <3>3. CASE HttpDenydir
      BY <1>1, <3>3 DEF HttpDenydir, HttpThread
    <3>4. QED
      BY <1>7, <3>1, <3>2, <3>3
  <2>3. QED
    BY <2>1, <2>2 DEF IdleHttp, PointerListed
<1>8. QED
  BY <1>3, <1>4, <1>5, <1>6, <1>7 DEF Http

LEMMA AloneStep ==
    ASSUME LifeInv, WebserverAlone, [LifeNext]_allVars
    PROVE  WebserverAlone'
<1>1. CASE Running
  <2>1. AccessStep /\ MacStep /\ UNCHANGED <<main, alive>>
    BY <1>1, RunningStep
  <2>2. DOMAIN rules' = DOMAIN rules
    BY <2>1, ChainsStep DEF LifeInv, LifeCore
  <2>3. CASE main.pc \in Young \cup {"off"}
    <3>1. alive \subseteq {"http"} /\ maclist = NoMacs /\ PointerListed
      BY <2>3 DEF WebserverAlone, IdleHttp, PointerListed
    <3>2. CASE RunningHttp
      <4>1. main.pc \in Young /\ Http
        BY <2>3, <3>2 DEF WebserverAlone, RunningHttp, HttpRequestMisses, Young
      <4>2. UNCHANGED maclist /\ PointerListed'
        BY <3>1, <4>1, HttpAlone DEF LifeInv, LifeCore
      <4>3. main.pc # "off"
        BY <4>1 DEF Young
      <4>4. QED
        BY <2>1, <2>2, <3>1, <4>1, <4>2, <4>3 DEF WebserverAlone
    <3>3. CASE Clock
      BY <2>1, <3>3 DEF Clock, Tick, authVars, listVars, macVars, WebserverAlone, PointerListed
    <3>4. QED
      BY <1>1, <3>1, <3>2, <3>3 DEF Running, RunningNdsctl, RunningTimer
  <2>4. CASE main.pc \notin Young \cup {"off"}
    BY <2>1, <2>4 DEF WebserverAlone, Young
  <2>5. QED
    BY <2>3, <2>4
<1>2. ASSUME UNCHANGED <<maclist, http, clients, alive>>, main.pc \in Young,
             main'.pc \in Young, main'.pc \in {"import", "importing"} => DOMAIN rules' = Rule
      PROVE  WebserverAlone'
  BY <1>2 DEF WebserverAlone, PointerListed, Young
<1>3. ASSUME UNCHANGED vars PROVE UNCHANGED <<maclist, http, clients, rules>>
  BY <1>3 DEF vars, authVars, listVars, macVars
<1>4. CASE Start
  <2>1. main.pc = "off" /\ main'.pc = "destroy" /\ alive' = {"http"} /\ UNCHANGED vars
    BY <1>4, MainMoves DEF Start
  <2>2. QED
    BY <1>3, <2>1 DEF WebserverAlone, IdleHttp, PointerListed, Young
<1>5. CASE FwDestroyAtStart
  <2>1. main.pc = "destroy" /\ main'.pc \in {"destroy", "init"} /\ UNCHANGED <<maclist, http, clients, alive>>
    BY <1>5, MainMoves DEF FwDestroyAtStart, iptables_fw_destroy, listVars, threadVars, MovesTo
  <2>2. QED
    BY <1>2, <2>1 DEF Young
<1>6. CASE FwInitMarks
  <2>1. main.pc = "init" /\ main'.pc = "chains" /\ UNCHANGED <<maclist, http, clients, alive>>
    BY <1>3, <1>6, MainMoves DEF FwInitMarks, MovesTo
  <2>2. QED
    BY <1>2, <2>1 DEF Young
<1>7. CASE FwInit
  <2>1. /\ main.pc = "chains" /\ UNCHANGED <<maclist, http, clients, alive>>
        /\ main'.pc \in {"flush", "import"} /\ rules = NoChains
        /\ iptables_fw_init({"TRUSTED", "BLOCKED", "OUTGOING", "INCOMING"})
    BY <1>7, MainMoves DEF FwInit, iptables_fw_init, listVars, threadVars, MovesTo
  <2>2. DOMAIN rules' = Rule
    BY <2>1, ChainOfRule DEF iptables_fw_init, NoChains
  <2>3. CASE main'.pc = "import"
    BY <1>2, <2>1, <2>2, <2>3 DEF Young
  <2>4. CASE main'.pc = "flush"
    BY <2>4 DEF WebserverAlone, Young
  <2>5. QED
    BY <2>1, <2>3, <2>4
<1>8. CASE ImportBegin
  <2>1. main.pc = "import" /\ UNCHANGED <<maclist, http, clients, rules, alive>>
    BY <1>3, <1>8 DEF ImportBegin
  <2>2. main'.pc \in {"threads", "importing", "destroy"}
    BY <1>8, MainMoves DEF MovesTo
  <2>3. CASE main'.pc = "threads"
    BY <2>3 DEF WebserverAlone, Young
  <2>4. CASE main'.pc \in {"importing", "destroy"}
    BY <1>2, <2>1, <2>4 DEF WebserverAlone, Young
  <2>5. QED
    BY <2>2, <2>3, <2>4
<1>9. CASE ImportClient
  <2>1. main.pc = "importing" /\ main'.pc = "importing"
    BY <1>9, MainMoves DEF ImportClient, MovesTo
  <2>2. UNCHANGED <<maclist, http, alive>> /\ clients \subseteq clients'
        /\ DOMAIN rules' = DOMAIN rules
    BY <1>9 DEF ImportClient, state_file_import_client, iptables_fw_authenticate, Plus,
                macVars, threadVars
  <2>3. QED
    BY <2>1, <2>2 DEF WebserverAlone, PointerListed, Young
<1>10. CASE ImportFails
  <2>1. main.pc = "importing" /\ main'.pc = "destroy"
        /\ UNCHANGED <<maclist, http, clients, alive>>
    BY <1>3, <1>10, MainMoves DEF ImportFails
  <2>2. QED
    BY <1>2, <2>1 DEF Young
<1>11. CASE Exit \/ Crash
  <2>1. main'.pc = "off" /\ ProcessEnds
    BY <1>11, ProcessSteps, MainOffOK
  <2>2. QED
    BY <2>1 DEF ProcessEnds, WebserverAlone, NoMacs, Young
<1>12. CASE \/ FwInitFails \/ FlushEntries \/ FlushList \/ FlushCount \/ FlushId
            \/ FlushMeetsAppend \/ ImportEnd \/ StartThreads \/ StopWeb \/ Export \/ ExportWrite
            \/ DeauthAll \/ DeauthClient \/ DeauthAllDone \/ FwDestroyAtExit
            \/ \E s \in Signal : SignalMain(s)
  <2>1. main'.pc \notin Young \cup {"off"}
    BY <1>12, MainMoves DEF MovesTo, Young
  <2>2. QED
    BY <2>1 DEF WebserverAlone, Young
<1>13. CASE NdsctlStop
  <2>1. "ndsctl" \in alive
    BY <1>13 DEF NdsctlStop
  <2>2. main.pc \notin Young \cup {"off"}
    BY <2>1 DEF WebserverAlone
  <2>3. main'.pc \notin Young \cup {"off"}
    BY <1>13, <2>2, MainMoves DEF MovesTo, Young
  <2>4. QED
    BY <2>3 DEF WebserverAlone, Young
<1>14. CASE \/ UNCHANGED allVars
            \/ \E s \in Signal, t \in alive : SignalOther(s, t)
  <2>1. UNCHANGED <<maclist, http, clients, rules, main>> /\ alive' \subseteq alive
    BY <1>3, <1>14 DEF allVars, SignalOther
  <2>2. QED
    BY <2>1 DEF WebserverAlone, PointerListed
<1>15. QED
  BY <1>1, <1>4, <1>5, <1>6, <1>7, <1>8, <1>9, <1>10, <1>11, <1>12, <1>13, <1>14
     DEF LifeNext, Starting, Stopping, Running

(* The entry just read is back: no MAC is listed, so its authentication is   *)
(* replayed, and no -A fails.                                                *)
LEMMA ImportedIsBack ==
    ASSUME "append" \notin Faults, LifeInv, WebserverAlone, ImportClient,
           NEW e, e = FirstEntry(main.todo)
    PROVE  /\ e.fw_connection_state = FW_MARK_AUTHENTICATED =>
                 \E n \in clients' : Back(e, n)'
           /\ \A d \in t_client, k \in clients :
                 d.peer \in Peer /\ Back(d, k) => Back(d, k)' /\ k \in clients'
<1>1. /\ main.pc = "importing" /\ maclist = NoMacs /\ PointerListed /\ DOMAIN rules = Rule
      /\ UNCHANGED http
  BY DEF ImportClient, WebserverAlone, Young, threadVars
<1>2. /\ rules \in [Rule -> Nat] /\ clients \subseteq Node
  BY <1>1 DEF LifeInv, LifeCore, ChainsOK, ListCore, ListTypeOK
<1>3. e.peer \in Peer
  BY ImportFacts
<1>4. PICK n \in Node \ clients :
        /\ state_file_import_client(e, n)
        /\ Placed(e) \in t_client /\ Placed(e).peer = e.peer
        /\ Placed(e).id = e.id /\ Placed(e).session_end = e.session_end
        /\ Placed(e).fw_connection_state = ImportedState(e)
        /\ heap'[n] = Placed(e) /\ \A k \in Node \ {n} : heap'[k] = heap[k]
  BY ImportFacts
<1>5. clients' = clients \cup {n}
  BY <1>4 DEF state_file_import_client
<1>6. InitialMark(MacOfPeer(e.peer)) = FW_MARK_PREAUTHENTICATED
  BY <1>1 DEF NoMacs, InitialMark, is_blocked_mac, is_allowed_mac, is_trusted_mac, MacListName
<1>7. ASSUME NEW r \in Rule
      PROVE  /\ InChain(r) => InChain(r)'
             /\ (e.fw_connection_state = FW_MARK_AUTHENTICATED /\ r \in ClientRules(e.peer))
                   => InChain(r)'
  <2>1. CASE e.fw_connection_state = FW_MARK_AUTHENTICATED
    <3>1. iptables_fw_authenticate(e.peer)
      BY <1>4, <1>6, <2>1 DEF state_file_import_client, CanChange
    <3>2. rules' = Plus(rules, ClientRules(e.peer))
      BY <3>1 DEF iptables_fw_authenticate, Appended
    <3>3. /\ r \in DOMAIN rules' /\ r \in DOMAIN rules /\ rules[r] \in Nat
          /\ rules'[r] = IF r \in ClientRules(e.peer) THEN rules[r] + 1 ELSE rules[r]
      BY <1>2, <1>7, <3>2 DEF Plus
    <3>4. QED
      BY <3>3 DEF InChain
  <2>2. CASE e.fw_connection_state # FW_MARK_AUTHENTICATED
    <3>1. UNCHANGED rules
      BY <1>4, <1>6, <2>2 DEF state_file_import_client, CanChange, FW_MARK_PREAUTHENTICATED,
                              FW_MARK_AUTHENTICATED
    <3>2. QED
      BY <2>2, <3>1 DEF InChain
  <2>3. QED
    BY <2>1, <2>2
<1>8. ASSUME NEW p \in Peer PROVE ClientRules(p) \subseteq Rule
  <2>1. p[1] \in Mac /\ p[2] \in Ip
    BY DEF Peer
  <2>2. QED
    BY <2>1 DEF ClientRules, Rule, MacOfPeer, IpOfPeer
<1>9. ASSUME e.fw_connection_state = FW_MARK_AUTHENTICATED
      PROVE  Back(e, n)' /\ n \in clients'
  <2>1. ImportedState(e) = FW_MARK_AUTHENTICATED
    BY <1>6, <1>9 DEF ImportedState, CanChange
  <2>2. \A r \in ClientRules(e.peer) : InChain(r)'
    BY <1>3, <1>7, <1>8, <1>9
  <2>3. http'.pc = "session" => http'.node # n
    BY <1>1, <1>4 DEF PointerListed
  <2>4. QED
    BY <1>4, <1>5, <2>1, <2>2, <2>3 DEF Back, PeerOf, StateOf, InChain
<1>10. ASSUME NEW d \in t_client, NEW k \in clients, d.peer \in Peer, Back(d, k)
       PROVE  Back(d, k)' /\ k \in clients'
  <2>1. heap'[k] = heap[k] /\ k \in clients'
    BY <1>2, <1>4, <1>5
  <2>2. \A r \in ClientRules(d.peer) : InChain(r)'
    BY <1>7, <1>8, <1>10 DEF Back
  <2>3. QED
    BY <1>1, <1>10, <2>1, <2>2 DEF Back, PeerOf, StateOf, InChain
<1>11. QED
  BY <1>9, <1>10

LEMMA RecoveringStep ==
    ASSUME "append" \notin Faults, LifeInv, WebserverAlone, Recovering, [LifeNext]_allVars
    PROVE  Recovering'
<1> SUFFICES ASSUME main'.pc = "importing"
             PROVE  /\ main'.locked /\ saved' # Null
                    /\ \A e \in saved'.clients \ main'.todo :
                          e.fw_connection_state = FW_MARK_AUTHENTICATED =>
                             \E n \in clients' : Back(e, n)'
  BY DEF Recovering
<1>1. CASE ImportBegin
  <2>1. /\ saved' = saved /\ saved # Null
        /\ main' = [main EXCEPT !.pc = "importing", !.locked = TRUE, !.todo = saved.clients]
    BY <1>1 DEF ImportBegin, LifeInv, LifeCore, MainOK, MainThread
  <2>2. main'.locked /\ main'.todo = saved.clients
    BY <2>1 DEF LifeInv, LifeCore, MainOK, MainThread
  <2>3. QED
    BY <2>1, <2>2
<1>2. CASE ImportClient
  <2>0. PICK e : e = FirstEntry(main.todo)
    OBVIOUS
  <2>1. main.pc = "importing" /\ saved' = saved
    BY <1>2 DEF ImportClient
  <2>2. main' = [main EXCEPT !.todo = @ \ {e}]
    BY <1>2, <2>0, ImportFacts
  <2>3. main'.locked = main.locked /\ main'.todo = main.todo \ {e}
    BY <2>2 DEF LifeInv, LifeCore, MainOK, MainThread
  <2>4. ASSUME NEW d \in saved.clients \ main.todo,
               d.fw_connection_state = FW_MARK_AUTHENTICATED
        PROVE  \E n \in clients' : Back(d, n)'
    <3>1. PICK k \in clients : Back(d, k)
      BY <2>1, <2>4 DEF Recovering
    <3>2. d \in t_client /\ d.peer \in Peer
      BY <2>1, <2>4 DEF Recovering, LifeInv, LifeCore, SavedOK, StateFile, OfHosts
    <3>3. QED
      BY <1>2, <2>0, <3>1, <3>2, ImportedIsBack
  <2>5. e.fw_connection_state = FW_MARK_AUTHENTICATED => \E n \in clients' : Back(e, n)'
    BY <1>2, <2>0, ImportedIsBack
  <2>6. QED
    BY <2>1, <2>3, <2>4, <2>5 DEF Recovering
(* The other steps in this state change no entry that is back. *)
<1>3. ASSUME main' = main, UNCHANGED saved, clients' = clients,
             \A e \in saved.clients, n \in clients : Back(e, n) => Back(e, n)'
      PROVE  /\ main'.locked /\ saved' # Null
             /\ \A e \in saved'.clients \ main'.todo :
                   e.fw_connection_state = FW_MARK_AUTHENTICATED =>
                      \E n \in clients' : Back(e, n)'
  BY <1>3 DEF Recovering
<1>4. ASSUME UNCHANGED <<heap, rules>>, http'.pc = "session" => http.pc = "session" /\ http' = http,
             NEW e, NEW n, Back(e, n)
      PROVE  Back(e, n)'
  BY <1>4 DEF Back, PeerOf, StateOf, InChain
<1>5. CASE RunningHttp
  <2>1. main' = main /\ saved' = saved /\ main.pc = "importing" /\ main.locked
    BY <1>5 DEF RunningHttp, Recovering
  <2>2. Http /\ http.pc \notin {"add", "auth", "deauth"} /\ http \in HttpThread
    BY <1>5, <2>1 DEF RunningHttp, HttpRequestMisses, LifeInv, LifeCore, ThreadsTypeOK
  <2>3. CASE HttpSession
    <3>1. /\ heap' = [heap EXCEPT ![http.node] = heap'[http.node]]
          /\ http' = IdleHttp /\ http.pc = "session" /\ UNCHANGED <<clients, rules>>
      BY <2>3 DEF HttpSession, SetEntry, LifeInv, LifeCore, ListCore, ListTypeOK, HttpOK
    <3>2. ASSUME NEW e \in saved.clients, NEW n \in clients, Back(e, n) PROVE Back(e, n)'
      <4>1. n # http.node /\ n \in Node
        BY <3>1, <3>2 DEF Back, LifeInv, LifeCore, ListCore, ListTypeOK
      <4>2. heap'[n] = heap[n]
        BY <3>1, <4>1 DEF LifeInv, LifeCore, ListCore, ListTypeOK
      <4>3. http'.pc # "session"
        BY <3>1 DEF IdleHttp
      <4>4. QED
        BY <3>1, <3>2, <4>2, <4>3 DEF Back, PeerOf, StateOf, InChain
    <3>3. QED
      BY <1>3, <2>1, <3>1, <3>2
  <2>4. CASE ~HttpSession
    <3>1. UNCHANGED authVars /\ http'.pc # "session"
      <4>1. ASSUME NEW peer \in Peer, HttpRequest(peer) PROVE http'.pc # "session"
        BY <4>1 DEF HttpRequest, IdleHttp
      <4>2. CASE HttpServePage
        BY <4>2 DEF HttpServePage, IdleHttp
      <4>3. CASE HttpAuthdir
        BY <2>2, <4>3 DEF HttpAuthdir, HttpThread
      <4>4. ASSUME HttpBinauth PROVE http'.pc # "session"
        <5>1. CASE http' = IdleHttp
          BY <5>1 DEF IdleHttp
        <5>2. CASE \E id, seconds :
                     http' = [http EXCEPT !.pc = "auth", !.id = id, !.seconds = seconds]
          BY <2>2, <5>2 DEF HttpThread
        <5>3. QED
          BY <4>4, <5>1, <5>2 DEF HttpBinauth
      <4>5. CASE HttpDenydir
        BY <2>2, <4>5 DEF HttpDenydir, HttpThread
      <4>6. QED
        BY <2>2, <2>4, <4>1, <4>2, <4>3, <4>4, <4>5
           DEF Http, HttpRequest, HttpServePage, HttpAuthdir, HttpBinauth, HttpDenydir,
               HttpAdd, HttpAuth, HttpDeauth
    <3>2. UNCHANGED <<heap, rules, clients>>
      BY <3>1 DEF authVars, listVars
    <3>3. QED
      BY <1>3, <1>4, <2>1, <3>1, <3>2
  <2>5. QED
    BY <2>3, <2>4
<1>6. CASE \/ UNCHANGED allVars \/ Clock \/ NdsctlStop
           \/ \E s \in Signal, t \in alive : SignalOther(s, t)
  <2>1. UNCHANGED <<heap, rules, clients, http, saved>>
    BY <1>6 DEF allVars, Clock, Tick, NdsctlStop, SignalOther, vars, authVars, listVars
  <2>2. main' = main
    <3>1. CASE NdsctlStop
      <4>1. "ndsctl" \in alive
        BY <3>1 DEF NdsctlStop
      <4>2. main'.pc = IF main.pc = "join" THEN "stop_web" ELSE main.pc
        BY <3>1, MainMoves DEF MovesTo
      <4>3. QED
        BY <4>1, <4>2 DEF WebserverAlone, Young
    <3>2. QED
      BY <1>6, <3>1 DEF allVars, Clock, SignalOther
  <2>3. QED
    BY <1>3, <1>4, <2>1, <2>2
<1>7. ASSUME RunningNdsctl \/ RunningTimer PROVE FALSE
  <2>1. main.pc = "importing" /\ alive \cap {"ndsctl", "timer"} # {}
    BY <1>7 DEF RunningNdsctl, RunningTimer
  <2>2. QED
    BY <2>1 DEF WebserverAlone, Young
<1>8. ASSUME Exit \/ Crash PROVE FALSE
  BY <1>8, ProcessSteps, MainOffOK
<1>9. QED
  BY <1>1, <1>2, <1>5, <1>6, <1>7, <1>8, MainMoves
     DEF LifeNext, Starting, Stopping, MovesTo

(* A host that was authenticated when the state was exported is so again     *)
(* after a successful state_file_import, with its id, the end of its session *)
(* and its rules, whatever the webserver does meanwhile, which runs without  *)
(* the list lock that the import holds.                                      *)
THEOREM SessionsRestored ==
    ASSUME "append" \notin Faults
    PROVE  LifeSpec => ImportRestoresSessions
<1>1. LifeInit => WebserverAlone /\ Recovering
  BY MainOffOK DEF LifeInit, WebserverAlone, Recovering, Young, NoMacs
<1>2. LifeInv /\ WebserverAlone /\ Recovering /\ [LifeNext]_allVars
        => WebserverAlone' /\ Recovering'
  BY AloneStep, RecoveringStep
<1>3. LifeInv /\ Recovering /\ [LifeNext]_allVars =>
        [main.pc = "importing" /\ main'.pc = "threads" =>
           \A e \in saved.clients :
              e.fw_connection_state = FW_MARK_AUTHENTICATED => Restored(e)]_allVars
  <2> SUFFICES ASSUME LifeInv, Recovering, [LifeNext]_allVars, main.pc = "importing",
                      main'.pc = "threads", NEW e \in saved.clients,
                      e.fw_connection_state = FW_MARK_AUTHENTICATED
               PROVE  Restored(e)
    OBVIOUS
  <2>1. ImportEnd
    <3>1. ~UNCHANGED main
      OBVIOUS
    <3>2. ~Running
      BY <3>1, RunningStep
    <3>3. ~(Exit \/ Crash)
      BY ProcessSteps, MainOffOK
    <3>4. ~ImportBegin /\ ~FlushEntries /\ ~FlushId /\ ~FlushMeetsAppend
      BY DEF ImportBegin, FlushEntries, FlushId, FlushMeetsAppend
    <3>5. QED
      BY <3>1, <3>2, <3>3, <3>4, MainMoves
         DEF LifeNext, Starting, Stopping, Running, MovesTo, allVars, SignalOther
  <2>2. main.todo = {}
    BY <2>1 DEF ImportEnd
  <2>3. QED
    BY <2>2 DEF Recovering, Back, Restored
<1>4. QED
  BY <1>1, <1>2, <1>3, LifeInvariant, PTL DEF LifeSpec, ImportRestoresSessions
===============================================================================
