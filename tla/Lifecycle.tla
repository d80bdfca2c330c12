------------------------------ MODULE Lifecycle -------------------------------
(***************************************************************************)
(* The daemon from start to exit (main.c): the main thread starts the      *)
(* webserver, builds the firewall, imports the state file, starts the      *)
(* other threads and waits; a signal or `ndsctl stop' makes it export the  *)
(* state, tear the firewall down and exit.  The process may also be killed *)
(* at any point; the firewall and the state file survive it.               *)
(*                                                                         *)
(* The kernel gives a termination signal to the main thread, unless it     *)
(* blocks the signal (it is in its handler) or is gone; then any other     *)
(* thread gets it.                                                         *)
(***************************************************************************)
EXTENDS Portal, StateFile

CONSTANTS
    Signal,      \* those handled by termination_handler: SIGTERM, SIGQUIT, SIGINT
    MaxStarts,   \* bound of the model: times the daemon is started
    MaxStops     \* bound of the model: stop commands, signals and failed starts

ASSUME BoundsAssumption == MaxStarts \in Nat /\ MaxStops \in Nat

VARIABLES
    main,     \* the main thread
    alive,    \* the other threads that run
    starts,   \* starts so far
    stops     \* stop commands, signals and failed starts so far

allVars == <<vars, saved, main, alive, starts, stops>>

MainPc == {"off", "destroy", "init", "chains", "import", "importing",
           "flush", "flush_list", "flush_count", "flush_id", "threads", "join",
           "stop_web", "export", "write", "deauth_all", "deauthing", "fw_destroy",
           "exit", "gone"}

(* The chains of the mangle table with rules of clients or of listed MACs,   *)
(* in the order in which iptables_fw_destroy takes them.                     *)
Chains == <<"TRUSTED", "BLOCKED", "OUTGOING", "INCOMING">>

(* Commands of iptables_fw_destroy run so far. *)
Commands == 0..7

(* marks: FW_MARK_BLOCKED, FW_MARK_TRUSTED and FW_MARK_AUTHENTICATED are set  *)
(* (until then they are zero, which is FW_MARK_PREAUTHENTICATED);             *)
(* locked: holds the client list lock; term: sigterm_mutex is taken;         *)
(* blocked: signals whose handler it is in; retry: the import failed; write: *)
(* write_state_file; todo: entries of the file not imported yet; node: cp1   *)
(* of auth_client_deauth_all; cmd: where in iptables_fw_destroy it is.       *)
MainThread == [pc : MainPc, marks : BOOLEAN, locked : BOOLEAN, term : BOOLEAN, blocked : SUBSET Signal,
               retry : BOOLEAN, write : BOOLEAN, todo : SUBSET t_client,
               node : Node \cup {Null}, cmd : Commands]

MainOff == [pc |-> "off", marks |-> FALSE, locked |-> FALSE, term |-> FALSE, blocked |-> {},
            retry |-> FALSE, write |-> FALSE, todo |-> {}, node |-> Null, cmd |-> 0]

(* The clients' chains, or the MAC lists' chains, when none exists. *)
NoChains == [r \in {} |-> 0]

LifeInit ==
    /\ client_list_init
    /\ rules = NoChains /\ macrules = NoChains
    /\ maclist = [l \in MacListName |-> {}]
    /\ now = 1 /\ http = IdleHttp /\ ndsctl = IdleNdsctl /\ timer = IdleTimer
    /\ saved = Null
    /\ main = MainOff
    /\ alive = {}
    /\ starts = 0 /\ stops = 0

threadVars == <<http, ndsctl, timer>>

-------------------------------------------------------------------------------
(* The firewall as a whole (fw_iptables.c).  A rule is in the domain of      *)
(* `rules' or `macrules' when its chain exists.                              *)

(* The chain of the rules for a MAC list. *)
ListChain(l) == IF l = "trusted" THEN "TRUSTED" ELSE "BLOCKED"

(* iptables -F *)
iptables_flush(c) ==
    /\ rules' = [r \in DOMAIN rules |-> IF r[1] = c THEN 0 ELSE rules[r]]
    /\ macrules' = [r \in DOMAIN macrules |-> IF ListChain(r[1]) = c THEN 0 ELSE macrules[r]]

ChainEmpty(c) ==
    /\ \A r \in DOMAIN rules : r[1] = c => rules[r] = 0
    /\ \A r \in DOMAIN macrules : ListChain(r[1]) = c => macrules[r] = 0

(* iptables -X refuses a chain that holds a rule. *)
iptables_delete_chain(c) ==
    \/ /\ ChainEmpty(c)
       /\ rules' = [r \in {q \in DOMAIN rules : q[1] # c} |-> rules[r]]
       /\ macrules' = [r \in {q \in DOMAIN macrules : ListChain(q[1]) # c} |-> macrules[r]]
    \/ ~ChainEmpty(c) /\ UNCHANGED <<rules, macrules>>

DestroyCommand_OnlyFlushes(k) ==
    \/ k < 4 /\ iptables_flush(Chains[k + 1])
    \/ k >= 4 /\ UNCHANGED <<rules, macrules>>

(* The commands of iptables_fw_destroy, one at a time: every chain is        *)
(* flushed, then every chain is deleted.  A result is never looked at.       *)
DestroyCommand(k) ==
    \/ k < 4 /\ iptables_flush(Chains[k + 1])
    \/ k >= 4 /\ iptables_delete_chain(Chains[k - 3])
    \/ "destroy" \in Faults /\ UNCHANGED <<rules, macrules>>

(* iptables_fw_destroy takes no lock; main is at `next' afterwards. *)
iptables_fw_destroy(next) ==
    /\ DestroyCommand(main.cmd)
    /\ main' = IF main.cmd < 7 THEN [main EXCEPT !.cmd = @ + 1]
               ELSE [main EXCEPT !.cmd = 0, !.pc = next]
    /\ UNCHANGED <<listVars, maclist>>

(* iptables_fw_init, of which the -N commands for the chains C took effect,  *)
(* with a rule per listed MAC.                                               *)
iptables_fw_init(C) ==
    /\ rules' = [r \in DOMAIN rules \cup {q \in Rule : q[1] \in C} |->
                    IF r \in DOMAIN rules THEN rules[r] ELSE 0]
    /\ macrules' =
         [r \in DOMAIN macrules \cup {q \in MacListName \X Mac : ListChain(q[1]) \in C} |->
            (IF r \in DOMAIN macrules THEN macrules[r] ELSE 0)
            + (IF r[2] \in maclist[r[1]] THEN 1 ELSE 0)]
    /\ UNCHANGED <<listVars, maclist>>

-------------------------------------------------------------------------------
(* Start. *)

(* main, and main_loop up to MHD_start_daemon: requests are served from now. *)
Start ==
    /\ main.pc = "off"
    /\ starts < MaxStarts
    /\ starts' = starts + 1
    /\ main' = [MainOff EXCEPT !.pc = "destroy"]
    /\ alive' = {"http"}
    /\ UNCHANGED <<vars, saved, stops>>

FwDestroyAtStart ==
    /\ main.pc = "destroy"
    /\ iptables_fw_destroy("init")
    /\ UNCHANGED <<now, threadVars, saved, alive, starts, stops>>

(* The first part of iptables_fw_init: from now on the webserver thread      *)
(* tells the states of a client apart.                                       *)
FwInitMarks ==
    /\ main.pc = "init"
    /\ main' = [main EXCEPT !.pc = "chains", !.marks = TRUE]
    /\ UNCHANGED <<vars, saved, alive, starts, stops>>

(* The rest of it: -N fails for a chain that still exists. *)
FwInit ==
    /\ main.pc = "chains"
    /\ rules = NoChains /\ macrules = NoChains
    /\ iptables_fw_init({"TRUSTED", "BLOCKED", "OUTGOING", "INCOMING"})
    /\ main' = [main EXCEPT !.pc = IF main.retry THEN "flush" ELSE "import"]
    /\ UNCHANGED <<now, threadVars, saved, alive, starts, stops>>

(* Some command of iptables_fw_init failed: what it made is destroyed and    *)
(* the daemon exits.                                                         *)
FwInitFails ==
    /\ main.pc = "chains"
    /\ \E C \in IF "destroy" \in Faults THEN SUBSET {"TRUSTED", "BLOCKED", "OUTGOING", "INCOMING"}
              ELSE {{"TRUSTED", "BLOCKED", "OUTGOING", "INCOMING"}} : iptables_fw_init(C)
    /\ main' = [main EXCEPT !.pc = "fw_destroy"]
    /\ UNCHANGED <<now, threadVars, saved, alive, starts, stops>>

(* The process ends: its memory is gone, the firewall and the file are not.  *)
ProcessEnds ==
    /\ heap' = FreshHeap /\ clients' = {} /\ client_id' = 1 /\ client_count' = 0
    /\ maclist' = [l \in MacListName |-> {}]
    /\ http' = IdleHttp /\ ndsctl' = IdleNdsctl /\ timer' = IdleTimer
    /\ main' = MainOff
    /\ alive' = {}
    /\ UNCHANGED <<now, starts, stops>>

(* state_file_import up to the loop.  Without a file there is nothing to do; *)
(* a file that does not parse makes main_loop reset everything.              *)
ImportBegin ==
    /\ main.pc = "import"
    /\ main' = IF saved = Null THEN [main EXCEPT !.pc = "threads"]
               ELSE IF ~saved.complete THEN [main EXCEPT !.pc = "destroy", !.retry = TRUE]
               ELSE [main EXCEPT !.pc = "importing", !.locked = TRUE, !.todo = saved.clients]
    /\ UNCHANGED <<vars, saved, alive, starts, stops>>

ImportClient ==
    /\ main.pc = "importing" /\ main.todo # {}
    /\ LET e == FirstEntry(main.todo) IN
       /\ \E n \in Node \ clients : state_file_import_client(e, n)
       /\ main' = [main EXCEPT !.todo = @ \ {e}]
    /\ UNCHANGED <<now, threadVars, saved, alive, starts, stops>>

(* One refused entry gives up the whole import. *)
ImportFails ==
    /\ main.pc = "importing" /\ main.todo # {}
    /\ ~Importable(FirstEntry(main.todo))
    /\ main' = [main EXCEPT !.pc = "destroy", !.retry = TRUE, !.locked = FALSE, !.todo = {}]
    /\ UNCHANGED <<vars, saved, alive, starts, stops>>

ImportEnd ==
    /\ main.pc = "importing" /\ main.todo = {}
    /\ main' = [main EXCEPT !.pc = "threads", !.locked = FALSE]
    /\ UNCHANGED <<vars, saved, alive, starts, stops>>

(* client_list_flush, after a failed import, takes no lock; only the         *)
(* webserver thread runs besides.  It does nothing when the count is zero.   *)
(* Otherwise every entry is freed first, and stays reachable.                *)
FlushEntries ==
    /\ main.pc = "flush"
    /\ main' = [main EXCEPT !.pc = IF client_count = 0 THEN "threads" ELSE "flush_list"]
    /\ UNCHANGED <<vars, saved, alive, starts, stops>>

(* firstclient = NULL *)
FlushList ==
    /\ main.pc = "flush_list"
    /\ clients' = {}
    /\ main' = [main EXCEPT !.pc = "flush_count"]
    /\ UNCHANGED <<heap, client_id, client_count, rules, macVars, now, threadVars,
                   saved, alive, starts, stops>>

FlushCount ==
    /\ main.pc = "flush_count"
    /\ client_count' = 0
    /\ main' = [main EXCEPT !.pc = "flush_id"]
    /\ UNCHANGED <<heap, clients, client_id, rules, macVars, now, threadVars,
                   saved, alive, starts, stops>>

FlushId ==
    /\ main.pc = "flush_id"
    /\ client_id' = 1
    /\ main' = [main EXCEPT !.pc = "threads"]
    /\ UNCHANGED <<heap, clients, client_count, rules, macVars, now, threadVars,
                   saved, alive, starts, stops>>

(* The stores of client_list_flush that are left fall into an append by the  *)
(* webserver thread: the new entry goes behind freed ones and is lost, or    *)
(* stays, and a counter is reset before the increment, between its load and  *)
(* its store, or after it.                                                   *)
FlushMeetsAppend ==
    /\ main.pc \in {"flush_list", "flush_count", "flush_id"}
    /\ "http" \in alive /\ http.pc = "add"
    /\ main.pc # "flush_list" => client_list_find(http.peer) = Null
    /\ main.pc = "flush_id" => ~ListFull
    /\ \E n \in Node \ clients, id \in {1, client_id} :
         /\ heap' = [heap EXCEPT ![n] =
                        NewClient(http.peer, id, InitialMark(http.peer[1]), now)]
         /\ clients' \in IF main.pc = "flush_list" THEN {{}, {n}} ELSE {clients \cup {n}}
         /\ client_id' \in {id + 1} \cup (IF id = client_id THEN {1, 2} ELSE {})
         /\ http' = [http EXCEPT !.pc = "dispatch", !.node = n]
    /\ client_count' \in {client_count + 1} \cup (IF main.pc = "flush_id" THEN {} ELSE {0, 1})
    /\ main' = [main EXCEPT !.pc = "threads"]
    /\ UNCHANGED <<rules, macVars, now, ndsctl, timer, saved, alive, starts, stops>>

(* termination_handler as a function of main_loop. *)
Terminating(m) ==
    [m EXCEPT !.term = TRUE, !.cmd = 0, !.pc = IF m.write THEN "export" ELSE "deauth_all"]

(* Both threads are created, or one is not and the daemon terminates. *)
StartThreads ==
    /\ main.pc = "threads"
    /\ \E T \in SUBSET {"timer", "ndsctl"} :
         /\ "ndsctl" \in T => "timer" \in T
         /\ alive' = alive \cup T
         /\ \/ /\ "ndsctl" \in T
               /\ main' = [main EXCEPT !.pc = "join", !.write = TRUE]
               /\ UNCHANGED stops
            \/ /\ "ndsctl" \notin T
               /\ stops < MaxStops
               /\ stops' = stops + 1
               /\ main' = Terminating(main)
    /\ UNCHANGED <<vars, saved, starts>>

-------------------------------------------------------------------------------
(* Stop. *)

(* `ndsctl stop' ends the ndsctl thread; main_loop, if it waits for that,    *)
(* goes on.                                                                  *)
NdsctlStop ==
    /\ "ndsctl" \in alive /\ ndsctl.pc = "idle"
    /\ stops < MaxStops
    /\ stops' = stops + 1
    /\ alive' = alive \ {"ndsctl"}
    /\ main' = [main EXCEPT !.pc = IF @ = "join" THEN "stop_web" ELSE @]
    /\ UNCHANGED <<vars, saved, starts>>

(* MHD_stop_daemon waits for the request being served. *)
StopWeb ==
    /\ main.pc = "stop_web"
    /\ http.pc = "idle" \/ "http" \notin alive
    /\ alive' = alive \ {"http"}
    /\ main' = Terminating(main)
    /\ UNCHANGED <<vars, saved, starts, stops>>

(* termination_handler on the main thread; when sigterm_mutex is taken the   *)
(* thread exits, whatever it was doing.                                      *)
SignalMain(s) ==
    /\ main.pc \notin {"off", "gone"} /\ s \notin main.blocked
    /\ stops < MaxStops
    /\ stops' = stops + 1
    /\ main' = IF main.term THEN [main EXCEPT !.pc = "gone"]
               ELSE [Terminating(main) EXCEPT !.blocked = {s}]
    /\ UNCHANGED <<vars, saved, alive, starts>>

(* The same on another thread t: only the thread exits, with the locks it    *)
(* holds.                                                                    *)
SignalOther(s, t) ==
    /\ main.term /\ t \in alive
    /\ s \in main.blocked \/ main.pc = "gone"
    /\ stops < MaxStops
    /\ stops' = stops + 1
    /\ alive' = alive \ {t}
    /\ UNCHANGED <<vars, saved, main, starts>>

LockAvailable == ListLockFree /\ ~main.locked

Export_MissesUnlock ==
    /\ main.pc = "export"
    /\ LockAvailable
    /\ state_file_export
    /\ main' = [main EXCEPT !.pc = "write", !.locked = TRUE]
    /\ UNCHANGED <<now, threadVars, alive, starts, stops>>

Export ==
    /\ main.pc = "export"
    /\ LockAvailable
    /\ state_file_export
    /\ main' = [main EXCEPT !.pc = "write"]
    /\ UNCHANGED <<now, threadVars, alive, starts, stops>>

ExportWrite ==
    /\ main.pc = "write"
    /\ json_object_to_file
    /\ main' = [main EXCEPT !.pc = "deauth_all"]
    /\ UNCHANGED <<now, threadVars, alive, starts, stops>>

(* auth_client_deauth_all *)
DeauthAll ==
    /\ main.pc = "deauth_all"
    /\ LockAvailable
    /\ main' = [main EXCEPT !.pc = "deauthing", !.locked = TRUE,
                            !.node = client_get_first_client]
    /\ UNCHANGED <<vars, saved, alive, starts, stops>>

DeauthClient ==
    /\ main.pc = "deauthing" /\ main.node # Null
    /\ AuthById(heap[main.node].id, FW_MARK_PREAUTHENTICATED, now)
    /\ main' = [main EXCEPT !.node = NextClient(main.node)]
    /\ UNCHANGED <<now, threadVars, saved, alive, starts, stops>>

DeauthAllDone ==
    /\ main.pc = "deauthing" /\ main.node = Null
    /\ main' = [main EXCEPT !.pc = "fw_destroy", !.locked = FALSE]
    /\ UNCHANGED <<vars, saved, alive, starts, stops>>

FwDestroyAtExit ==
    /\ main.pc = "fw_destroy"
    /\ iptables_fw_destroy("exit")
    /\ UNCHANGED <<now, threadVars, saved, alive, starts, stops>>

(* SIGKILL to the timeout thread ends the process before exit() does. *)
Exit ==
    /\ main.pc = "exit"
    /\ ProcessEnds
    /\ UNCHANGED <<rules, macrules, saved>>

(* The process is killed, or its last thread called pthread_exit. *)
Crash ==
    /\ main.pc # "off"
    /\ ProcessEnds
    /\ UNCHANGED <<rules, macrules, saved>>

-------------------------------------------------------------------------------
(* The other threads, while they run.  A lock the main thread holds keeps    *)
(* them from the steps that take it.  While the marks are zero every client  *)
(* counts as authenticated: libmicrohttpd_cb offers it no login, and a       *)
(* deauthentication finds nothing to change.                                 *)

(* A lookup that runs into an entry client_list_flush freed may miss the     *)
(* ones behind it.                                                           *)
HttpRequestMisses(peer) ==
    /\ main.pc = "flush_list"
    /\ http.pc = "idle" /\ client_id < MaxId
    /\ http' = [IdleHttp EXCEPT !.pc = "add", !.peer = peer]
    /\ UNCHANGED <<authVars, now, ndsctl, timer>>

RunningHttp ==
    /\ "http" \in alive
    /\ main.locked => http.pc \notin {"add", "auth", "deauth"}
    /\ main.pc = "stop_web" => http.pc # "idle"
    /\ Http \/ \E peer \in Peer : HttpRequestMisses(peer)
    /\ ~main.marks => http'.pc \notin {"binauth", "auth", "deauth"}
    /\ UNCHANGED <<saved, main, alive, starts, stops>>

RunningNdsctl ==
    /\ "ndsctl" \in alive /\ ~main.locked
    /\ Ndsctl
    /\ UNCHANGED <<saved, main, alive, starts, stops>>

RunningTimer ==
    /\ "timer" \in alive
    /\ main.locked => timer.pc = "sleep"
    /\ Timer
    /\ UNCHANGED <<saved, main, alive, starts, stops>>

Clock == Tick /\ UNCHANGED <<saved, main, alive, starts, stops>>

-------------------------------------------------------------------------------
Starting ==
    \/ FwDestroyAtStart \/ FwInitMarks \/ FwInit \/ FwInitFails
    \/ ImportBegin \/ ImportClient \/ ImportFails \/ ImportEnd
    \/ FlushEntries \/ FlushList \/ FlushCount \/ FlushId \/ FlushMeetsAppend
    \/ StartThreads

Stopping ==
    \/ StopWeb \/ Export \/ ExportWrite
    \/ DeauthAll \/ DeauthClient \/ DeauthAllDone \/ FwDestroyAtExit \/ Exit

LifeNext ==
    \/ Start \/ Starting \/ NdsctlStop \/ Stopping \/ Crash
    \/ \E s \in Signal : SignalMain(s)
    \/ \E s \in Signal, t \in alive : SignalOther(s, t)
    \/ RunningHttp \/ RunningNdsctl \/ RunningTimer \/ Clock

LifeSpec == LifeInit /\ [][LifeNext]_allVars

(* The threads run.  The main thread gets the client list lock it waits for: *)
(* the timeout thread sleeps between its rounds.                             *)
LifeFairSpec ==
    /\ LifeSpec
    /\ SF_allVars(Stopping)
    /\ WF_allVars(RunningHttp)
    /\ WF_allVars(RunningTimer)

-------------------------------------------------------------------------------
(* Over all lives every variable keeps its type, and client_count is the     *)
(* length of the list unless the state file was refused: then                *)
(* client_list_flush may have met a request.                                 *)
LifeTypeOK ==
    /\ ListTypeOK
    /\ ~main.retry => CountMatches
    /\ DOMAIN rules \subseteq Rule /\ rules \in [DOMAIN rules -> Nat]
    /\ maclist \in [MacListName -> SUBSET Mac]
    /\ DOMAIN macrules \subseteq MacListName \X Mac /\ macrules \in [DOMAIN macrules -> Nat]
    /\ http \in HttpThread /\ ndsctl \in NdsctlThread /\ timer \in TimerThread
    /\ saved \in StateFile \cup {Null}
    /\ main \in MainThread
    /\ alive \subseteq {"http", "ndsctl", "timer"}

NoStaleRules == \A r \in DOMAIN rules : rules[r] <= Cardinality(Owners(r))

(* What is left in the firewall at the exit was put there after the flush,   *)
(* by threads that go on until the end: rules of hosts that are authenticated*)
(* at that moment and of MACs that are on a list, and of no others, whatever *)
(* stale rules there were before.  After `ndsctl stop', which ends the       *)
(* webserver first, no chain for clients is left.                            *)
CleanExit ==
    main.pc = "exit" =>
       /\ NoStaleRules
       /\ \A r \in DOMAIN macrules : macrules[r] <= IF r[2] \in maclist[r[1]] THEN 1 ELSE 0
       /\ stops <= 1 /\ "http" \notin alive => rules = NoChains

(* Rules that a killed daemon left behind do not admit anybody once the next *)
(* one runs: every rule belongs to an authenticated entry of its list, be it *)
(* imported, new, or authenticated while the firewall was still being built. *)
NoRuleSurvivesCrash == main.pc = "join" /\ ~main.retry => NoStaleRules

(* A host that was authenticated when the state was exported is so again     *)
(* after state_file_import succeeded, with its id, the end of its session    *)
(* and its firewall rules.                                                   *)
Restored(e) ==
    \E n \in clients :
       /\ PeerOf(n) = e.peer /\ heap[n].id = e.id
       /\ heap[n].session_end = e.session_end
       /\ StateOf(n) = FW_MARK_AUTHENTICATED
       /\ \A r \in ClientRules(e.peer) : InChain(r)
ImportRestoresSessions ==
    [][main.pc = "importing" /\ main'.pc = "threads" =>
         \A e \in saved.clients :
            e.fw_connection_state = FW_MARK_AUTHENTICATED => Restored(e)]_allVars

(* The shutdown ends: the main thread, asked once to stop and not holding    *)
(* the client list lock when it is, gets through termination_handler, unless *)
(* it is asked again meanwhile.                                              *)
ShutdownCompletes ==
    main.term /\ ~main.locked /\ stops = 1 ~> main.pc = "off" \/ stops > 1
===============================================================================
