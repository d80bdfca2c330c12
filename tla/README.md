# A verification of nodogsplash

Nodogsplash is a captive portal: hosts of a client network are kept from the
internet until they have authenticated at a splash page.  This directory holds
TLA+ modules that model the daemon, the TLC configurations that check them on
small instances, and TLAPS proofs of the safety results for every instance.
Source paths are relative to the repository; `src/` is its C source.

## The system

The daemon is one process with four threads.

| thread | code | what it does |
| --- | --- | --- |
| main | `main.c` | builds the firewall, imports the state file, waits, tears all down |
| webserver | `http_microhttpd.c` | serves the requests of hosts, one at a time (libmicrohttpd, internal select thread) |
| ndsctl | `ndsctl_thread.c` | serves the commands of the administrator |
| timeout | `auth.c`, `thread_client_timeout_check` | refreshes the counters, ends sessions, removes idle entries |

They share the client list, the MAC lists of the configuration, and the
firewall in the kernel, which they change by running `iptables`.  Two mutexes
exist, one for the client list and one for the configuration, always taken in
that order.  There are no messages and no callbacks besides libmicrohttpd's.

### Inventory

| component | state | operations | what makes it correct |
| --- | --- | --- | --- |
| client list (`client_list.c`) | linked list of `t_client`, `client_id`, `client_count` | add, find by peer, id, ip, mac, token or any, delete, flush | one entry per MAC and IP; an id names one entry; the count is the length, at most `maxclients` |
| authentication (`auth.c`) | `fw_connection_state`, session and limits of the entries | `auth_change_state`, auth and deauth by id, deauth of all, `fw_refresh_client_list` | the firewall has the rules of a client exactly while it is authenticated; sessions end; idle entries go |
| webserver (`http_microhttpd.c`) | the request: host, `t_client *`, id, session to grant | look up or add the host, dispatch on its state, authenticate (with a binauth script or not), deauthenticate, serve pages | a request acts on the host that sent it |
| ndsctl server (`ndsctl_thread.c`) and client (`ndsctl.c`) | listening socket, connections, epoll set, `current_fd_count`, the command | connect, accept, read, hang up; auth, deauth, block, unblock, allow, unallow, trust, untrust, status, clients, json, stop, debuglevel | a command acts on the client it names; the thread never blocks and gets to every request |
| firewall (`fw_iptables.c`) | chains OUTGOING, INCOMING, BLOCKED, TRUSTED, ... in the kernel | init, destroy, rules of a client, rules of a MAC, counters | nobody passes without a grant, everybody with one does; nothing is left behind |
| MAC lists (`conf.c`) | trusted, blocked, allowed list; mechanism | add, remove, test | the rules for MACs agree with the lists |
| state file (`state_file.c`) | a JSON file | export, import | sessions survive a restart, with their rules |
| process (`main.c`) | threads, signals, `write_state_file`, `sigterm_mutex` | start, reset after a failed import, termination, exit | a stop ends the process and cleans the firewall |
| commands (`util.c`) | disposition of SIGCHLD, children | `execute`, `execute_ret`, `popen`; `sigchld_handler` (`main.c`), retries (`fw_iptables.c`) | an exit code other than 0 reaches the caller; every call returns |
| traffic control (`tc.c`) | classes and filters in the kernel | attach, detach, init, destroy | limits concern the client they were made for and go with its session |
| counters (`fw_iptables.c`, `iptables_fw_counters_update`) | byte counts of rules and entries, `last_updated` | update | an active client is not taken for idle |
| pages and paths (`template.c`, `path.c`, `http_microhttpd_utils.c`, answers in `http_microhttpd.c`) | the url a user wants, carried through redirect, splash page and form; the token of a page | redirect, fill the template, authenticate, deny; encode, decode, simplify, replace | users get where they wanted to go; pages of an earlier session do not count |
| configuration, utilities | | sequential functions on text | not modelled |

What is hard in this code: the webserver looks entries up, reads and writes
them without the lock; ids and pointers read before a lock is taken are used
after it; commands are not atomic, may fail, and their result is mostly ignored;
marks are or-ed together in the kernel; the daemon is stopped by signals at any
point, by several at once, and may be killed; the webserver serves requests
during start and shutdown; SIGCHLD has one handler for all threads; the control
socket is edge triggered, and its descriptors are inherited by commands of other
threads; counters are kept in two places that are compared; a url is decoded and
encoded at each of several pages.
`PROJECT.json` lists these hazards, each at its line.

## The modules

| module | models | kept apart because |
| --- | --- | --- |
| `Hosts` | MACs, IPs; a peer is a pair of them | used everywhere |
| `ClientList` | `client_list.c` | its own specification `ListSpec`, what the list promises to any caller |
| `Mangle` | the rules of clients in the mangle and filter chains, and what a failing `iptables` does | used by authentication and start |
| `MacLists` | MAC lists and their rules | under the other lock |
| `Auth` | state changes, counters | operators on the modules above |
| `Portal` | the three threads of the running daemon: `Spec`, `FairSpec` | the core |
| `Admission` | abstract specification: hosts become known, are admitted, lose access, are forgotten | what the portal is for |
| `Firewall` | the chains a packet crosses, over the state of `Portal`; a mark is the set of its bits | what a packet meets changes nothing |
| `StateFile` | export and import | |
| `Lifecycle` | main thread, signals, crash, around the threads of `Portal` | several lives of one daemon |
| `Execute` | commands under the SIGCHLD handler | an own level of detail |
| `NdsctlServer` | the epoll loop, the read loop, runs of `ndsctl`, the kernel's ready list | below the level of commands, which are in `Portal` |
| `TrafficControl` | classes and filters of `tc.c`, what the kernel refuses | operators on one variable |
| `Traffic` | byte counts, crediting, idle clients, limits of clients | counts bytes, which `Portal` abstracts from |
| `WebText` | url coding, path simplification, templates, on sequences of characters; a loop is a recursive function of its rounds | pure functions |
| `Splash` | the answers of the webserver to a browser with several windows: `SplashSpec` | requests as steps, urls as texts |
| `ClientListProofs`, `PortalProofs` | theorems on the list and on what the threads hold of it | |
| `AccessProofs` | theorems on rules, MAC lists, packets and the refinement of `Admission`; extends `PortalProofs` | |
| `LifecycleProofs` | theorems on starts, exits, crashes and imports; extends `AccessProofs` | |
| `ExecuteProofs`, `NdsctlServerProofs`, `TrafficProofs` | theorems on the module each is named after | |
| `SplashProofs` | theorems on the functions of `WebText`, and on tokens and the wanted url in `Splash` | |
| `MCPortal`, `MCFirewall`, `MCLifecycle`, `MCExecute`, `MCNdsctlServer`, `MCTraffic`, `MCSplash` | instances for TLC | |

`Hosts <- ClientList, Mangle <- MacLists <- Auth <- Portal <- Firewall`,
`Portal, StateFile <- Lifecycle`, `Hosts <- TrafficControl <- Traffic`,
`WebText <- Splash`; `Execute` and `NdsctlServer` stand alone.
`Portal` instantiates `Admission` with
`known` = the hosts with an entry and `admitted` = the hosts with an OUTGOING
rule, and states that it implements it (`ImplementsAdmission`).  It also
implements `ListSpec` (`ImplementsClientList`): the list's promises are shown
once, for any caller, and carried over.

Definitions have the names of the C functions where there is one
(`client_list_find`, `auth_change_state`, `iptables_fw_init`).  Definitions whose
name ends in `_Something` directly before a definition (`HttpAdd_AppendsDirectly`)
are faulty variants of it: with one of them in its place TLC must find the
property that watches over it violated.  `PROJECT.json` says which belongs to which.

### How state and steps correspond to the code

*Entries.*  `heap` holds the `t_client` structures at their addresses (`Node`),
`clients` the addresses that are on the list.  `client_list_delete` takes an
address off and leaves its bytes: the model goes on reading them through a stale
pointer, as the code does.  Reading the state of a freed entry gives any value,
reading its id gives the old one or 0.  Only the webserver thread allocates
entries while the daemon runs, and it does so for its own request.  `ord`
is the place of an entry in the list: new ones are appended at its end.  It is not
the id, since `client_list_flush` begins the ids anew.

*Locks.*  A critical section is one step, except for those that run commands
client by client with the lock held: the loop of `fw_refresh_client_list`
(`timer.pc = "loop"`), the import and `auth_client_deauth_all` (`main.locked`).
All others wait while one of these is under way.  Code outside the lock is
split at each access to shared state.  `HttpRequest` may miss an entry while the
timeout thread unlinks others, since its lookup takes no lock; `add_client`
looks again under the lock.  `client_list_flush` takes no lock either (`main.c:330`):
its walk and its three stores are steps of their own (`FlushEntries`, `FlushList`,
`FlushCount`, `FlushId`).  Between two of them a request may be looked up, miss entries
(`HttpRequestMisses`) and be appended; `FlushMeetsAppend` is an append the remaining
stores fall into, with every outcome the loads and stores of both can have.

*Requests* may come from any host at any time: libmicrohttpd listens on all
interfaces (`main.c:287`).  A request goes through `HttpRequest`, `HttpAdd`, then
one of `HttpServePage`, `HttpAuthdir` .. `HttpSession`, `HttpDenydir`,
`HttpDeauth`.  Pages, redirects and files only end the request there.  `Splash`
is the other view of the same handlers: it sees what is in the pages and not
what the other threads do within a request.  A step of it is a request of one
window, and what MHD and the browser do with the answer: they decode arguments
and encode form fields, but a link is taken as it is printed.  `resets`, `made`
and `linked` are history.

*Time* is a counter that `Tick` advances; configured timeouts are counted in its
unit.  The timeout thread takes the time once per round and keeps it.

*Traffic* is what the timeout check reads of it: `last_updated`, and whether a
limit was exceeded.  A refresh of the counters credits any set of the rules
present, to the first entry with the IP of the rule, as the code does.  `Traffic`
has the byte counts themselves: `out` is what the OUTGOING rule of a host has
counted, `outgoing` of an entry what the last update found.  A refresh takes the
time, reads the counters, takes the lock and handles one entry after the other
(`Revalidate`); packets are sent between any two of these steps, requests and
commands wait for the lock (`LockFree`).  As in the code, the loop and
`auth_client_auth` and `auth_client_deauth` look an entry up by its id and so act on
the first that has it: after an import two may.  A start may import an entry with
any id and counter.  `sent` and `shared` are history; `shared` are the hosts whose
counters are not only their own, because they began their session beside another
entry with their IP or were credited with bytes of another host.  Incoming bytes
are counted alike and touch no time.

*Traffic control.*  `tc` is what the kernel has on each device.  A command on a
class whose parent is missing, whose number is taken, or which still has
children or filters is refused.  The commands of an attachment that `TcFails` names
may fail, each or several; all results are ignored, as in the code.

*Control socket.*  `ready` is the kernel's list of items something happened to;
`epoll_wait` takes them off and reports what is true of them at that time.  `fds`
says what a descriptor of the daemon refers to, `held` which connections a child
process has open as well, since descriptors are not close-on-exec (`Fork`,
`ChildEnds`).  The watch of a connection lives as long as any copy of its
descriptor, so an event may name a descriptor that was closed and given to
another connection.  `ndsctl` may be interrupted at any point; a request longer
than its buffer is sent without its line end (`ndsctl.c:171`).  After end of
file the read loop makes no progress: `Spins`.

*Firewall.*  `rules` and `macrules` are bags: how many copies of a rule the
chains hold.  A `-A` adds a copy, a `-D` removes one if there is one.  `Faults`
says which commands may fail: the `-A` of a client, the `-D`, or those of
`iptables_fw_destroy`.  A rule is in the domain of its bag when its chain exists, and
commands on other rules have no effect.  `iptables_fw_destroy` is one step for each of
its commands on the chains that other threads write to (`-F` of the four, then `-X` of
the four), without any lock; `-X` fails when the chain holds a rule, and no result is
looked at.  The `-N` of `iptables_fw_init` fails for a chain that still exists, and then
the daemon exits.  Until
`iptables_fw_init` has set them, all marks are zero in the process, so that
`libmicrohttpd_cb` takes every client for authenticated (`main.marks`).

*Signals.*  The kernel gives a signal to the main thread unless that blocks it.
`termination_handler` runs on the thread that got it; when `sigterm_mutex` is
taken it calls `pthread_exit`.  `pthread_kill(.., SIGKILL)` at the end of the
handler ends the whole process.

*State file.*  A file is written in two steps; a stop in between leaves one that
does not parse.  Files are those the daemon wrote.

## The runs

All pass within five minutes with two workers.

| run | question | instance |
| --- | --- | --- |
| `portal` | Do the threads keep list, rules, MAC lists and packets consistent, and is the whole an admission control? | two hosts behind one IP (they share INCOMING rules), two entries over time, administrator lists one MAC, sessions end by blocking |
| `portal_binauth` | The same on the other paths of the configuration; does a failing `iptables -A`, whose result is ignored, leave a rule without a client later? | one host with two IPs, a list of one entry (it is full), binauth printing -1 or 1, allow mechanism, traffic limit, any subset of the commands of an authentication fails |
| `timeouts` | Do sessions end, do idle entries go? | two hosts, fair timeout thread |
| `lifecycle` | Do sessions come back after a stop, do rules survive a crash, what is left at an exit? | two hosts behind one IP, two lives, one stop or signal, crashes at any point; a life whose state file was refused is followed until its threads run (`RefusedFileBound`) |
| `shutdown` | Does a stop end the daemon? | one host, two requests to stop, each a signal or `ndsctl stop`: the second finds the main thread in its handler, with the signal blocked or not |
| `commands` | Is a failure ever taken for success, does a call wait for ever? | two threads, three commands, busy iptables, killed children |
| `ndsctl_server` | Does the thread ever block, end or forget a request? | two runs of `ndsctl` with requests of one byte, two descriptors, failing calls |
| `traffic` | Do limits and counters stay with the client they belong to? | two hosts behind one IP, three ids, an import with a clashing id, binauth limits 1 or -1, a failing command |
| `pages` | Does a user get where he wanted, through which pages? Do the functions on text do what they are for? | two windows, five urls (plain, one whose path goes up and whose second key has no value, an encoded `&`, one that just fills the buffer, one too long), two resets; all paths of up to 6 of `/.a`, all texts of up to 4 characters, all templates of up to 3 pieces, with all sizes of the buffer |

What they show:

* `UniquePeer`, `UniqueId`, `CountMatches`: the unlocked first lookup does no harm
  because `client_list_add_client` repeats it under the lock.
* `RulesMatchClients`: however state changes interleave (timeout, block, ndsctl,
  deny URL), each client has each of its rules exactly once, and two hosts
  with one IP do not take each other's INCOMING rules away.
  `RulesOnlyForClients` is the half of it that holds when `-A` may fail.
* `MacRulesMatch`: rules for MACs agree with the lists although the timeout thread
  and ndsctl change both.
* `PointerIsRequester`, `ActsOnRequester`: the stale pointer and the stale id of a
  request never lead to another host's entry, because ids are not reused and
  only the webserver allocates entries.  (Across an import ids may clash, see
  below.)
* `OnlyGrantedPass`, `AuthenticatedPass`, `OthersReachPortal`: what the kernel does
  with packets.  Marks are or-ed, and authenticated = blocked | trusted; still
  nobody passes without a grant, clients that are not blocked do pass, and the
  others get to the portal.  The instances use the default marks 0x10000, 0x20000
  and 0x30000, written as the sets of bits `{16}`, `{17}` and `{16, 17}`.
* `ExpiredSessionEnds`, `IdleEntryRemoved`: the loop reaches every client.
* `ImportRestoresSessions`: sessions come back with their rules, while requests are
  served.  `LifeTypeOK`: the count is the length of the list in every life whose state
  file was not refused.
* `NoRuleSurvivesCrash`: what a killed daemon left is gone in the next life, and every
  rule belongs to an authenticated entry, imported or new.  Where a command of
  `iptables_fw_destroy` fails, so does the `-N` after it, and there is no next life; this
  is covered by the proof, not by the run.
* `CleanExit`: the firewall is not always clean at the exit (see below).
  What can be left are rules put there after the flush, of hosts that are
  authenticated and of MACs that are listed at that moment; rules of ended sessions, of
  unlisted MACs and of earlier lives are gone.  After `ndsctl stop`, which ends the
  webserver first, no chain for clients is left.  No MAC is listed in the run; the proof
  has them.
* `ShutdownCompletes`: the main thread gets through the handler unless asked again.
* `FailureReported`, `CommandEnds`: when the handler reaps somebody else's child the
  command counts as failed and the caller goes on.  Only a killed child looks like a
  successful one (see below).
* `AcceptNeverBlocks`: the listening socket blocks, but one `accept` per event is
  never too many.  `CountCoversConnections`: although a hang-up does not decrement
  `current_fd_count`, and may close another connection's descriptor, the size given
  to `epoll_wait` is never below what is open.  `RequestEnds`: a request that has
  arrived on an accepted connection is dealt with unless the thread spins (below).
* `NoShapingLeft`: limits are written to the entry after the classes were made
  and before they are removed, commands fail, and ids clash after an import; still
  `tc_detach_client`, which does not look at what is there, leaves nothing of an
  ended session.  `ShapingUndisturbed`: with ids that differ, no client loses its
  classes to another.  `ActiveStays`: a client found idle has not sent anything for
  the timeout; the counters of earlier sessions and rules do not get in the way.
* `OriginKept`: the url survives all rejections, with errors instead of half a url;
  who is authenticated through another window meanwhile gets a status page.
  `OldPagesRejected`: a page left open authenticates
  only until the next reset.  `EncodingInverts`, `PathsResolved`, `TemplateFilled`: the
  functions agree with their reference definitions, at every size of the buffer.

### Where the code and its documentation disagree

| run | statement | what happens |
| --- | --- | --- |
| `idle_removal` | `resources/nodogsplash.conf:233`: a preauthenticated user is removed after `PreAuthIdleTimeout` | `authenticate_client` writes `session_end` after the lock; if the client was deauthenticated meanwhile the entry is taken for an ended session in every round and stays for ever |
| `blocked_passes` | `docs/source/howitworks.rst:38`: packets of blocked MACs are dropped | `0x30000 \| 0x10000 = 0x30000`: an authenticated client keeps its access after `ndsctl block` |
| `authtarget_link` | `docs/source/customize.rst:72`: a request at `$authtarget` is answered with a redirect "to the encoded originally requested URL" | `replace_variables` prints the decoded url into the link: a url with two arguments arrives without the second |

Met while modelling, visible in the models but without a run of their own:

* `_execute_ret` logs that a signal killed the child and returns `WEXITSTATUS`, which is 0
  then (`src/util.c:118`): a killed `iptables` counts as run, and a killed binauth script as
  successful, where `docs/source/binauth.rst:73` says "For the authentication to be
  successful, the exit code of the script must be 0".  `FailureReported` has to except it.
* `src/main.c:125` says of `termination_handler` "Exits cleanly after cleaning up the
  firewall."  On a signal the webserver runs on: a client that is authenticated after `-F`
  (`fw_iptables.c:716`) and before `-X` (`:721`) puts rules into the chains, `-X` fails, and
  chains and rules stay.  `CleanExit` says what else cannot be left.
* `src/client_list.c:59` says that `get_client_list_length` returns the "current length of
  the client list".  `client_list_flush` runs without the lock (`main.c:330`): an append
  between `firstclient = NULL` and `client_count = 0` gives a list of one entry and a count
  of 0 (`FlushCount`, `FlushMeetsAppend`).  `LifeTypeOK` has to except lives with a flush.
* The comment at `src/client_list.c:49` says the mutex protects access to the list; a
  request uses its pointer without the mutex, also after the timeout thread has
  freed the entry (`http_microhttpd.c:355`), and even writes through it (`:467`).
* `client_id` counts imported entries and not their ids (`state_file.c:176`), so a new
  client may get an imported id, which `state_file.c:160` would refuse in a file.
* A SIGINT during the handler of a SIGTERM ends the main thread by `pthread_exit`
  (`main.c:137`): the clean-up stops, rules stay, the process lives on.
* A single SIGTERM during `state_file_import` never ends the daemon: the handler
  waits for the list lock its own thread holds (`ShutdownCompletes` excludes
  `main.locked` for this reason).
* `session_end > 0` on entries that are not authenticated, against the comment at
  `src/auth.c:171` (the cause of `idle_removal`; `IdleEntryRemoved` therefore speaks
  of entries with a clear `session_end`).
* Zero or negative seconds of a binauth program give a session without end
  (`HttpBinauth`), where `resources/nodogsplash.conf:353` says the request is rejected.
* MAC lists are read when an entry is made.  A MAC blocked later may still
  authenticate; one that is unblocked stays blocked as long as its entry lives,
  and no timeout removes it (`resources/nodogsplash.conf:255`).
* Under the allow mechanism a trusted MAC that is not allowed collects both marks
  and is handled as authenticated; an allowed MAC gets an entry in the state
  Trusted, which the portal takes for having access while the firewall redirects it.
* The webserver runs before the import, which `src/state_file.c:199` says expects an
  empty list: a clash makes the import fail.  The reset that follows flushes the
  list after it rebuilt the firewall; a client that authenticates in between keeps
  its rules without an entry (`NoRuleSurvivesCrash` speaks of lives without reset).
* A count that a flush left too low is negative after the entry is deleted, and the
  list takes more clients than configured; one too high refuses clients for ever.
* Chains that an exit or a failing command left are removed by the next start; where
  that fails as well `iptables_fw_init` fails at `-N` and the daemon does not start.
* Two overlapping commands may bring `sigchld_handler` back while a child runs, or
  lose it for good (`src/util.c:92`, `:122`).
* Two connections to the control socket before one `epoll_wait` give one event and
  one `accept` (`ndsctl_thread.c:177`): the second waits until somebody else connects.
* A peer that closes before its line end makes the read loop of `ndsctl_handler` spin
  for ever (`Spins`).  A read that finds nothing takes one off `read_bytes`; the loop
  ends below zero, and what is there is dispatched as a request.  That is how a
  request gets through whose line end `ndsctl` cut off.
* A hang-up may be reported for a descriptor a child still had open; the number may
  belong to another connection by then, which is closed in its place, and the
  handler then works on a closed descriptor (`fdopen` gives NULL).
* After an import the counter of a client is above what its new rule has counted,
  so an active client may look idle until the rule has caught up; of two clients
  with one IP only the first is credited.  `ActiveStays` leaves both out.
* The loop of `fw_refresh_client_list` looks each entry up again by its id
  (`auth.c:162`).  Of two entries with one id, which an import makes possible, the
  first is handled twice and the second never times out; its counters, credited with
  what another host behind the IP sent, then stay for its next session.
* Marks that have no bit in common pass the checks of the configuration and of
  `_iptables_init_marks`.  With them a client that is authenticated and trusted has a
  mark that no ruleset matches, and is handled like an unknown one.
* A client whose binauth program printed one limit only is shaped with the limits
  of the configuration.  `tc_destroy_tc` removes the root qdiscs and brings the ifb
  device down, but not the ingress qdisc that redirects to it (`tc.c:230`).
* A url that takes exactly `QUERYMAXLEN` characters when encoded is not terminated,
  and what lies behind the buffer is printed after it (`http_microhttpd.c:602`, `:618`).
  `OriginKept` leaves these urls out.
* Arguments of the wanted url are put together again decoded (`get_query_callback`):
  an `&` in a value becomes a separator.  `OriginKept` leaves these out as well.
* Whoever opens the portal itself has no `redir`: the form then sends the user to the
  text `redir`, the link to `(null)`.
* An authenticated client that reloads the splash page gets the raw template, and
  one that accepts in a second window gets the status page, where the comment at
  `src/http_microhttpd.c:494` says both are redirected to the origin.  The parameter
  `querystr` of `encode_and_redirect_to_splashpage` is not used.
* `buffer_path_simplify` does not prepend the `/` its comment (`path.c:36`) promises.
  `uh_urldecode` is called by no part of the program; the model uses it for what MHD
  does with arguments.

### Bounds

`MaxId`, `MaxTime`, `MaxStarts`, `MaxStops`, `MaxCommands`, `MaxCopies`, `MaxBytes` and
`MaxResets` bound counters; each stands in a guard.  `RefusedFileBound` of `lifecycle` is a
constraint: beyond it such a life is left to the proofs, which have no bound.  An interference needs two hosts or one host
twice, so two hosts (or two IPs) and two entries over time, of two hosts or of one that
leaves and comes back, are what the runs use; what concerns more entries (unique
peers and ids, the count, rules, packets, lives, connections, limits) is proved for any number.  `MaxTime` 2 with timeouts of 1 lets every timeout
pass.  Two lives are needed to see what the first leaves, and two stops for one
to interrupt the other.  Three commands on two threads give an overlap and a
command after it.  Two runs of `ndsctl` and two descriptors let a
number be reused under a pending event.  `MaxBytes` 2 in `traffic` lets a rule
count beyond, up to and below a counter of before.  Two resets make a page old
twice.  Runs of `Lifecycle`, `Execute`, `NdsctlServer`, `Traffic` and `Splash` do
not check for deadlock: a daemon may stay stopped, a user may be content, and
starts, commands, time and bytes are bounded.  Symmetry is over
addresses of the heap, and over hosts where no MAC is listed; liveness is
checked without it.

### Fairness

* `FairSpec`: weak fairness of the timeout thread (`pthread_cond_timedwait` returns),
  strong fairness of `TimerCounters`: popen does not fail in every round.  The
  list lock is never kept from the thread for ever, since others hold it for one step.
* `LifeFairSpec`: weak fairness of webserver and timeout thread; strong fairness of
  the shutdown steps of the main thread, which wait for a lock that the timeout
  thread takes and releases again, sleeping a whole `checkinterval` in between.
  Nothing is assumed of requests, commands, signals or crashes.
* `ExecFairSpec`: threads and handlers run, and a command that was started ends.
  The code has no time limit for a command, so without this no call returns.
* `SockFairSpec`: the server thread runs.  Nothing is assumed of `ndsctl`, of children,
  or of calls that fail.

## The proofs

| theorem | for every value of the constants |
| --- | --- |
| `ClientListProofs!ListCorrect` | `ListSpec => []ListInv`: unique peers, unique ids below `client_id`, the count, for any caller |
| `PortalProofs!TypeCorrect` | `Spec => []TypeOK`, with any `Faults` |
| `PortalProofs!ListImplemented` | `Spec => ListSpec` |
| `PortalProofs!PeersUnique`, `IdsUnique`, `CountCorrect` | the list's properties of the running daemon |
| `PortalProofs!PointerCorrect` | `Spec => []PointerIsRequester` |
| `PortalProofs!RequesterOnly` | `Spec => ActsOnRequester` |
| `AccessProofs!MacRulesCorrect` | no command fails: `Spec => []MacRulesMatch` |
| `AccessProofs!NoStrayRules` | no `-D` fails: `Spec => []RulesOnlyForClients` |
| `AccessProofs!RulesCorrect` | no command fails: `Spec => []RulesMatchClients` |
| `AccessProofs!AdmissionImplemented` | no `-D` fails: `Spec => ImplementsAdmission` |
| `AccessProofs!OnlyGrantedCorrect` | no `-D` fails, any marks: `Spec => []OnlyGrantedPass` |
| `AccessProofs!PortalReachable` | no `-D` fails, `MAC_BLOCK`: `Spec => []OthersReachPortal` |
| `AccessProofs!AuthenticatedCorrect` | no command fails, `MAC_BLOCK`, `GrantsCombine`: `Spec => []AuthenticatedPass` |
| `LifecycleProofs!LifeInvariant`, `LifeTypeCorrect` | `LifeSpec => []LifeInv`, `[]LifeTypeOK` over any number of lives, with any `Faults` |
| `LifecycleProofs!ExitClean` | no `-D` and no command of `iptables_fw_destroy` fails by itself: `LifeSpec => []CleanExit` |
| `LifecycleProofs!CrashRulesGone` | no `-D` fails, commands of `iptables_fw_destroy` may: `LifeSpec => []NoRuleSurvivesCrash` |
| `LifecycleProofs!SessionsRestored` | no `-A` fails: `LifeSpec => ImportRestoresSessions` |
| `ExecuteProofs!ExecTypeCorrect`, `FailureReachesCaller` | `ExecSpec => []ExecTypeOK`, `[]FailureReported`, any number of threads and commands |
| `NdsctlServerProofs!SockInvariant`, `SockTypeCorrect` | `SockSpec => []SockInv`, `[]SockTypeOK`, any number of runs of `ndsctl`, descriptors and children |
| `NdsctlServerProofs!AcceptCorrect` | `SockSpec => []AcceptNeverBlocks` |
| `NdsctlServerProofs!FdCountCorrect` | `SockSpec => []CountCoversConnections` |
| `TrafficProofs!TrafficInvariant`, `TrafficTypeCorrect` | `TrafficSpec => []TrafficInv`, `[]TrafficTypeOK` |
| `TrafficProofs!ShapingRemoved` | `TrafficSpec => []NoShapingLeft`, whichever commands of an attachment fail |
| `TrafficProofs!ShapingSeparate` | `TrafficSpec => ShapingUndisturbed` |
| `TrafficProofs!ActiveKept` | `TrafficSpec => ActiveStays`, any hosts, IPs and timeouts |
| `SplashProofs!OldPagesCorrect` | `SplashSpec => OldPagesRejected` for any windows, urls and number of resets |
| `SplashProofs!OriginCorrect` | `SplashSpec => []OriginKept` for any windows, urls, resets and size of the buffer, with and without `RedirectURL` |
| `SplashProofs!EncodingRoundTrip` | of every text and size of the buffer: encoding fails exactly when it does not fit, never writes more, and decoding gives the text back |
| `SplashProofs!PathResolved` | of every path from `/`: `buffer_path_simplify` is `Resolved`, the reference |
| `SplashProofs!PathStaysBelow` | of every path: no component `..` is left |
| `SplashProofs!TemplateParsed` | of every template cut into pieces, any variables, any longest name and size of the buffer: the values in order, cut at the size |
| `SplashProofs!EncodingCorrect`, `PathsCorrect`, `TemplateCorrect` | `SplashSpec => []EncodingInverts`, `[]PathsResolved`, `[]TemplateFilled`, at any bounds; the above on the inputs the run enumerates |

The assumptions are those the modules state (constants have their types, `Null`
is no address, marks are distinct and not zero, as `_iptables_init_marks` demands,
`MaxClients` is at least 1, as `conf.c` demands; a path that MHD hands on begins with
`/`) and those in the table.  Hosts,
addresses and threads may be infinitely many.

*Why the hypotheses are there.*  Results of `iptables` are ignored, so an agreement
of list and firewall can only hold as far as commands succeed: a rule too many
needs a failing `-D`, a rule too few a failing `-A`.  Under `MAC_ALLOW` the firewall
redirects and drops by other rules (see above).  `GrantsCombine` says that the or of
the marks for authenticated and trusted is one of the two; it is true of the
default marks, and where it is false the statement is.

*The list.*  `CountMatches` alone is not inductive: deletion needs that the entry
is on the list and the set finite, insertion that the peer has no entry and that
`client_id` exceeds all ids.  `ListInv` is the conjunction of these, with
`EntriesHavePeer`.

*The portal.*  `PortalInv` adds to `ListInv` and the types what the threads may hold:
`HttpOK` (which fields of a request are set at which step), `PointerIsRequester`,
`HttpIdOK` and `NdsctlIdOK`: the id a thread read before it waited for the lock is
0, or below `client_id` and, as long as an entry has it, that of the host
concerned.  The last two make `ActsOnRequester` provable: nobody else can have got
the id meanwhile, because ids only grow.  Each action has a lemma of its own
about the list step it takes, so that the invariant and the refinement of
`ListSpec` come out of the same case distinction.

*Access.*  As far as access goes a step of the daemon has one of five shapes
(`AccessStep`): nothing, an entry appears, an entry without access goes, one entry
gets access and its rules are appended, one loses it and they are deleted.  That
every action has one of them is shown once; what follows is argued over shapes.  A
rule may have several owners (hosts with one IP share INCOMING rules), so the
invariants compare the number of its copies with the number of entries it belongs
to (`Cardinality`), and need that this set is finite and changes by exactly one
entry.  The refinement maps the shapes to the steps of `Admission`.  What a packet
meets is then a matter of sets of bits.

*Lives.*  An import takes ids from the file, so ids are not unique here and the
proofs use `ListCore`, the part of `ListInv` without them.  The threads' steps reuse
`AccessStep` and `MacStep`.  `LifeInv` is `LifeCore` (types, the list, what the threads
hold), `RetryOK` (the list is flushed only in lives whose import failed) and `CountOK`;
without `RetryOK` the steps of the flush would break the count.  `ExitClean`: `CleanExit`
speaks of the exit only, and is strengthened along the commands of
`iptables_fw_destroy`.  `CmdOK` and `StopsOK` say where main is in them and which threads
can have ended how.  `CurrentRules` and `CurrentMacRules` say of every chain that it holds,
once it is flushed, no more than the clients and MACs of now account for: an
authentication adds a copy and an owner, the end of a session takes one of each, and
a failing `-X` leaves what is accounted for.  `EmptyRules` is the case where neither
webserver nor ndsctl run: flushed chains stay empty, so their `-X` succeeds.
`CrashRulesGone` needs `RulesOwned`, which speaks of rules and entries
at each step of the main thread between init and the end of the import.
`SessionsRestored` needs `Recovering`: what has been imported so far is on the list
with its id, session and rules (`Back`), and what remains of the file is to come; the
webserver, alone running then, cannot undo it.

*Commands.*  `ExecInv` adds the types and `ChildAwaited`: a child exists exactly while
its thread waits for it, so its status is the one pclose reads, if the handler did not
take it; of the outcomes of pclose only 0 and a kill give `rc = 0`.

*The control socket.*  `current_fd_count` goes down for every event that enters the
handler, and may go down for a connection that is closed already, since a child
keeps it watched and the number in the event may have been given to another.  So
the count has to cover more than what is open.  `Credit` are the connections that
are open, or have an event pending, or are closed, still watched, and may yet send
(`MayFire`); the count exceeds their number, and each event that is handled uses up
the credit of its own connection, whichever descriptor it closes.  Beside this
`SockInv` says that a connection is accepted once, that what is ready is watched and
that events name the number the connection is or was watched under.

*Limits and counters.*  `TrafficInv` has three parts.  `ShapingOK`: a class is below
the root and has the first number of a client, or is below that and has the second
or third; a filter leads to one of the latter; numbers of different clients do not
overlap; a device without a limit in the configuration is empty.  So after the
filters of a client its two leaf classes are not in use, then its first is not
either, and each command of `tc_detach_client` succeeds whatever is missing.  That
`Limits` of the entry are 0 only where those of the configuration are makes it run on
each device that has something.  `CountersOK`: an entry has a rule exactly while it is
authenticated; without a session nothing was sent since its reset; a session with
counters of its own is the first with its IP, the only one, and has not more on
its entry than on its rule, and if equal then nothing was sent after
`last_updated`.  Reading the counters then makes them equal.  The shapes of steps
(`GrantStep`, `DropStep`, `RemoveStep`, `TimerStep`) are shared by the parts.

*Texts.*  Each function of `WebText` that loops is a recursive function of the round,
so what it computes is shown by induction over rounds.  `LeastNumber` (a set of numbers
has a least one) gives `Rounds`, the induction, stated for the set of rounds after
which something holds; with it `LoopExists` shows that a loop has a state after every
round, and each function gets its defining equation from that (`EncodingDef`,
`SimplifyingDef`, `ParsingDef`, ...).

* Coding: `Size` is the length of the encoded text so far; encoding goes on as long as
  it fits, and only appends.  Decoding is followed along the rounds of the encoding:
  it reads one character, or one and two skipped digits, where that wrote one or three.
* Paths: the loop and the reference run side by side (`Simulated`).  After a round the
  buffer up to `slash` lists the directories of the reference, and from there to `out`
  it has the name being read (`Open`, `Closed`).  A step back to the last slash of the
  buffer (`Parent`) is then taking away the last directory, because names have no
  slash.  That the buffer keeps what was written behind `out` matters once, at the end
  of the path, where one character is shown again: it is a slash.
* No `..` for any path, also one that does not begin with a slash: here there is no
  reference to follow, and the invariant is `Below`: nothing up to `slash` goes up, and
  what follows is a part of the input that began there.
* Templates: after `k` pieces the buffer has their values or is full (`Filled`), and in
  between the rounds that belong to a name change nothing.  A name must end where its
  piece does, so after a name no piece may begin with a character of names
  (`IsTemplate`).

*Pages.*  `TokenInv`: the token of the client tells how often it was reset, and a page
has the token of the time it was made at.  Nothing is said of the texts of the
pages, so `OldPagesCorrect` holds whatever the text functions return.  `OriginKept` is
not inductive: it speaks of the last page only.  `OriginInv` says of each window what it
carries on the way: the encoded url in the redirect, the url itself on the splash page,
the target at the end, as long as the user took no link (`WindowOK`).  A redirect keeps it
because the path is resolved (`PathResolved`), the query of a url that needs no encoding is
put together as it was (`WantedIs`), and its encoding either fits or gives an error; the
splash page keeps it because decoding inverts (`EncodingRoundTrip`) and nothing was
printed behind an encoding that does not fill the buffer (`CodeGoesThrough`).  When
`redirectURL` is set, pages carry something else and the form leads there.

Only model-checked: `ExpiredSessionEnds`, `IdleEntryRemoved`, `ShutdownCompletes`, `CommandEnds`
and `RequestEnds`.  Liveness under fairness is out of the prover's reach.

## Not modelled

* Rates of traffic control, and its removal at exit; incoming bytes and totals.
* The creation of the control socket; `debuglevel`; the answers to status, clients
  and json, and what `ndsctl` prints.
* The values of tokens (a reset gives a new one), `authenticated_since_start`, the
  notifications sent to the binauth program.
* Rulesets of the configuration: the model names the one that decides.
  IPv6; the search for the gateway's addresses; forking to the background.
* The configuration parser: sequential, at start, before any other thread runs;
  its result is the constants of the modules.  Logging and allocation wrappers,
  MIME types, the lookup of MACs in the ARP table, `uh_b64decode` (not called).
* The configuration lock over several steps.
* The chains of the nat and filter tables and the jumps to all chains, which only main
  writes.  The three `-A` of a client, and the `-N` of `iptables_fw_init`, are one step each.
* The memory of entries that `client_list_flush` has freed is not reused before
  `firstclient = NULL`; requests that read them find their old bytes, or do not find them.
* Commands of `tc_detach_client` that fail for a reason other than the state of the
  classes; the limit of `read_bytes`, which is the size of a buffer no request of `ndsctl`
  exceeds.

## Plan

1. *Done:* list, authentication, threads, packets, state file, life of the
   process, commands; the list's and the requests' theorems.
2. *Done:* control socket, traffic and traffic control, pages and the functions on
   text; the theorem on tokens.
3. *Done:* proofs of rules, MAC lists and packets, of the refinement of `Admission`, of
   the lives of the process, of the control socket, of limits and counters.
4. *Done:* proofs of the functions on text for inputs of every length, and of the url
   that is carried through the pages.
5. Left: what the refinement of `Admission` implies when a `-D` fails; the configuration
   lock over several steps in `Lifecycle`.
