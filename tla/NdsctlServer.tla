----------------------------- MODULE NdsctlServer -----------------------------
(***************************************************************************)
(* The control socket: the loop of thread_ndsctl over epoll and the read   *)
(* loop of ndsctl_handler (ndsctl_thread.c), and the runs of the command   *)
(* line tool that talk to it (ndsctl.c).  What the commands do to the      *)
(* daemon is the matter of Portal; here a command is acted on or not.      *)
(*                                                                         *)
(* Watches are edge triggered: an item enters the ready list when          *)
(* something happens to it, epoll_wait takes it off and tells what is true *)
(* of it at that moment.  A watch lasts until nobody has the connection    *)
(* open; descriptors are not close-on-exec, so that is the end of every    *)
(* command another thread started while the descriptor was open.           *)
(***************************************************************************)
EXTENDS Integers, Sequences, SequencesExt, FiniteSets

CONSTANTS
    Ctl,        \* runs of ndsctl, each makes one connection
    Sock,       \* the listening socket
    Null,
    Fd,         \* numbers accept may give a connection
    MaxBytes,   \* bound of the model: length of a request
    CallsFail   \* accept and epoll_ctl may fail

ASSUME CtlAssumption == Sock \notin Ctl /\ Null \notin Ctl \cup {Sock} \cup Fd
ASSUME MaxBytesAssumption == MaxBytes \in Nat \ {0}
ASSUME CallsFailAssumption == CallsFail \in BOOLEAN

VARIABLES
    conn,      \* the connection of every run of ndsctl, see Conn
    backlog,   \* connections nobody has accepted yet, oldest first
    fds,       \* descriptor -> the connection it refers to, or Null
    held,      \* connections a child process has open, too
    watched,   \* connection -> the descriptor it was put into the set with
    ready,     \* ready list of the epoll set
    srv        \* the thread: see Server

sockVars == <<conn, backlog, fds, held, watched, ready, srv>>

(* bytes is what the server has not read yet; line says whether a line end   *)
(* is in it, stop that the command is stop.  hup: the peer has closed, or    *)
(* somebody shut the connection down.                                        *)
Conn == [st : {"none", "connected", "sent", "end"}, bytes : 0..MaxBytes,
         line : BOOLEAN, stop : BOOLEAN, hup : BOOLEAN]

(* events: those of the last epoll_wait that are still to be looked at.      *)
(* read_bytes, done and request are the variables of ndsctl_handler; request *)
(* is the connection whose bytes are in the buffer.  The daemon stops when   *)
(* the thread has exited (main joins it), or crashes: "ended".               *)
Event == [file : Ctl \cup {Sock}, fd : Fd \cup {Null}, hup : BOOLEAN]
Server == [pc : {"wait", "loop", "read", "exit", "ended"}, events : Seq(Event),
           current_fd_count : Int, read_bytes : -1..MaxBytes, done : BOOLEAN,
           request : Ctl \cup {Null}]

SockInit ==
    /\ conn = [c \in Ctl |-> [st |-> "none", bytes |-> 0, line |-> FALSE,
                              stop |-> FALSE, hup |-> FALSE]]
    /\ backlog = <<>>
    /\ fds = [fd \in Fd |-> Null]
    /\ held = {}
    /\ watched = [c \in Ctl |-> Null]
    /\ ready = <<>>
    /\ srv = [pc |-> "wait", events |-> <<>>, current_fd_count |-> 1,
              read_bytes |-> 0, done |-> FALSE, request |-> Null]

-------------------------------------------------------------------------------
(* The kernel. *)

(* The elements of s at the places in I, in their order. *)
Sublist(s, I) ==
    LET place == CHOOSE f \in [1..Cardinality(I) -> I] :
                    \A a, b \in DOMAIN f : a < b => f[a] < f[b]
    IN  [k \in 1..Cardinality(I) |-> s[place[k]]]

(* x is on the ready list when it is watched and was not there before. *)
Woken(x) ==
    IF Contains(ready, x) \/ (x \in Ctl /\ watched[x] = Null) THEN ready ELSE Append(ready, x)

(* What poll says of an item. *)
Pollable(x) == IF x = Sock THEN backlog # <<>> ELSE conn[x].bytes > 0 \/ conn[x].hup

EventOf(x) ==
    IF x = Sock THEN [file |-> Sock, fd |-> Null, hup |-> FALSE]
    ELSE [file |-> x, fd |-> watched[x], hup |-> conn[x].hup]

IsOpen(c) == c \in held \/ \E fd \in Fd : fds[fd] = c

(* When the last copy of a descriptor is closed, the watch goes as well. *)
Released(c) ==
    /\ watched' = [watched EXCEPT ![c] = Null]
    /\ ready' = Sublist(ready, {i \in DOMAIN ready : ready[i] # c})

(* close(fd) by the server. *)
Close(fd) ==
    /\ fds' = [fds EXCEPT ![fd] = Null]
    /\ IF fds[fd] = Null \/ fds[fd] \in held THEN UNCHANGED <<watched, ready>>
       ELSE Released(fds[fd])

(* shutdown(fd, 2) and close(fd). *)
ShutdownAndClose(fd) ==
    LET c == fds[fd] IN
    /\ fds' = [fds EXCEPT ![fd] = Null]
    /\ conn' = IF c = Null THEN conn ELSE [conn EXCEPT ![c].hup = TRUE]
    /\ \/ c = Null /\ UNCHANGED <<watched, ready>>
       \/ c \in held /\ ready' = Woken(c) /\ UNCHANGED watched
       \/ c # Null /\ c \notin held /\ Released(c)

(* Any thread runs a command: the child has a copy of what is open. *)
Fork ==
    /\ held' = held \cup {fds[fd] : fd \in {d \in Fd : fds[d] # Null}}
    /\ UNCHANGED <<conn, backlog, fds, watched, ready, srv>>

ChildEnds(c) ==
    /\ c \in held
    /\ held' = held \ {c}
    /\ IF \E fd \in Fd : fds[fd] = c THEN UNCHANGED <<watched, ready>> ELSE Released(c)
    /\ UNCHANGED <<conn, backlog, fds, srv>>

-------------------------------------------------------------------------------
(* ndsctl.c *)

Backlog == 5   \* listen(sock, 5)

connect_to_server(c) ==
    /\ conn[c].st = "none" /\ srv.pc # "ended" /\ Len(backlog) <= Backlog
    /\ conn' = [conn EXCEPT ![c].st = "connected"]
    /\ backlog' = Append(backlog, c)
    /\ ready' = Woken(Sock)
    /\ UNCHANGED <<fds, held, watched, srv>>

(* One write sends it all.  snprintf cuts a long request off, and its line   *)
(* end with it; stop has no argument.                                        *)
send_request(c) ==
    /\ conn[c].st = "connected" /\ ~conn[c].hup
    /\ \E n \in 1..MaxBytes, line, stop \in BOOLEAN :
          /\ ~line => n = MaxBytes /\ ~stop
          /\ conn' = [conn EXCEPT ![c] = [st |-> "sent", bytes |-> n, line |-> line,
                                          stop |-> stop, hup |-> FALSE]]
    /\ ready' = Woken(c)
    /\ UNCHANGED <<backlog, fds, held, watched, srv>>

(* connect or write fails: nobody listens, or the connection was shut down. *)
ConnectFails(c) ==
    /\ conn[c].st = "none" /\ srv.pc = "ended"
    /\ conn' = [conn EXCEPT ![c].st = "end"]
    /\ UNCHANGED <<backlog, fds, held, watched, ready, srv>>

SendFails(c) ==
    /\ conn[c].st = "connected" /\ conn[c].hup
    /\ conn' = [conn EXCEPT ![c].st = "end"]
    /\ UNCHANGED <<backlog, fds, held, watched, ready, srv>>

(* It reads until the end of file: nobody has the other end open. *)
ServerClosed(c) ==
    srv.pc = "ended" \/ (~Contains(backlog, c) /\ (conn[c].hup \/ ~IsOpen(c)))

(* The rest of ndsctl_do: it prints what it got and closes the connection. *)
ndsctl_do(c) ==
    /\ conn[c].st = "sent" /\ ServerClosed(c)
    /\ conn' = [conn EXCEPT ![c].st = "end", ![c].hup = TRUE]
    /\ ready' = Woken(c)
    /\ UNCHANGED <<backlog, fds, held, watched, srv>>

(* ndsctl is interrupted. *)
Killed(c) ==
    /\ conn[c].st \in {"connected", "sent"}
    /\ conn' = [conn EXCEPT ![c].st = "end", ![c].hup = TRUE]
    /\ ready' = Woken(c)
    /\ UNCHANGED <<backlog, fds, held, watched, srv>>

-------------------------------------------------------------------------------
(* thread_ndsctl *)

epoll_wait ==
    /\ srv.pc = "wait"
    /\ LET live == Sublist(ready, {i \in DOMAIN ready : Pollable(ready[i])})
           n == IF Len(live) < srv.current_fd_count THEN Len(live) ELSE srv.current_fd_count
       IN /\ n > 0
          /\ srv' = [srv EXCEPT !.pc = "loop",
                                !.events = [i \in 1..n |-> EventOf(live[i])]]
          /\ ready' = SubSeq(live, n + 1, Len(live))
    /\ UNCHANGED <<conn, backlog, fds, held, watched>>

(* The loop goes on with the next event, or back to epoll_wait. *)
NextEvent(s) ==
    [s EXCEPT !.events = Tail(@), !.pc = IF Len(s.events) = 1 THEN "wait" ELSE "loop"]

Looking == srv.pc = "loop"
Current == Head(srv.events)

HangUp_CountsDown ==
    /\ Looking /\ Current.hup
    /\ ShutdownAndClose(Current.fd)
    /\ srv' = [NextEvent(srv) EXCEPT !.current_fd_count = @ - 1]
    /\ UNCHANGED <<backlog, held>>

HangUp_Breaks ==
    /\ Looking /\ Current.hup
    /\ ShutdownAndClose(Current.fd)
    /\ srv' = [srv EXCEPT !.pc = "wait", !.events = <<>>]
    /\ UNCHANGED <<backlog, held>>

(* EPOLLERR or EPOLLHUP: whatever the number refers to now is shut down and  *)
(* closed.  current_fd_count stays.                                          *)
HangUp ==
    /\ Looking /\ Current.hup
    /\ ShutdownAndClose(Current.fd)
    /\ srv' = NextEvent(srv)
    /\ UNCHANGED <<backlog, held>>

Accept_DrainsBacklog ==
    /\ Looking /\ Current.file = Sock /\ backlog # <<>>
    /\ \E fd \in Fd :
          /\ fds[fd] = Null
          /\ fds' = [fds EXCEPT ![fd] = Head(backlog)]
          /\ watched' = [watched EXCEPT ![Head(backlog)] = fd]
    /\ ready' = IF Pollable(Head(backlog)) THEN Append(ready, Head(backlog)) ELSE ready
    /\ backlog' = Tail(backlog)
    /\ srv' = [srv EXCEPT !.current_fd_count = @ + 1]
    /\ UNCHANGED <<conn, held>>

(* One connection per event; it is ready at once if something has arrived.   *)
(* The listening socket blocks: with nothing to accept the thread waits.     *)
Accept ==
    /\ Looking /\ Current.file = Sock /\ backlog # <<>>
    /\ \E fd \in Fd :
          /\ fds[fd] = Null
          /\ fds' = [fds EXCEPT ![fd] = Head(backlog)]
          /\ watched' = [watched EXCEPT ![Head(backlog)] = fd]
    /\ ready' = IF Pollable(Head(backlog)) THEN Append(ready, Head(backlog)) ELSE ready
    /\ backlog' = Tail(backlog)
    /\ srv' = [NextEvent(srv) EXCEPT !.current_fd_count = @ + 1]
    /\ UNCHANGED <<conn, held>>

(* accept or epoll_ctl fails, the thread ends. *)
AcceptFails ==
    /\ CallsFail /\ Looking /\ Current.file = Sock
    /\ srv' = [srv EXCEPT !.pc = "exit", !.events = <<>>]
    /\ UNCHANGED <<conn, backlog, fds, held, watched, ready>>

(* ndsctl_handler begins. *)
EnterHandler ==
    /\ Looking /\ Current.file # Sock /\ ~Current.hup
    /\ srv' = [srv EXCEPT !.pc = "read", !.read_bytes = 0, !.done = FALSE, !.request = Null]
    /\ UNCHANGED <<conn, backlog, fds, held, watched, ready>>

Reading_Signed == srv.pc = "read" /\ ~srv.done

(* `while (!done && read_bytes < sizeof(request) - 1)' compares unsigned. *)
Reading == srv.pc = "read" /\ ~srv.done /\ srv.read_bytes >= 0
Descr == fds[Current.fd]

(* Data: all of it is read. *)
ReadData ==
    /\ Reading /\ Descr # Null /\ conn[Descr].bytes > 0
    /\ srv' = [srv EXCEPT !.read_bytes = @ + conn[Descr].bytes, !.done = conn[Descr].line,
                          !.request = Descr]
    /\ conn' = [conn EXCEPT ![Descr].bytes = 0]
    /\ UNCHANGED <<backlog, fds, held, watched, ready>>

(* Nothing there (EAGAIN), or no such descriptor: read returns -1, which is  *)
(* added to read_bytes.                                                      *)
ReadNothing ==
    /\ Reading
    /\ Descr # Null => (conn[Descr].bytes = 0 /\ ~conn[Descr].hup)
    /\ srv' = [srv EXCEPT !.read_bytes = @ - 1]
    /\ UNCHANGED <<conn, backlog, fds, held, watched, ready>>

(* End of file: read returns 0, and the loop goes on for ever. *)
Spins == Reading /\ Descr # Null /\ conn[Descr].bytes = 0 /\ conn[Descr].hup

(* The request is acted on, complete or not, and the connection closed.      *)
(* fclose(NULL) when there is no such descriptor: a crash, or nothing.       *)
LeaveHandler ==
    /\ srv.pc = "read" /\ ~Reading
    /\ LET stop == srv.request # Null /\ conn[srv.request].stop IN
       \/ stop /\ srv' = [srv EXCEPT !.pc = "exit", !.events = <<>>]
       \/ ~stop /\ srv' = [NextEvent(srv) EXCEPT !.current_fd_count = @ - 1]
       \/ Descr = Null /\ srv' = [srv EXCEPT !.pc = "ended", !.events = <<>>]
    /\ Close(Current.fd)
    /\ UNCHANGED <<conn, backlog, held>>

(* main joins the thread and stops the daemon. *)
DaemonStops ==
    /\ srv.pc = "exit"
    /\ srv' = [srv EXCEPT !.pc = "ended"]
    /\ UNCHANGED <<conn, backlog, fds, held, watched, ready>>

-------------------------------------------------------------------------------
Serve == epoll_wait \/ HangUp \/ Accept \/ EnterHandler \/ ReadData
         \/ ReadNothing \/ LeaveHandler \/ DaemonStops

SockNext ==
    \/ Serve
    \/ AcceptFails
    \/ Fork
    \/ \E c \in Ctl :
          \/ connect_to_server(c) \/ ConnectFails(c) \/ send_request(c)
          \/ SendFails(c) \/ ndsctl_do(c) \/ Killed(c) \/ ChildEnds(c)

SockSpec == SockInit /\ [][SockNext]_sockVars

(* The thread is scheduled.  Nothing is assumed of ndsctl and of children. *)
SockFairSpec == SockSpec /\ WF_sockVars(Serve)

-------------------------------------------------------------------------------
(* Every variable keeps its type; the read loop of ndsctl_handler ends after *)
(* the first read that finds nothing, although it adds -1 to an index.       *)
SockTypeOK ==
    /\ conn \in [Ctl -> Conn]
    /\ backlog \in Seq(Ctl)
    /\ fds \in [Fd -> Ctl \cup {Null}]
    /\ held \subseteq Ctl
    /\ watched \in [Ctl -> Fd \cup {Null}]
    /\ ready \in Seq(Ctl \cup {Sock})
    /\ srv \in Server

(* The listening socket is blocking.  However connections and events are     *)
(* interleaved, the thread calls accept only when one is waiting, so that    *)
(* the commands of the others are not held up.                               *)
AcceptNeverBlocks ==
    (Looking /\ Current.file = Sock) => backlog # <<>>

(* current_fd_count covers the listening socket and all open connections,    *)
(* although hang-ups do not change it and may hit the descriptor of another  *)
(* connection: epoll_wait always has room for an event and is never called   *)
(* with a size it refuses, which would end the thread.                       *)
CountCoversConnections ==
    srv.pc \in {"wait", "loop", "read"} =>
       srv.current_fd_count >= 1 + Cardinality({fd \in Fd : fds[fd] # Null})

(* A request that has arrived on an accepted connection is dealt with in the *)
(* end: the connection gets closed, whatever the other runs of ndsctl do,    *)
(* unless the thread has ended or spins in the read loop.                    *)
RequestEnds ==
    \A c \in Ctl :
       (\E fd \in Fd : fds[fd] = c /\ conn[c].bytes > 0)
          ~> ((\A fd \in Fd : fds[fd] # c) \/ Spins \/ srv.pc = "ended")
===============================================================================
