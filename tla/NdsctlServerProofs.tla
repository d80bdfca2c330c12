-------------------------- MODULE NdsctlServerProofs --------------------------
(***************************************************************************)
(* Proofs about the control socket (NdsctlServer), for any number of runs  *)
(* of ndsctl, descriptors and children.                                    *)
(*                                                                         *)
(* current_fd_count goes down once for every event that enters the         *)
(* handler, be the descriptor of the event still that of the connection or *)
(* not.  So it has to cover, beside the open connections, those whose      *)
(* descriptor is closed and which may still enter the handler: Credit.     *)
(***************************************************************************)
EXTENDS NdsctlServer, FiniteSetTheorems, SequenceTheorems, WellFoundedInduction, TLAPS

-------------------------------------------------------------------------------
(* The inductive invariant. *)

Queued(x) == \E i \in DOMAIN ready : ready[i] = x
Waiting(c) == \E i \in DOMAIN backlog : backlog[i] = c
Listed(x) == \E i \in DOMAIN srv.events : srv.events[i].file = x
Pending(c) == \E i \in DOMAIN srv.events : srv.events[i].file = c /\ ~srv.events[i].hup

Distinct(s) == \A i, j \in DOMAIN s : s[i] = s[j] => i = j

(* A descriptor refers to the connection that is watched under its number. *)
DescriptorsWatched ==
    \A fd \in Fd : fds[fd] # Null => watched[fds[fd]] = fd

(* A connection is accepted once: before, nothing is known of it. *)
AcceptedOnce ==
    /\ Distinct(backlog)
    /\ \A c \in Ctl : Waiting(c) => watched[c] = Null /\ ~Listed(c)
    /\ \A c \in Ctl : conn[c].st = "none" => watched[c] = Null /\ ~Listed(c) /\ ~Waiting(c)

ReadyWatched ==
    /\ Distinct(ready)
    /\ \A c \in Ctl : Queued(c) => watched[c] # Null

(* An event names the number its connection is, or was last, watched under.  *)
(* A connection sends once: one that is to be handled is woken again only by *)
(* a hang-up.                                                                *)
EventOK(e) ==
    /\ e.file = Sock => ~e.hup /\ backlog # <<>>
    /\ e.file # Sock =>
          /\ e.fd \in Fd /\ watched[e.file] \in {e.fd, Null}
          /\ ~e.hup => /\ conn[e.file].st \notin {"none", "connected"}
                       /\ Queued(e.file) => conn[e.file].hup

EventsOK ==
    /\ \A i, j \in DOMAIN srv.events : srv.events[i].file = srv.events[j].file => i = j
    /\ \A i \in DOMAIN srv.events : EventOK(srv.events[i])
    /\ srv.events = <<>> <=> srv.pc \in {"wait", "exit", "ended"}

(* What the handler has read was all there is: bytes are sent once. *)
HandlerOK ==
    /\ \A c \in Ctl : conn[c].bytes > 0 => conn[c].st \in {"sent", "end"}
    /\ srv.pc = "read" =>
          /\ Current.file # Sock /\ ~Current.hup
          /\ srv.read_bytes > 0 =>
                Descr # Null /\ conn[Descr].bytes = 0 /\ conn[Descr].st \in {"sent", "end"}

(* c may yet have an event that is not a hang-up. *)
MayFire(c) == ~conn[c].hup /\ (conn[c].st = "connected" \/ Queued(c))

Credit(c) ==
    \/ Pending(c)
    \/ watched[c] # Null /\ (fds[watched[c]] = c \/ MayFire(c))

CountCoversCredit ==
    /\ IsFiniteSet({c \in Ctl : Credit(c)})
    /\ srv.pc \in {"wait", "loop", "read"} =>
          srv.current_fd_count >= 1 + Cardinality({c \in Ctl : Credit(c)})

SockInv ==
    /\ SockTypeOK
    /\ DescriptorsWatched
    /\ AcceptedOnce
    /\ ReadyWatched
    /\ EventsOK
    /\ HandlerOK
    /\ CountCoversCredit
-------------------------------------------------------------------------------
(* Sublists of the ready list. *)

LEMMA LeastNumber ==
    ASSUME NEW T \in SUBSET Nat, T # {}
    PROVE  \E x \in T : \A y \in T : x <= y
<1>1. \E x \in T : \A y \in T : ~(<<y, x>> \in OpToRel(<, Nat))
  BY NatLessThanWellFounded, WFMin
<1>2. PICK x \in T : \A y \in T : ~(<<y, x>> \in OpToRel(<, Nat))
  BY <1>1
<1>3. \A y \in T : ~(y < x)
  BY <1>2 DEF OpToRel
<1>4. QED
  BY <1>3

(* A finite set of numbers can be listed in order.  By contradiction, with a *)
(* smallest set that cannot: leave out its greatest element.                 *)
Increasing(f) == \A a, b \in DOMAIN f : a < b => f[a] < f[b]

LEMMA Listable ==
    ASSUME NEW n \in Nat, NEW I \in SUBSET (1..n)
    PROVE  /\ IsFiniteSet(I) /\ Cardinality(I) \in Nat
           /\ \E f \in [1..Cardinality(I) -> I] : Increasing(f)
<1> DEFINE Can(J) == \E f \in [1..Cardinality(J) -> J] : Increasing(f)
           T == {Cardinality(J) : J \in {K \in SUBSET (1..n) : ~Can(K)}}
<1>1. \A J \in SUBSET (1..n) : IsFiniteSet(J) /\ Cardinality(J) \in Nat
  <2>1. IsFiniteSet(1..n)
    BY FS_Interval, n \in Int, 1 \in Int
  <2>2. QED
    BY <2>1, FS_Subset, FS_CardinalityType
<1>2. SUFFICES ASSUME T # {} PROVE FALSE
  BY <1>1
<1>3. T \in SUBSET Nat
  BY <1>1
<1>4. PICK t \in T : \A u \in T : t <= u
  BY <1>2, <1>3, LeastNumber
<1>5. PICK J \in SUBSET (1..n) : ~Can(J) /\ Cardinality(J) = t
  BY <1>4
<1>6. J # {}
  <2>1. SUFFICES ASSUME J = {} PROVE FALSE
    OBVIOUS
  <2>2. Cardinality(J) = 0
    BY <2>1, FS_EmptySet
  <2>3. <<>> \in [1..Cardinality(J) -> J] /\ Increasing(<<>>)
    BY <2>2 DEF Increasing
  <2>4. QED
    BY <2>3, <1>5
<1>7. PICK m \in J : \A k \in J : k <= m
  <2> DEFINE U == {n - k : k \in J}
  <2>1. U \in SUBSET Nat /\ U # {}
    <3>1. \A k \in J : n - k \in Nat
      BY <1>5
    <3>2. QED
      BY <3>1, <1>6
  <2>2. PICK u \in U : \A v \in U : u <= v
    BY <2>1, LeastNumber
  <2>3. PICK m \in J : u = n - m
    BY <2>2
  <2>4. \A k \in J : k <= m
    <3>1. SUFFICES ASSUME NEW k \in J PROVE k <= m
      OBVIOUS
    <3>2. n - m <= n - k
      BY <2>2, <2>3
    <3>3. QED
      BY <3>2
  <2>5. QED
    BY <2>4
<1>8. J \ {m} \in SUBSET (1..n) /\ Cardinality(J \ {m}) = Cardinality(J) - 1
  BY <1>1, <1>7, FS_RemoveElement
<1>9. Can(J \ {m})
  <2>1. SUFFICES ASSUME ~Can(J \ {m}) PROVE FALSE
    OBVIOUS
  <2>2. Cardinality(J \ {m}) \in T
    BY <1>8, <2>1
  <2>3. QED
    <3>1. Cardinality(J) <= Cardinality(J \ {m})
      BY <2>2, <1>4, <1>5
    <3>2. QED
      BY <3>1, <1>8, <1>1
<1>10. PICK f \in [1..(Cardinality(J) - 1) -> J \ {m}] : Increasing(f)
  BY <1>8, <1>9
<1> DEFINE g == [k \in 1..Cardinality(J) |-> IF k = Cardinality(J) THEN m ELSE f[k]]
<1>11. g \in [1..Cardinality(J) -> J]
  BY <1>1, <1>10, <1>7
<1>12. Increasing(g)
  <2>1. SUFFICES ASSUME NEW a \in 1..Cardinality(J), NEW b \in 1..Cardinality(J), a < b
                 PROVE  g[a] < g[b]
    BY DEF Increasing
  <2>2. a \in 1..(Cardinality(J) - 1) /\ g[a] = f[a] /\ f[a] \in J \ {m}
    BY <2>1, <1>1, <1>10
  <2>3. CASE b = Cardinality(J)
    <3>1. g[b] = m /\ f[a] <= m /\ f[a] # m
      BY <2>2, <2>3, <1>7
    <3>2. QED
      BY <3>1, <2>2, <1>5, <1>7
  <2>4. CASE b # Cardinality(J)
    <3>1. b \in 1..(Cardinality(J) - 1) /\ g[b] = f[b]
      BY <2>4, <1>1
    <3>2. QED
      BY <3>1, <2>1, <2>2, <1>10 DEF Increasing
  <2>5. QED
    BY <2>3, <2>4
<1>13. QED
  BY <1>5, <1>11, <1>12

(* A sublist has elements of the list only, and no more places than it. *)
LEMMA SublistOK ==
    ASSUME NEW S, NEW s \in Seq(S), NEW I \in SUBSET (DOMAIN s)
    PROVE  LET t == Sublist(s, I) IN
           /\ t \in Seq(S)
           /\ \A k \in DOMAIN t : \E i \in I : t[k] = s[i]
           /\ Distinct(s) => Distinct(t)
<1> DEFINE N == Cardinality(I)
           place == CHOOSE f \in [1..N -> I] : \A a, b \in DOMAIN f : a < b => f[a] < f[b]
           t == [k \in 1..N |-> s[place[k]]]
<1>1. I \in SUBSET (1..Len(s)) /\ Len(s) \in Nat /\ s \in [1..Len(s) -> S]
  OBVIOUS
<1>2. N \in Nat /\ \E f \in [1..N -> I] : Increasing(f)
  BY <1>1, Listable
<1>3. place \in [1..N -> I] /\ \A a, b \in 1..N : a < b => place[a] < place[b]
  BY <1>2 DEF Increasing
<1>4. Sublist(s, I) = t
  BY DEF Sublist
<1> HIDE DEF place
<1>5. t \in Seq(S) /\ DOMAIN t = 1..N
  <2>1. t \in [1..N -> S]
    BY <1>1, <1>3
  <2>2. QED
    BY <2>1, <1>2
<1>6. \A k \in DOMAIN t : \E i \in I : t[k] = s[i]
  BY <1>3, <1>5
<1>7. ASSUME Distinct(s) PROVE Distinct(t)
  <2>1. SUFFICES ASSUME NEW a \in 1..N, NEW b \in 1..N, t[a] = t[b] PROVE a = b
    BY <1>5 DEF Distinct
  <2>2. place[a] = place[b]
    BY <1>3, <1>7, <2>1, <1>1 DEF Distinct
  <2>3. place[a] \in Int /\ ~(a < b) /\ ~(b < a)
    BY <1>1, <1>3, <2>2
  <2>4. QED
    BY <2>3, <1>2
<1>8. QED
  BY <1>4, <1>5, <1>6, <1>7
-------------------------------------------------------------------------------
(* What the operations of the kernel do to the ready list. *)

(* The list keeps its type and order, and only an element of X is new. *)
ReadyStep(X) ==
    /\ ready' \in Seq(Ctl \cup {Sock})
    /\ Distinct(ready) => Distinct(ready')
    /\ \A x \in Ctl \cup {Sock} : Queued(x)' => Queued(x) \/ x \in X

LEMMA WokenReady ==
    ASSUME SockTypeOK, NEW x \in Ctl \cup {Sock}, ready' = Woken(x)
    PROVE  ReadyStep({y \in {x} : y \in Ctl => watched[y] # Null})
<1>1. ready \in Seq(Ctl \cup {Sock})
  BY DEF SockTypeOK
<1>2. CASE ready' = ready
  BY <1>1, <1>2 DEF ReadyStep, Queued
<1>3. CASE ready' = Append(ready, x) /\ ~Contains(ready, x) /\ (x \in Ctl => watched[x] # Null)
  <2>1. /\ ready' \in Seq(Ctl \cup {Sock}) /\ DOMAIN ready' = 1..(Len(ready) + 1)
        /\ \A i \in DOMAIN ready : ready'[i] = ready[i]
        /\ ready'[Len(ready) + 1] = x
    BY <1>1, <1>3
  <2>2. \A i \in DOMAIN ready : ready[i] # x
    BY <1>1, <1>3 DEF Contains
  <2>3. \A i \in DOMAIN ready' : i \in DOMAIN ready \/ i = Len(ready) + 1
    BY <1>1, <2>1
  <2>4. Distinct(ready) => Distinct(ready')
    BY <2>1, <2>2, <2>3 DEF Distinct
  <2>5. QED
    BY <1>3, <2>1, <2>3, <2>4 DEF ReadyStep, Queued
<1>4. QED
  BY <1>2, <1>3 DEF Woken

LEMMA ReleasedReady ==
    ASSUME SockTypeOK, NEW c \in Ctl, Released(c)
    PROVE  /\ ReadyStep({}) /\ ~Queued(c)'
           /\ watched' = [watched EXCEPT ![c] = Null]
<1> DEFINE I == {i \in DOMAIN ready : ready[i] # c}
<1>1. /\ ready \in Seq(Ctl \cup {Sock}) /\ ready' = Sublist(ready, I)
      /\ I \in SUBSET (DOMAIN ready) /\ \A i \in I : ready[i] # c
  BY DEF SockTypeOK, Released
<1> HIDE DEF I
<1>2. /\ ready' \in Seq(Ctl \cup {Sock})
      /\ \A k \in DOMAIN ready' : \E i \in I : ready'[k] = ready[i]
      /\ Distinct(ready) => Distinct(ready')
  BY <1>1, SublistOK
<1>3. \A x : Queued(x)' => Queued(x) /\ x # c
  BY <1>1, <1>2 DEF Queued
<1>4. watched' = [watched EXCEPT ![c] = Null]
  BY DEF Released
<1>5. QED
  BY <1>2, <1>3, <1>4 DEF ReadyStep

-------------------------------------------------------------------------------
(* The events still to be looked at. *)

(* events are some of those of before, in pc if there are any. *)
EventsStep ==
    /\ srv'.events \in Seq(Event)
    /\ \E f \in [DOMAIN srv'.events -> DOMAIN srv.events] :
          /\ Distinct(f)
          /\ \A i \in DOMAIN srv'.events : srv'.events[i] = srv.events[f[i]]

LEMMA TailEvents ==
    ASSUME SockTypeOK, srv.events # <<>>, srv'.events = Tail(srv.events)
    PROVE  /\ EventsStep
           /\ \A i \in DOMAIN srv'.events :
                 i + 1 \in DOMAIN srv.events /\ srv'.events[i] = srv.events[i + 1]
           /\ srv'.events = <<>> <=> Len(srv.events) = 1
           /\ 1 \in DOMAIN srv.events /\ Current = srv.events[1] /\ Current \in Event
<1>1. srv.events \in Seq(Event)
  BY DEF SockTypeOK, Server
<1>2. /\ srv'.events \in Seq(Event) /\ Len(srv'.events) = Len(srv.events) - 1
      /\ DOMAIN srv'.events = 1..(Len(srv.events) - 1)
      /\ Len(srv.events) \in Nat \ {0}
      /\ \A i \in DOMAIN srv'.events :
            i + 1 \in DOMAIN srv.events /\ srv'.events[i] = srv.events[i + 1]
  BY <1>1
<1>3. EventsStep
  <2> DEFINE g == [i \in DOMAIN srv'.events |-> i + 1]
  <2>1. g \in [DOMAIN srv'.events -> DOMAIN srv.events] /\ Distinct(g)
    BY <1>2 DEF Distinct
  <2>2. QED
    BY <2>1, <1>2 DEF EventsStep
<1>4. 1 \in DOMAIN srv.events /\ Current = srv.events[1] /\ Current \in Event
  BY <1>1 DEF Current
<1>5. srv'.events = <<>> <=> Len(srv.events) = 1
  <2>1. srv'.events = <<>> <=> Len(srv'.events) = 0
    BY <1>2, EmptySeq
  <2>2. QED
    BY <2>1, <1>2
<1>6. QED
  BY <1>2, <1>3, <1>4, <1>5
-------------------------------------------------------------------------------
(* Steps of ndsctl. *)

LEMMA CreditStep ==
    ASSUME SockTypeOK, CountCoversCredit,
           \A c \in Ctl : Credit(c)' => Credit(c),
           srv'.pc \in {"wait", "loop", "read"} =>
              /\ srv.pc \in {"wait", "loop", "read"}
              /\ srv'.current_fd_count = srv.current_fd_count
    PROVE  CountCoversCredit'
<1> DEFINE C == {c \in Ctl : Credit(c)}
           D == {c \in Ctl : Credit(c)'}
<1>1. IsFiniteSet(C) /\ D \in SUBSET C
  BY DEF CountCoversCredit
<1>2. IsFiniteSet(D) /\ Cardinality(D) <= Cardinality(C)
  BY <1>1, FS_Subset
<1>3. Cardinality(D) \in Nat /\ Cardinality(C) \in Nat
  BY <1>1, <1>2, FS_CardinalityType
<1>4. srv.current_fd_count \in Int
  BY DEF SockTypeOK, Server
<1>5. srv.pc \in {"wait", "loop", "read"} => srv.current_fd_count >= 1 + Cardinality(C)
  BY DEF CountCoversCredit
<1> HIDE DEF C
<1>6. srv'.pc \in {"wait", "loop", "read"} => srv'.current_fd_count >= 1 + Cardinality(D)
  BY <1>2, <1>3, <1>4, <1>5
<1>7. QED
  BY <1>2, <1>6 DEF CountCoversCredit

(* What a run of ndsctl may do to its connection: it sends once, and what    *)
(* was shut down stays so.                                                   *)
ConnMove(c, r) ==
    /\ r.st # "none"
    /\ conn[c].hup => r.hup
    /\ r.st = "connected" => conn[c].st = "none"
    /\ r.bytes > 0 => r.st \in {"sent", "end"}
    /\ conn[c].st \in {"sent", "end"} => r.bytes = conn[c].bytes /\ r.st \in {"sent", "end"}

LEMMA ClientStep ==
    ASSUME SockInv, NEW c \in Ctl, NEW r \in Conn, ConnMove(c, r),
           conn' = [conn EXCEPT ![c] = r],
           UNCHANGED <<fds, held, watched, srv>>,
           \/ UNCHANGED backlog
           \/ conn[c].st = "none" /\ backlog' = Append(backlog, c),
           NEW X, ReadyStep(X),
           c \in X => watched[c] # Null /\ (r.hup \/ (conn[c].st = "connected" /\ ~conn[c].hup)),
           X \subseteq {c, Sock}
    PROVE  SockInv'
<1> USE CtlAssumption DEF SockInv
<1>1. /\ \A d \in Ctl : d # c => conn'[d] = conn[d]
      /\ conn'[c] = r /\ conn \in [Ctl -> Conn]
  BY DEF SockTypeOK
<1>2. /\ backlog \in Seq(Ctl) /\ backlog' \in Seq(Ctl)
      /\ backlog # <<>> => backlog' # <<>>
      /\ \A d \in Ctl : Waiting(d)' => Waiting(d) \/ (d = c /\ conn[c].st = "none")
      /\ Distinct(backlog)'
  <2>1. backlog \in Seq(Ctl) /\ Distinct(backlog)
    BY DEF SockTypeOK, AcceptedOnce
  <2>2. CASE UNCHANGED backlog
    BY <2>1, <2>2 DEF Waiting, Distinct
  <2>3. CASE conn[c].st = "none" /\ backlog' = Append(backlog, c)
    <3>1. /\ backlog' \in Seq(Ctl) /\ DOMAIN backlog' = 1..(Len(backlog) + 1)
          /\ \A i \in DOMAIN backlog : backlog'[i] = backlog[i]
          /\ backlog'[Len(backlog) + 1] = c
          /\ backlog' # <<>>
      BY <2>1, <2>3
    <3>2. \A i \in DOMAIN backlog' : i \in DOMAIN backlog \/ i = Len(backlog) + 1
      BY <2>1, <3>1
    <3>3. \A i \in DOMAIN backlog : backlog[i] # c
      BY <2>3 DEF AcceptedOnce, Waiting
    <3>4. QED
      BY <2>1, <2>3, <3>1, <3>2, <3>3 DEF Waiting, Distinct
  <2>4. QED
    BY <2>2, <2>3
<1>3. SockTypeOK'
  BY <1>2 DEF SockTypeOK, ReadyStep
<1>4. DescriptorsWatched'
  BY DEF DescriptorsWatched
<1>5. \A d : (Listed(d)' <=> Listed(d)) /\ (Pending(d)' <=> Pending(d))
  BY DEF Listed, Pending
<1>6. AcceptedOnce'
  BY <1>1, <1>2, <1>5 DEF AcceptedOnce, ConnMove
<1>7. ReadyWatched'
  BY DEF ReadyWatched, ReadyStep
<1>8. EventsOK'
  <2>1. ASSUME NEW i \in DOMAIN srv.events PROVE EventOK(srv.events[i])'
    <3> DEFINE e == srv.events[i]
    <3>1. e \in Event /\ EventOK(e) /\ e' = e
      BY <2>1 DEF EventsOK, SockTypeOK, Server
    <3>2. CASE e.file = Sock
      BY <3>1, <3>2, <1>2 DEF EventOK
    <3>3. CASE e.file # Sock
      <4>1. e.file \in Ctl /\ e.fd \in Fd /\ watched'[e.file] \in {e.fd, Null}
        BY <3>1, <3>3 DEF EventOK, Event
      <4>2. ASSUME ~e.hup
            PROVE  /\ conn'[e.file].st \notin {"none", "connected"}
                   /\ Queued(e.file)' => conn'[e.file].hup
        <5>1. /\ conn[e.file].st \notin {"none", "connected"}
              /\ Queued(e.file) => conn[e.file].hup
          BY <3>1, <3>3, <4>2 DEF EventOK
        <5>2. QED
          BY <5>1, <4>1, <1>1 DEF ConnMove, ReadyStep, Conn
      <4>3. QED
        BY <4>1, <4>2, <3>1, <3>3 DEF EventOK
    <3>4. QED
      BY <3>2, <3>3
  <2>2. QED
    BY <2>1 DEF EventsOK
<1>9. HandlerOK'
  <2>1. Descr' = Descr /\ Current' = Current
    BY DEF Descr, Current
  <2>2. QED
    BY <2>1, <1>1 DEF HandlerOK, ConnMove
<1>10. CountCoversCredit'
  <2>1. ASSUME NEW d \in Ctl, Credit(d)' PROVE Credit(d)
    <3>1. CASE d # c
      <4>1. MayFire(d)' => MayFire(d)
        BY <3>1, <1>1 DEF MayFire, ReadyStep
      <4>2. QED
        BY <2>1, <4>1, <1>5 DEF Credit
    <3>2. CASE d = c
      <4>1. watched[c] # Null /\ MayFire(c)' => MayFire(c)
        BY <1>1 DEF MayFire, ReadyStep, ConnMove, AcceptedOnce
      <4>2. QED
        BY <2>1, <3>2, <4>1, <1>5 DEF Credit
    <3>3. QED
      BY <3>1, <3>2
  <2>2. QED
    BY <2>1, CreditStep
<1>11. QED
  BY <1>3, <1>4, <1>6, <1>7, <1>8, <1>9, <1>10
LEMMA ConnectKeeps ==
    ASSUME SockInv, NEW c \in Ctl, connect_to_server(c)
    PROVE  SockInv'
<1> DEFINE r == [conn[c] EXCEPT !.st = "connected"]
<1>1. conn[c] \in Conn /\ conn[c].st = "none" /\ SockTypeOK /\ HandlerOK
  BY DEF SockInv, SockTypeOK, connect_to_server
<1>2. r \in Conn /\ ConnMove(c, r) /\ conn' = [conn EXCEPT ![c] = r]
  <2>1. ~(conn[c].bytes > 0)
    BY <1>1 DEF HandlerOK
  <2>2. QED
    BY <1>1, <2>1 DEF ConnMove, Conn, connect_to_server
<1>3. ReadyStep({y \in {Sock} : y \in Ctl => watched[y] # Null})
  BY <1>1, WokenReady DEF connect_to_server
<1>4. {y \in {Sock} : y \in Ctl => watched[y] # Null} = {Sock}
  BY CtlAssumption
<1>5. ReadyStep({Sock}) /\ c \notin {Sock}
  BY <1>3, <1>4, CtlAssumption
<1>6. QED
  BY <1>1, <1>2, <1>5, ClientStep DEF connect_to_server

LEMMA SendKeeps ==
    ASSUME SockInv, NEW c \in Ctl, send_request(c)
    PROVE  SockInv'
<1>1. /\ conn[c] \in Conn /\ conn[c].st = "connected" /\ ~conn[c].hup
      /\ SockTypeOK /\ UNCHANGED <<backlog, fds, held, watched, srv>>
  BY DEF SockInv, SockTypeOK, send_request
<1>2. PICK n \in 1..MaxBytes, line \in BOOLEAN, stop \in BOOLEAN :
        conn' = [conn EXCEPT ![c] = [st |-> "sent", bytes |-> n, line |-> line,
                                     stop |-> stop, hup |-> FALSE]]
  BY DEF send_request
<1> DEFINE r == [st |-> "sent", bytes |-> n, line |-> line, stop |-> stop, hup |-> FALSE]
           X == {y \in {c} : y \in Ctl => watched[y] # Null}
<1>3. r \in Conn /\ ConnMove(c, r)
  BY <1>1, MaxBytesAssumption DEF ConnMove, Conn
<1>4. ReadyStep(X) /\ X \subseteq {c, Sock} /\ (c \in X => watched[c] # Null)
  BY <1>1, WokenReady DEF send_request
<1> HIDE DEF X
<1>5. QED
  BY <1>1, <1>2, <1>3, <1>4, ClientStep

(* connect or write fails. *)
LEMMA FailsKeeps ==
    ASSUME SockInv, NEW c \in Ctl, ConnectFails(c) \/ SendFails(c)
    PROVE  SockInv'
<1> DEFINE r == [conn[c] EXCEPT !.st = "end"]
<1>1. /\ conn[c] \in Conn /\ conn[c].st \in {"none", "connected"}
      /\ SockTypeOK /\ UNCHANGED <<backlog, fds, held, watched, ready, srv>>
  BY DEF SockInv, SockTypeOK, ConnectFails, SendFails
<1>2. r \in Conn /\ ConnMove(c, r) /\ conn' = [conn EXCEPT ![c] = r]
  BY <1>1 DEF ConnMove, Conn, ConnectFails, SendFails
<1>3. ReadyStep({})
  BY <1>1 DEF ReadyStep, SockTypeOK, Queued
<1>4. QED
  BY <1>1, <1>2, <1>3, ClientStep

(* ndsctl closes its end, done or interrupted. *)
LEMMA EndKeeps ==
    ASSUME SockInv, NEW c \in Ctl, ndsctl_do(c) \/ Killed(c)
    PROVE  SockInv'
<1> DEFINE r == [conn[c] EXCEPT !.st = "end", !.hup = TRUE]
           X == {y \in {c} : y \in Ctl => watched[y] # Null}
<1>1. /\ conn[c] \in Conn /\ conn[c].st \in {"connected", "sent"}
      /\ SockTypeOK /\ UNCHANGED <<backlog, fds, held, watched, srv>>
  BY DEF SockInv, SockTypeOK, ndsctl_do, Killed
<1>2. r \in Conn /\ ConnMove(c, r) /\ conn' = [conn EXCEPT ![c] = r] /\ r.hup
  BY <1>1 DEF ConnMove, Conn, ndsctl_do, Killed
<1>3. ReadyStep(X) /\ X \subseteq {c, Sock} /\ (c \in X => watched[c] # Null)
  BY <1>1, WokenReady DEF ndsctl_do, Killed
<1> HIDE DEF X
<1>4. QED
  BY <1>1, <1>2, <1>3, ClientStep
-------------------------------------------------------------------------------
(* Steps of the server that only take away: descriptors and watches go,      *)
(* connections are shut down, bytes are read, events are done with.          *)

Shut ==
    /\ conn' \in [Ctl -> Conn]
    /\ \A d \in Ctl : /\ conn'[d].st = conn[d].st
                      /\ conn[d].hup => conn'[d].hup
                      /\ conn'[d].bytes \in {0, conn[d].bytes}

Closed ==
    /\ fds' \in [Fd -> Ctl \cup {Null}]
    /\ watched' \in [Ctl -> Fd \cup {Null}]
    /\ \A fd \in Fd : /\ fds'[fd] \in {fds[fd], Null}
                      /\ fds'[fd] # Null => watched'[fds[fd]] = watched[fds[fd]]
    /\ \A d \in Ctl : /\ watched'[d] \in {watched[d], Null}
                      /\ watched'[d] = Null => watched[d] = Null \/ ~Queued(d)'
    /\ ReadyStep({d \in Ctl : watched'[d] # Null /\ conn'[d].hup})

EventsLeft ==
    /\ srv' \in Server
    /\ EventsStep
    /\ srv'.events = <<>> <=> srv'.pc \in {"wait", "exit", "ended"}

LEMMA ServerStep ==
    ASSUME SockInv, Shut, Closed, EventsLeft, UNCHANGED backlog, held' \subseteq Ctl
    PROVE  /\ SockTypeOK' /\ DescriptorsWatched' /\ AcceptedOnce' /\ ReadyWatched' /\ EventsOK'
           /\ \A c \in Ctl : Credit(c)' => Credit(c)
           /\ \A c \in Ctl : conn'[c].bytes > 0 => conn'[c].st \in {"sent", "end"}
<1> USE CtlAssumption DEF SockInv
<1>1. SockTypeOK'
  BY DEF SockTypeOK, Shut, Closed, ReadyStep, EventsLeft
<1>2. DescriptorsWatched'
  BY DEF DescriptorsWatched, Closed, SockTypeOK
<1>3. PICK f \in [DOMAIN srv'.events -> DOMAIN srv.events] :
         /\ Distinct(f)
         /\ \A i \in DOMAIN srv'.events : srv'.events[i] = srv.events[f[i]]
  BY DEF EventsLeft, EventsStep
<1>4. \A d : (Listed(d)' => Listed(d)) /\ (Pending(d)' => Pending(d))
  BY <1>3 DEF Listed, Pending
<1>5. AcceptedOnce'
  BY <1>4 DEF AcceptedOnce, Shut, Closed, Waiting
<1>6. ReadyWatched'
  <2>1. Distinct(ready)'
    BY DEF ReadyWatched, Closed, ReadyStep, Distinct
  <2>2. ASSUME NEW d \in Ctl, Queued(d)' PROVE watched'[d] # Null
    <3>1. CASE Queued(d)
      BY <2>2, <3>1 DEF ReadyWatched, Closed
    <3>2. CASE ~Queued(d)
      BY <2>2, <3>2 DEF Closed, ReadyStep
    <3>3. QED
      BY <3>1, <3>2
  <2>3. QED
    BY <2>1, <2>2 DEF ReadyWatched
<1>7. EventsOK'
  <2>1. ASSUME NEW i \in DOMAIN srv'.events PROVE EventOK(srv.events[i])'
    <3>1. PICK e \in Event : e = srv'.events[i] /\ e = srv.events[f[i]]
      <4>1. srv'.events[i] \in Event
        BY <2>1 DEF EventsLeft, EventsStep
      <4>2. QED
        BY <4>1, <2>1, <1>3
    <3>2. EventOK(e)
      BY <3>1, <1>3, <2>1 DEF EventsOK
    <3>3. ASSUME e.file = Sock PROVE EventOK(e)'
      BY <3>2, <3>3 DEF EventOK
    <3>4. ASSUME e.file # Sock PROVE EventOK(e)'
      <4>1. e.file \in Ctl /\ e.fd \in Fd /\ watched[e.file] \in {e.fd, Null}
        BY <3>2, <3>4 DEF EventOK, Event
      <4>2. watched'[e.file] \in {e.fd, Null}
        BY <4>1 DEF Closed
      <4>3. ASSUME ~e.hup
            PROVE  /\ conn'[e.file].st \notin {"none", "connected"}
                   /\ Queued(e.file)' => conn'[e.file].hup
        <5>1. /\ conn[e.file].st \notin {"none", "connected"}
              /\ Queued(e.file) => conn[e.file].hup
          BY <3>2, <3>4, <4>3 DEF EventOK
        <5>2. QED
          BY <5>1, <4>1 DEF Shut, Closed, ReadyStep
      <4>4. QED
        BY <4>1, <4>2, <4>3, <3>4 DEF EventOK
    <3>5. QED
      BY <3>1, <3>3, <3>4
  <2>2. QED
    BY <2>1, <1>3 DEF EventsOK, EventsLeft, Distinct
<1>8. ASSUME NEW c \in Ctl, Credit(c)' PROVE Credit(c)
  <2>1. MayFire(c)' => MayFire(c)
    BY DEF MayFire, Shut, Closed, ReadyStep, SockTypeOK, Conn
  <2>2. watched'[c] # Null => watched'[c] = watched[c] /\ watched[c] \in Fd
    BY DEF Closed, SockTypeOK
  <2>3. CASE Pending(c)'
    BY <2>3, <1>4 DEF Credit
  <2>4. CASE watched'[c] # Null /\ MayFire(c)'
    BY <2>4, <2>1, <2>2 DEF Credit
  <2>5. CASE watched'[c] # Null /\ fds'[watched'[c]] = c
    <3>1. fds[watched[c]] = c
      BY <2>5, <2>2 DEF Closed
    <3>2. QED
      BY <3>1, <2>5, <2>2 DEF Credit
  <2>6. QED
    BY <1>8, <2>3, <2>4, <2>5 DEF Credit
<1>9. \A c \in Ctl : conn'[c].bytes > 0 => conn'[c].st \in {"sent", "end"}
  BY DEF HandlerOK, Shut
<1>10. QED
  BY <1>1, <1>2, <1>5, <1>6, <1>7, <1>8, <1>9
LEMMA EventsRest ==
    ASSUME SockInv, srv' \in Server,
           \/ /\ srv.pc \in {"loop", "read"}
              /\ srv'.events = Tail(srv.events)
              /\ srv'.pc = IF Len(srv.events) = 1 THEN "wait" ELSE "loop"
           \/ srv'.events = <<>> /\ srv'.pc \in {"exit", "ended"}
           \/ /\ srv'.events = srv.events
              /\ srv'.pc = srv.pc \/ {srv.pc, srv'.pc} \subseteq {"loop", "read"}
    PROVE  EventsLeft
<1>1. /\ SockTypeOK /\ srv.events \in Seq(Event)
      /\ srv.events = <<>> <=> srv.pc \in {"wait", "exit", "ended"}
  BY DEF SockInv, SockTypeOK, EventsOK, Server
<1>2. CASE /\ srv.pc \in {"loop", "read"}
           /\ srv'.events = Tail(srv.events)
           /\ srv'.pc = IF Len(srv.events) = 1 THEN "wait" ELSE "loop"
  <2>1. EventsStep /\ (srv'.events = <<>> <=> Len(srv.events) = 1)
    BY <1>1, <1>2, TailEvents
  <2>2. QED
    BY <1>2, <2>1 DEF EventsLeft
<1>3. CASE srv'.events = <<>> /\ srv'.pc \in {"exit", "ended"}
  <2> DEFINE g == <<>>
  <2>1. g \in [DOMAIN srv'.events -> DOMAIN srv.events] /\ Distinct(g) /\ srv'.events \in Seq(Event)
    BY <1>3 DEF Distinct
  <2>2. \A i \in DOMAIN srv'.events : srv'.events[i] = srv.events[g[i]]
    BY <1>3
  <2>3. EventsStep
    <3> HIDE DEF g
    <3>1. QED
      BY <2>1, <2>2 DEF EventsStep
  <2>4. QED
    BY <1>3, <2>3 DEF EventsLeft
<1>4. CASE /\ srv'.events = srv.events
           /\ srv'.pc = srv.pc \/ {srv.pc, srv'.pc} \subseteq {"loop", "read"}
  <2> DEFINE g == [i \in DOMAIN srv.events |-> i]
  <2>1. g \in [DOMAIN srv'.events -> DOMAIN srv.events] /\ Distinct(g)
    BY <1>4 DEF Distinct
  <2>2. EventsStep
    BY <2>1, <1>1, <1>4 DEF EventsStep
  <2>3. QED
    BY <1>1, <1>4, <2>2 DEF EventsLeft
<1>5. QED
  BY <1>2, <1>3, <1>4

(* Nothing is closed. *)
LEMMA NothingCloses ==
    ASSUME SockInv, UNCHANGED <<fds, watched, ready>>
    PROVE  Closed
<1>1. SockTypeOK
  BY DEF SockInv
<1>2. ReadyStep({d \in Ctl : watched'[d] # Null /\ conn'[d].hup})
  BY <1>1 DEF SockTypeOK, ReadyStep, Queued, Distinct
<1>3. QED
  BY <1>1, <1>2 DEF Closed, SockTypeOK

(* The watch of c goes with its last descriptor. *)
LEMMA WatchGoes ==
    ASSUME SockInv, NEW c \in Ctl, Released(c),
           fds' \in [Fd -> Ctl \cup {Null}],
           \A fd \in Fd : fds'[fd] \in {fds[fd], Null} /\ fds'[fd] # c
    PROVE  Closed
<1>1. SockTypeOK /\ DescriptorsWatched
  BY DEF SockInv
<1>2. /\ ReadyStep({}) /\ ~Queued(c)'
      /\ watched' = [watched EXCEPT ![c] = Null]
  BY <1>1, ReleasedReady
<1>3. ReadyStep({d \in Ctl : watched'[d] # Null /\ conn'[d].hup})
  BY <1>2 DEF ReadyStep
<1>4. QED
  BY <1>1, <1>2, <1>3, CtlAssumption DEF Closed, SockTypeOK

LEMMA CloseCloses ==
    ASSUME SockInv, NEW fd \in Fd, Close(fd)
    PROVE  Closed /\ fds' = [fds EXCEPT ![fd] = Null]
<1>1. SockTypeOK /\ DescriptorsWatched
  BY DEF SockInv
<1>2. /\ fds' = [fds EXCEPT ![fd] = Null] /\ fds' \in [Fd -> Ctl \cup {Null}]
      /\ \A d \in Fd : fds'[d] \in {fds[d], Null}
  BY <1>1 DEF Close, SockTypeOK
<1>3. CASE fds[fd] = Null \/ fds[fd] \in held
  <2>1. UNCHANGED <<watched, ready>>
    BY <1>3 DEF Close
  <2>2. ReadyStep({d \in Ctl : watched'[d] # Null /\ conn'[d].hup})
    BY <1>1, <2>1 DEF SockTypeOK, ReadyStep, Queued, Distinct
  <2>3. QED
    BY <1>1, <1>2, <2>1, <2>2 DEF Closed, SockTypeOK
<1>4. CASE ~(fds[fd] = Null \/ fds[fd] \in held)
  <2>1. fds[fd] \in Ctl /\ Released(fds[fd])
    BY <1>1, <1>4 DEF Close, SockTypeOK
  <2>2. \A d \in Fd : fds'[d] # fds[fd]
    BY <1>1, <1>2, <2>1, CtlAssumption DEF DescriptorsWatched
  <2>3. QED
    BY <1>2, <2>1, <2>2, WatchGoes
<1>5. QED
  BY <1>3, <1>4

LEMMA ShutdownCloses ==
    ASSUME SockInv, NEW fd \in Fd, ShutdownAndClose(fd)
    PROVE  Closed /\ Shut
<1>1. SockTypeOK /\ DescriptorsWatched
  BY DEF SockInv
<1>2. /\ fds' = [fds EXCEPT ![fd] = Null] /\ fds' \in [Fd -> Ctl \cup {Null}]
      /\ \A d \in Fd : fds'[d] \in {fds[d], Null}
  BY <1>1 DEF ShutdownAndClose, SockTypeOK
<1>3. PICK c \in Ctl \cup {Null} : c = fds[fd]
  BY <1>1 DEF SockTypeOK
<1>4. conn' = IF c = Null THEN conn ELSE [conn EXCEPT ![c].hup = TRUE]
  BY <1>3 DEF ShutdownAndClose
<1>5. Shut
  <2>1. CASE c = Null
    BY <1>1, <1>4, <2>1 DEF Shut, SockTypeOK
  <2>2. CASE c # Null
    <3>1. conn \in [Ctl -> Conn] /\ c \in Ctl /\ conn' = [conn EXCEPT ![c].hup = TRUE]
      BY <1>1, <1>4, <2>2 DEF SockTypeOK
    <3>2. conn'[c] = [conn[c] EXCEPT !.hup = TRUE] /\ conn[c] \in Conn
      BY <3>1
    <3>3. /\ conn'[c] \in Conn /\ conn'[c].hup
          /\ conn'[c].st = conn[c].st /\ conn'[c].bytes = conn[c].bytes
      BY <3>2 DEF Conn
    <3>4. \A d \in Ctl : d # c => conn'[d] = conn[d]
      BY <3>1
    <3>5. conn' \in [Ctl -> Conn]
      BY <3>1, <3>3, <3>4
    <3>6. QED
      BY <3>3, <3>4, <3>5 DEF Shut
  <2>3. QED
    BY <2>1, <2>2
<1>6. CASE c = Null /\ UNCHANGED <<watched, ready>>
  <2>1. UNCHANGED fds
    BY <1>1, <1>2, <1>3, <1>6 DEF SockTypeOK
  <2>2. QED
    BY <1>5, <1>6, <2>1, NothingCloses
<1>7. CASE c \in held /\ ready' = Woken(c) /\ UNCHANGED watched
  <2>1. c \in Ctl /\ conn'[c].hup /\ watched[c] = fd
    BY <1>1, <1>3, <1>4, <1>7, CtlAssumption DEF SockTypeOK, DescriptorsWatched, Conn
  <2>2. ReadyStep({y \in {c} : y \in Ctl => watched[y] # Null})
    BY <1>1, <1>7, <2>1, WokenReady
  <2>3. ReadyStep({d \in Ctl : watched'[d] # Null /\ conn'[d].hup})
    BY <1>7, <2>1, <2>2 DEF ReadyStep
  <2>4. QED
    BY <1>1, <1>2, <1>5, <1>7, <2>3 DEF Closed, SockTypeOK
<1>8. CASE c # Null /\ c \notin held /\ Released(c)
  <2>1. c \in Ctl /\ \A d \in Fd : fds'[d] # c
    BY <1>1, <1>2, <1>3, <1>8, CtlAssumption DEF DescriptorsWatched
  <2>2. QED
    BY <1>2, <1>5, <1>8, <2>1, WatchGoes
<1>9. QED
  BY <1>3, <1>6, <1>7, <1>8 DEF ShutdownAndClose
-------------------------------------------------------------------------------
(* The steps of the thread. *)

(* The event that is looked at. *)
LEMMA CurrentOK ==
    ASSUME SockInv, srv.pc \in {"loop", "read"}
    PROVE  /\ srv \in Server /\ srv.events \in Seq(Event) /\ srv.events # <<>>
           /\ 1 \in DOMAIN srv.events /\ Current = srv.events[1]
           /\ Current \in Event /\ EventOK(Current)
           /\ Tail(srv.events) \in Seq(Event)
<1>1. srv \in Server /\ srv.events \in Seq(Event) /\ srv.events # <<>>
  BY DEF SockInv, SockTypeOK, Server, EventsOK
<1>2. 1 \in DOMAIN srv.events /\ Current = srv.events[1] /\ Current \in Event
  BY <1>1 DEF Current
<1>3. EventOK(Current)
  BY <1>2 DEF SockInv, EventsOK
<1>4. QED
  BY <1>1, <1>2, <1>3

LEMMA HangUpKeeps ==
    ASSUME SockInv, HangUp
    PROVE  SockInv'
<1>1. srv.pc = "loop" /\ Current.hup /\ UNCHANGED <<backlog, held>>
  BY DEF HangUp, Looking
<1>2. /\ srv \in Server /\ Current \in Event /\ EventOK(Current)
      /\ Tail(srv.events) \in Seq(Event)
  BY <1>1, CurrentOK
<1>3. Current.fd \in Fd
  BY <1>1, <1>2 DEF EventOK
<1>4. Closed /\ Shut
  BY <1>3, ShutdownCloses DEF HangUp
<1>5. /\ srv' \in Server /\ srv'.events = Tail(srv.events)
      /\ srv'.pc = IF Len(srv.events) = 1 THEN "wait" ELSE "loop"
      /\ srv'.current_fd_count = srv.current_fd_count
  BY <1>2 DEF HangUp, NextEvent, Server
<1>6. EventsLeft
  BY <1>1, <1>5, EventsRest
<1>7. /\ SockTypeOK' /\ DescriptorsWatched' /\ AcceptedOnce' /\ ReadyWatched' /\ EventsOK'
      /\ \A c \in Ctl : Credit(c)' => Credit(c)
      /\ \A c \in Ctl : conn'[c].bytes > 0 => conn'[c].st \in {"sent", "end"}
  <2>1. held' \subseteq Ctl
    BY <1>1 DEF SockInv, SockTypeOK
  <2>2. QED
    BY <1>1, <1>4, <1>6, <2>1, ServerStep
<1>8. HandlerOK'
  BY <1>5, <1>7 DEF HandlerOK
<1>9. CountCoversCredit'
  BY <1>1, <1>5, <1>7, CreditStep DEF SockInv
<1>10. QED
  BY <1>7, <1>8, <1>9 DEF SockInv

(* Steps after which the thread is in the handler, or has ended. *)
LEMMA StaysKeeps ==
    ASSUME SockInv, UNCHANGED <<backlog, fds, watched, ready>>, held' \subseteq Ctl,
           Shut, EventsLeft, HandlerOK',
           srv'.pc \in {"wait", "loop", "read"} =>
              /\ srv.pc \in {"wait", "loop", "read"}
              /\ srv'.current_fd_count = srv.current_fd_count
    PROVE  SockInv'
<1>1. Closed
  BY NothingCloses
<1>3. /\ SockTypeOK' /\ DescriptorsWatched' /\ AcceptedOnce' /\ ReadyWatched' /\ EventsOK'
      /\ \A c \in Ctl : Credit(c)' => Credit(c)
  BY <1>1, ServerStep
<1>4. CountCoversCredit'
  BY <1>3, CreditStep DEF SockInv
<1>5. QED
  BY <1>3, <1>4 DEF SockInv

LEMMA AcceptFailsKeeps ==
    ASSUME SockInv, AcceptFails \/ DaemonStops
    PROVE  SockInv'
<1>1. /\ srv \in Server /\ SockTypeOK /\ HandlerOK
      /\ UNCHANGED <<conn, backlog, held, fds, watched, ready>>
      /\ srv.pc = "exit" => srv.events = <<>>
  BY DEF SockInv, SockTypeOK, EventsOK, AcceptFails, DaemonStops
<1>2. srv' \in Server /\ srv'.events = <<>> /\ srv'.pc \in {"exit", "ended"}
  <2>1. CASE AcceptFails
    <3>1. srv' = [srv EXCEPT !.pc = "exit", !.events = <<>>] /\ <<>> \in Seq(Event)
      BY <2>1 DEF AcceptFails
    <3>2. QED
      BY <1>1, <3>1 DEF Server
  <2>2. CASE DaemonStops
    <3>1. srv' = [srv EXCEPT !.pc = "ended"] /\ srv.events = <<>>
      BY <1>1, <2>2 DEF DaemonStops
    <3>2. QED
      BY <1>1, <3>1 DEF Server
  <2>3. QED
    BY <2>1, <2>2
<1>3. EventsLeft
  BY <1>2, EventsRest
<1>4. Shut
  BY <1>1 DEF Shut, SockTypeOK
<1>5. HandlerOK'
  BY <1>1, <1>2 DEF HandlerOK
<1>6. QED
  BY <1>1, <1>2, <1>3, <1>4, <1>5, StaysKeeps DEF SockTypeOK

LEMMA EnterHandlerKeeps ==
    ASSUME SockInv, EnterHandler
    PROVE  SockInv'
<1>1. /\ srv.pc = "loop" /\ Current.file # Sock /\ ~Current.hup
      /\ UNCHANGED <<conn, backlog, held, fds, watched, ready>>
      /\ SockTypeOK /\ HandlerOK /\ srv \in Server
  BY DEF EnterHandler, Looking, SockInv, SockTypeOK
<1>2. /\ srv' \in Server /\ srv'.events = srv.events /\ srv'.pc = "read"
      /\ srv'.read_bytes = 0 /\ srv'.current_fd_count = srv.current_fd_count
  <2>1. 0 \in -1..MaxBytes
    BY MaxBytesAssumption
  <2>2. srv' = [srv EXCEPT !.pc = "read", !.read_bytes = 0, !.done = FALSE, !.request = Null]
    BY DEF EnterHandler
  <2>3. QED
    BY <1>1, <2>1, <2>2 DEF Server
<1>3. EventsLeft
  BY <1>1, <1>2, EventsRest
<1>4. Shut
  BY <1>1 DEF Shut, SockTypeOK
<1>5. HandlerOK'
  BY <1>1, <1>2 DEF HandlerOK, Current
<1>6. QED
  BY <1>1, <1>2, <1>3, <1>4, <1>5, StaysKeeps DEF SockTypeOK

(* Data is read once: what has been read before was nothing. *)
LEMMA ReadDataKeeps ==
    ASSUME SockInv, ReadData
    PROVE  SockInv'
<1>1. /\ srv.pc = "read" /\ srv.read_bytes >= 0 /\ Descr # Null /\ conn[Descr].bytes > 0
      /\ UNCHANGED <<backlog, held, fds, watched, ready>>
      /\ SockTypeOK /\ HandlerOK /\ srv \in Server /\ conn \in [Ctl -> Conn]
  BY DEF ReadData, Reading, SockInv, SockTypeOK
<1>2. Current \in Event /\ EventOK(Current) /\ Current.file # Sock
  BY <1>1, CurrentOK DEF HandlerOK
<1>3. PICK c \in Ctl : c = Descr
  BY <1>1, <1>2 DEF Descr, EventOK, SockTypeOK
<1>4. conn' = [conn EXCEPT ![c].bytes = 0] /\ conn[c] \in Conn
  BY <1>1, <1>3 DEF ReadData
<1>5. conn'[c] = [conn[c] EXCEPT !.bytes = 0] /\ \A d \in Ctl : d # c => conn'[d] = conn[d]
  BY <1>1, <1>4
<1>6. /\ conn'[c] \in Conn /\ conn'[c].bytes = 0
      /\ conn'[c].st = conn[c].st /\ conn'[c].hup = conn[c].hup
  BY <1>4, <1>5, MaxBytesAssumption DEF Conn
<1>7. Shut
  <2>1. conn' \in [Ctl -> Conn]
    BY <1>1, <1>4, <1>5, <1>6
  <2>2. QED
    BY <2>1, <1>5, <1>6 DEF Shut
<1>8. ~(srv.read_bytes > 0)
  BY <1>1 DEF HandlerOK
<1>9. conn[c].line \in BOOLEAN /\ conn[c].bytes \in 0..MaxBytes
  BY <1>4 DEF Conn
<1>10. srv.read_bytes \in Int /\ srv.read_bytes + conn[c].bytes \in -1..MaxBytes
  BY <1>1, <1>8, <1>9, MaxBytesAssumption DEF Server
<1>11. /\ srv' \in Server /\ srv'.events = srv.events /\ srv'.pc = "read"
       /\ srv'.current_fd_count = srv.current_fd_count
  BY <1>1, <1>3, <1>9, <1>10 DEF ReadData, Server
<1>12. EventsLeft
  BY <1>1, <1>11, EventsRest
<1>13. HandlerOK'
  <2>1. Current' = Current /\ Descr' = c
    BY <1>1, <1>3, <1>11 DEF Current, Descr
  <2>2. conn[c].st \in {"sent", "end"}
    BY <1>1, <1>3 DEF HandlerOK
  <2>3. QED
    BY <1>1, <1>3, <1>5, <1>6, <2>1, <2>2, CtlAssumption DEF HandlerOK
<1>14. QED
  BY <1>1, <1>7, <1>11, <1>12, <1>13, StaysKeeps DEF SockTypeOK

LEMMA ReadNothingKeeps ==
    ASSUME SockInv, ReadNothing
    PROVE  SockInv'
<1>1. /\ srv.pc = "read" /\ srv.read_bytes >= 0
      /\ UNCHANGED <<conn, backlog, held, fds, watched, ready>>
      /\ SockTypeOK /\ HandlerOK /\ srv \in Server
  BY DEF ReadNothing, Reading, SockInv, SockTypeOK
<1>2. srv.read_bytes \in Int /\ srv.read_bytes - 1 \in -1..MaxBytes
  BY <1>1, MaxBytesAssumption DEF Server
<1>3. /\ srv' \in Server /\ srv'.events = srv.events /\ srv'.pc = "read"
      /\ srv'.read_bytes = srv.read_bytes - 1 /\ srv'.current_fd_count = srv.current_fd_count
  BY <1>1, <1>2 DEF ReadNothing, Server
<1>4. EventsLeft
  BY <1>1, <1>3, EventsRest
<1>5. Shut
  BY <1>1 DEF Shut, SockTypeOK
<1>6. HandlerOK'
  BY <1>1, <1>2, <1>3 DEF HandlerOK, Current, Descr
<1>7. QED
  BY <1>1, <1>3, <1>4, <1>5, <1>6, StaysKeeps DEF SockTypeOK
LEMMA CountSet ==
    ASSUME NEW s \in Server, NEW m \in Int, NEW t, t = [s EXCEPT !.current_fd_count = m]
    PROVE  /\ t \in Server /\ t.events = s.events /\ t.pc = s.pc
           /\ t.current_fd_count = m
BY DEF Server

EventDone(n) == srv' = [NextEvent(srv) EXCEPT !.current_fd_count = @ + n]

LEMMA NextEventOK ==
    ASSUME srv \in Server, Tail(srv.events) \in Seq(Event), NEW n \in Int, EventDone(n)
    PROVE  /\ srv' \in Server /\ srv'.events = Tail(srv.events)
           /\ srv'.pc = IF Len(srv.events) = 1 THEN "wait" ELSE "loop"
           /\ srv'.current_fd_count = srv.current_fd_count + n
<1>1. PICK s : s = NextEvent(srv)
  OBVIOUS
<1>2. /\ s \in Server /\ s.events = Tail(srv.events)
      /\ s.pc = IF Len(srv.events) = 1 THEN "wait" ELSE "loop"
      /\ s.current_fd_count = srv.current_fd_count
  BY <1>1 DEF NextEvent, Server
<1>3. srv' = [s EXCEPT !.current_fd_count = s.current_fd_count + n]
  BY <1>1 DEF EventDone
<1>4. s.current_fd_count + n \in Int
  BY <1>2 DEF Server
<1>5. /\ srv' \in Server /\ srv'.events = s.events /\ srv'.pc = s.pc
      /\ srv'.current_fd_count = s.current_fd_count + n
  BY <1>2, <1>3, <1>4, CountSet
<1>6. QED
  BY <1>2, <1>5

LEMMA CreditSpent ==
    ASSUME SockTypeOK, CountCoversCredit, NEW e \in Ctl, Credit(e), ~Credit(e)',
           \A c \in Ctl : Credit(c)' => Credit(c),
           srv.pc \in {"wait", "loop", "read"},
           srv'.current_fd_count = srv.current_fd_count - 1
    PROVE  CountCoversCredit'
<1> DEFINE C == {c \in Ctl : Credit(c)}
           D == {c \in Ctl : Credit(c)'}
<1>1. IsFiniteSet(C) /\ D \in SUBSET (C \ {e}) /\ e \in C
  BY DEF CountCoversCredit
<1>2. srv.current_fd_count \in Int /\ srv.current_fd_count >= 1 + Cardinality(C)
  BY DEF SockTypeOK, Server, CountCoversCredit
<1> HIDE DEF C
<1>3. IsFiniteSet(C \ {e}) /\ Cardinality(C \ {e}) = Cardinality(C) - 1
  BY <1>1, FS_RemoveElement
<1>4. IsFiniteSet(D) /\ Cardinality(D) <= Cardinality(C \ {e})
  BY <1>1, <1>3, FS_Subset
<1>5. Cardinality(D) \in Nat /\ Cardinality(C) \in Nat
  BY <1>1, <1>4, FS_CardinalityType
<1>6. srv'.current_fd_count >= 1 + Cardinality(D)
  BY <1>2, <1>3, <1>4, <1>5
<1>7. QED
  BY <1>4, <1>6 DEF CountCoversCredit

(* The event that is done with has used up the credit of its connection,     *)
(* whichever connection was closed in the handler.                           *)
LEMMA LeaveHandlerKeeps ==
    ASSUME SockInv, LeaveHandler
    PROVE  SockInv'
<1>1. /\ srv.pc = "read" /\ UNCHANGED <<conn, backlog, held>> /\ Close(Current.fd)
      /\ SockTypeOK /\ HandlerOK /\ CountCoversCredit /\ held \subseteq Ctl
      /\ Current.file # Sock /\ ~Current.hup
  BY DEF LeaveHandler, SockInv, SockTypeOK, HandlerOK
<1>2. /\ srv \in Server /\ srv.events \in Seq(Event) /\ srv.events # <<>>
      /\ 1 \in DOMAIN srv.events /\ Current = srv.events[1]
      /\ Current \in Event /\ EventOK(Current) /\ Tail(srv.events) \in Seq(Event)
  BY <1>1, CurrentOK
<1>3. PICK e \in Event : e = Current
  BY <1>2
<1>4. e.file \in Ctl /\ e.fd \in Fd
  BY <1>1, <1>2, <1>3 DEF EventOK, Event
<1>5. Closed /\ fds' = [fds EXCEPT ![e.fd] = Null]
  BY <1>1, <1>3, <1>4, CloseCloses
<1>6. Shut
  BY <1>1 DEF Shut, SockTypeOK
<1>7. SUFFICES ASSUME EventsLeft, srv'.pc # "read",
                      srv'.pc \in {"wait", "loop"} =>
                         /\ srv'.events = Tail(srv.events)
                         /\ srv'.current_fd_count = srv.current_fd_count - 1
               PROVE  SockInv'
  <2>1. CASE srv' = [NextEvent(srv) EXCEPT !.current_fd_count = @ - 1]
    <3> NextEvent(srv).current_fd_count = srv.current_fd_count /\ srv.current_fd_count \in Int
      BY <1>2 DEF NextEvent, Server
    <3> EventDone(-1)
      BY <2>1 DEF EventDone
    <3>1. /\ srv' \in Server /\ srv'.events = Tail(srv.events)
          /\ srv'.pc = IF Len(srv.events) = 1 THEN "wait" ELSE "loop"
          /\ srv'.current_fd_count = srv.current_fd_count - 1
      BY <1>2, <2>1, NextEventOK
    <3>2. QED
      BY <1>1, <1>7, <3>1, EventsRest
  <2>2. CASE \E pc \in {"exit", "ended"} : srv' = [srv EXCEPT !.pc = pc, !.events = <<>>]
    <3>1. PICK pc \in {"exit", "ended"} : srv' = [srv EXCEPT !.pc = pc, !.events = <<>>]
      BY <2>2
    <3>2. <<>> \in Seq(Event)
      OBVIOUS
    <3>3. srv' \in Server /\ srv'.events = <<>> /\ srv'.pc = pc
      BY <1>2, <3>1, <3>2 DEF Server
    <3>4. QED
      BY <1>7, <3>3, EventsRest
  <2>3. QED
    BY <2>1, <2>2 DEF LeaveHandler
<1>8. /\ SockTypeOK' /\ DescriptorsWatched' /\ AcceptedOnce' /\ ReadyWatched' /\ EventsOK'
      /\ \A c \in Ctl : Credit(c)' => Credit(c)
      /\ \A c \in Ctl : conn'[c].bytes > 0 => conn'[c].st \in {"sent", "end"}
  BY <1>1, <1>5, <1>6, <1>7, ServerStep
<1>9. HandlerOK'
  BY <1>7, <1>8 DEF HandlerOK
<1>10. CASE srv'.pc \in {"wait", "loop"}
  <2>1. Credit(e.file)
    BY <1>1, <1>2, <1>3 DEF Credit, Pending
  <2>2. ~Pending(e.file)'
    <3>1. \A i \in DOMAIN srv'.events :
            i + 1 \in DOMAIN srv.events /\ srv'.events[i] = srv.events[i + 1]
      BY <1>1, <1>2, <1>7, <1>10, TailEvents
    <3>2. \A i \in DOMAIN srv'.events : i \in Nat /\ i # 0
      BY <1>7 DEF EventsLeft, EventsStep
    <3>3. ASSUME NEW i \in DOMAIN srv'.events PROVE srv'.events[i].file # e.file
      <4>1. i + 1 # 1 /\ i + 1 \in DOMAIN srv.events
        BY <3>1, <3>2
      <4>2. srv.events[i + 1].file # srv.events[1].file
        BY <4>1, <1>2 DEF SockInv, EventsOK
      <4>3. QED
        BY <4>2, <3>1, <1>2, <1>3
    <3>4. QED
      BY <3>3 DEF Pending
  <2>3. watched'[e.file] \in {e.fd, Null} /\ fds'[e.fd] # e.file
    BY <1>1, <1>2, <1>3, <1>4, <1>5, CtlAssumption DEF EventOK, Closed, SockTypeOK
  <2>4. ~MayFire(e.file)'
    <3>1. /\ conn[e.file].st \notin {"none", "connected"}
          /\ Queued(e.file) => conn[e.file].hup
      BY <1>1, <1>2, <1>3 DEF EventOK
    <3>2. QED
      BY <3>1, <1>1, <1>4, <1>5 DEF MayFire, Closed, ReadyStep
  <2>5. ~Credit(e.file)'
    BY <2>2, <2>3, <2>4 DEF Credit
  <2>6. CountCoversCredit'
    BY <1>1, <1>4, <1>7, <1>8, <1>10, <2>1, <2>5, CreditSpent
  <2>7. QED
    BY <1>8, <1>9, <2>6 DEF SockInv
<1>11. CASE srv'.pc \in {"exit", "ended"}
  <2>1. CountCoversCredit'
    BY <1>1, <1>8, <1>11, CreditStep
  <2>2. QED
    BY <1>8, <1>9, <2>1 DEF SockInv
<1>12. QED
  BY <1>7, <1>10, <1>11 DEF EventsLeft, Server

(* Children come and go. *)
LEMMA ForkKeeps ==
    ASSUME SockInv, Fork
    PROVE  SockInv'
<1>1. /\ SockTypeOK /\ HandlerOK /\ srv \in Server
      /\ UNCHANGED <<conn, backlog, fds, watched, ready, srv>>
  BY DEF Fork, SockInv, SockTypeOK
<1>2. held' \subseteq Ctl
  BY <1>1 DEF Fork, SockTypeOK
<1>3. EventsLeft
  BY <1>1, EventsRest
<1>4. Shut
  BY <1>1 DEF Shut, SockTypeOK
<1>5. HandlerOK'
  BY <1>1 DEF HandlerOK, Current, Descr
<1>6. QED
  BY <1>1, <1>2, <1>3, <1>4, <1>5, StaysKeeps

LEMMA ChildEndsKeeps ==
    ASSUME SockInv, NEW c \in Ctl, ChildEnds(c)
    PROVE  SockInv'
<1>1. /\ SockTypeOK /\ HandlerOK /\ srv \in Server
      /\ UNCHANGED <<conn, backlog, fds, srv>> /\ held' \subseteq Ctl
  BY DEF ChildEnds, SockInv, SockTypeOK
<1>2. EventsLeft
  BY <1>1, EventsRest
<1>3. Shut
  BY <1>1 DEF Shut, SockTypeOK
<1>4. HandlerOK'
  BY <1>1 DEF HandlerOK, Current, Descr
<1>5. Closed
  <2>1. CASE \E fd \in Fd : fds[fd] = c
    BY <1>1, <2>1, NothingCloses DEF ChildEnds
  <2>2. CASE ~\E fd \in Fd : fds[fd] = c
    <3>1. Released(c)
      BY <2>2 DEF ChildEnds
    <3>2. /\ fds' \in [Fd -> Ctl \cup {Null}]
          /\ \A fd \in Fd : fds'[fd] \in {fds[fd], Null} /\ fds'[fd] # c
      BY <1>1, <2>2 DEF SockTypeOK
    <3>3. QED
      BY <3>1, <3>2, WatchGoes
  <2>3. QED
    BY <2>1, <2>2
<1>6. /\ SockTypeOK' /\ DescriptorsWatched' /\ AcceptedOnce' /\ ReadyWatched' /\ EventsOK'
      /\ \A d \in Ctl : Credit(d)' => Credit(d)
  BY <1>1, <1>2, <1>3, <1>5, ServerStep
<1>7. CountCoversCredit'
  BY <1>1, <1>6, CreditStep DEF SockInv
<1>8. QED
  BY <1>4, <1>6, <1>7 DEF SockInv
(* A connection is accepted: the one step that makes more connections open, *)
(* and the one that counts up.                                              *)
LEMMA AcceptKeeps ==
    ASSUME SockInv, Accept
    PROVE  SockInv'
<1> USE CtlAssumption
<1>1. /\ srv.pc = "loop" /\ Current.file = Sock /\ backlog # <<>> /\ UNCHANGED <<conn, held>>
      /\ backlog \in Seq(Ctl) /\ ready \in Seq(Ctl \cup {Sock}) /\ SockTypeOK
      /\ DescriptorsWatched /\ AcceptedOnce /\ ReadyWatched /\ EventsOK /\ HandlerOK
      /\ CountCoversCredit
  BY DEF Accept, Looking, SockInv, SockTypeOK
<1>2. /\ srv \in Server /\ srv.events \in Seq(Event) /\ srv.events # <<>>
      /\ 1 \in DOMAIN srv.events /\ Current = srv.events[1]
      /\ Tail(srv.events) \in Seq(Event)
  BY <1>1, CurrentOK
<1>3. PICK c \in Ctl : c = Head(backlog)
  BY <1>1
<1>4. /\ Waiting(c) /\ backlog' \in Seq(Ctl) /\ Distinct(backlog')
      /\ \A d \in Ctl : Waiting(d)' => Waiting(d) /\ d # c
  <2>1. /\ backlog' \in Seq(Ctl) /\ Len(backlog) \in Nat \ {0} /\ c = backlog[1]
        /\ DOMAIN backlog = 1..Len(backlog) /\ DOMAIN backlog' = 1..(Len(backlog) - 1)
        /\ \A i \in DOMAIN backlog' : backlog'[i] = backlog[i + 1]
    BY <1>1, <1>3 DEF Accept
  <2>2. \A i \in DOMAIN backlog' : i + 1 \in DOMAIN backlog /\ i + 1 # 1
    BY <2>1
  <2>3. Distinct(backlog)
    BY <1>1 DEF AcceptedOnce
  <2>4. Distinct(backlog')
    BY <2>1, <2>2, <2>3 DEF Distinct
  <2>5. Waiting(c)
    BY <2>1 DEF Waiting
  <2>6. \A d \in Ctl : Waiting(d)' => Waiting(d) /\ d # c
    BY <2>1, <2>2, <2>3 DEF Waiting, Distinct
  <2>7. QED
    BY <2>1, <2>4, <2>5, <2>6
<1>5. watched[c] = Null /\ ~Listed(c) /\ ~Queued(c) /\ conn[c].st # "none"
  BY <1>1, <1>4 DEF AcceptedOnce, ReadyWatched
<1>6. PICK fd \in Fd : /\ fds[fd] = Null
                       /\ fds' = [fds EXCEPT ![fd] = c]
                       /\ watched' = [watched EXCEPT ![c] = fd]
  BY <1>3 DEF Accept
<1>7. /\ ready' \in Seq(Ctl \cup {Sock}) /\ Distinct(ready')
      /\ \A x \in Ctl \cup {Sock} : Queued(x)' => Queued(x) \/ x = c
  <2>1. Distinct(ready)
    BY <1>1 DEF ReadyWatched
  <2>2. CASE ready' = ready
    BY <1>1, <2>1, <2>2 DEF Queued
  <2>3. CASE ready' = Append(ready, c)
    <3>1. /\ ready' \in Seq(Ctl \cup {Sock}) /\ DOMAIN ready' = 1..(Len(ready) + 1)
          /\ \A i \in DOMAIN ready : ready'[i] = ready[i]
          /\ ready'[Len(ready) + 1] = c
      BY <1>1, <2>3
    <3>2. \A i \in DOMAIN ready' : i \in DOMAIN ready \/ i = Len(ready) + 1
      BY <1>1, <3>1
    <3>3. Distinct(ready')
      BY <1>5, <2>1, <3>1, <3>2 DEF Distinct, Queued
    <3>4. QED
      BY <3>1, <3>2, <3>3 DEF Queued
  <2>4. QED
    BY <1>3, <2>2, <2>3 DEF Accept
<1>8. /\ srv' \in Server /\ srv'.events = Tail(srv.events)
      /\ srv'.pc = IF Len(srv.events) = 1 THEN "wait" ELSE "loop"
      /\ srv'.current_fd_count = srv.current_fd_count + 1
  <2>1. EventDone(1)
    BY DEF Accept, EventDone
  <2>2. QED
    BY <1>2, <2>1, NextEventOK
<1>9. /\ EventsStep /\ (srv'.events = <<>> <=> Len(srv.events) = 1)
      /\ \A i \in DOMAIN srv'.events :
            i + 1 \in DOMAIN srv.events /\ srv'.events[i] = srv.events[i + 1]
  BY <1>1, <1>2, <1>8, TailEvents
<1>10. \A d : (Listed(d)' => Listed(d)) /\ (Pending(d)' => Pending(d))
  BY <1>9 DEF Listed, Pending
<1>11. SockTypeOK'
  BY <1>1, <1>4, <1>6, <1>7, <1>8 DEF SockTypeOK
<1>12. DescriptorsWatched'
  <2>1. SUFFICES ASSUME NEW n \in Fd, fds'[n] # Null PROVE watched'[fds'[n]] = n
    BY DEF DescriptorsWatched
  <2>2. CASE n = fd
    BY <1>1, <1>6, <2>2 DEF SockTypeOK
  <2>3. CASE n # fd
    <3>1. fds'[n] = fds[n] /\ fds[n] \in Ctl
      BY <1>1, <1>6, <2>1, <2>3 DEF SockTypeOK
    <3>2. watched[fds[n]] = n /\ fds[n] # c
      BY <1>1, <1>5, <2>1, <3>1 DEF DescriptorsWatched
    <3>3. QED
      BY <1>1, <1>6, <3>1, <3>2 DEF SockTypeOK
  <2>4. QED
    BY <2>2, <2>3
<1>13. \A d \in Ctl : d # c => watched'[d] = watched[d]
  BY <1>1, <1>6 DEF SockTypeOK
<1>14. AcceptedOnce'
  <2>1. \A d \in Ctl : conn'[d].st = "none" => d # c
    BY <1>1, <1>5
  <2>2. Distinct(backlog)'
    BY <1>4 DEF Distinct
  <2>3. QED
    BY <1>1, <1>4, <1>10, <1>13, <2>1, <2>2 DEF AcceptedOnce
<1>15. ReadyWatched'
  <2>1. watched'[c] = fd
    BY <1>1, <1>6 DEF SockTypeOK
  <2>2. Distinct(ready)'
    BY <1>7 DEF Distinct
  <2>3. QED
    BY <1>1, <1>6, <1>7, <1>13, <2>1, <2>2 DEF ReadyWatched
<1>16. EventsOK'
  <2>1. ASSUME NEW i \in DOMAIN srv'.events PROVE EventOK(srv.events[i])'
    <3>1. PICK e \in Event : e = srv'.events[i] /\ e = srv.events[i + 1]
      BY <1>2, <1>9, <2>1
    <3>2. EventOK(e) /\ Listed(e.file)
      BY <3>1, <1>1, <1>9, <2>1 DEF EventsOK, Listed
    <3>3. e.file # Sock
      <4>1. i \in Nat /\ i # 0 /\ i + 1 # 1 /\ i + 1 \in DOMAIN srv.events
        BY <1>9, <2>1 DEF EventsStep
      <4>2. QED
        BY <1>1, <1>2, <3>1, <4>1 DEF EventsOK
    <3>4. e.file \in Ctl /\ e.file # c
      BY <1>5, <3>2, <3>3 DEF Event
    <3>5. EventOK(e)'
      BY <1>1, <1>7, <1>13, <3>2, <3>3, <3>4 DEF EventOK
    <3>6. QED
      BY <3>1, <3>5
  <2>2. \A i, j \in DOMAIN srv'.events : srv'.events[i].file = srv'.events[j].file => i = j
    <3>1. SUFFICES ASSUME NEW i \in DOMAIN srv'.events, NEW j \in DOMAIN srv'.events,
                          srv'.events[i].file = srv'.events[j].file
                   PROVE  i = j
      OBVIOUS
    <3>2. i \in Int /\ j \in Int
      BY <1>9 DEF EventsStep
    <3>3. i + 1 = j + 1
      BY <1>1, <1>9, <3>1 DEF EventsOK
    <3>4. QED
      BY <3>2, <3>3
  <2>3. QED
    BY <1>8, <1>9, <2>1, <2>2 DEF EventsOK
<1>17. HandlerOK'
  BY <1>1, <1>8 DEF HandlerOK
<1>18. CountCoversCredit'
  <2> DEFINE C == {d \in Ctl : Credit(d)}
             D == {d \in Ctl : Credit(d)'}
  <2>1. ASSUME NEW d \in Ctl, d # c, Credit(d)' PROVE Credit(d)
    <3>1. MayFire(d)' => MayFire(d)
      BY <1>1, <1>7, <2>1 DEF MayFire
    <3>2. watched'[d] = watched[d] /\ watched[d] \in Fd \cup {Null}
      BY <1>1, <1>13, <2>1 DEF SockTypeOK
    <3>3. watched[d] # Null /\ fds'[watched[d]] = d => fds[watched[d]] = d
      BY <1>1, <1>6, <2>1, <3>2 DEF SockTypeOK
    <3>4. QED
      BY <1>10, <2>1, <3>1, <3>2, <3>3 DEF Credit
  <2>2. IsFiniteSet(C) /\ D \in SUBSET (C \cup {c})
    BY <1>1, <2>1 DEF CountCoversCredit
  <2>3. srv.current_fd_count \in Int /\ srv.current_fd_count >= 1 + Cardinality(C)
    BY <1>1, <1>2 DEF Server, CountCoversCredit
  <2> HIDE DEF C
  <2>4. /\ IsFiniteSet(C \cup {c})
        /\ Cardinality(C \cup {c}) = IF c \in C THEN Cardinality(C) ELSE Cardinality(C) + 1
    BY <2>2, FS_AddElement
  <2>5. IsFiniteSet(D) /\ Cardinality(D) <= Cardinality(C \cup {c})
    BY <2>2, <2>4, FS_Subset
  <2>6. Cardinality(D) \in Nat /\ Cardinality(C) \in Nat
    BY <2>2, <2>5, FS_CardinalityType
  <2>7. srv'.current_fd_count >= 1 + Cardinality(D)
    BY <1>8, <2>3, <2>4, <2>5, <2>6
  <2>8. QED
    BY <2>5, <2>7 DEF CountCoversCredit
<1>19. QED
  BY <1>11, <1>12, <1>14, <1>15, <1>16, <1>17, <1>18 DEF SockInv
(* epoll_wait reports items of the ready list, and no item that stays on it. *)
LEMMA EpollWaitKeeps ==
    ASSUME SockInv, epoll_wait
    PROVE  SockInv'
<1> USE CtlAssumption
<1>1. /\ srv.pc = "wait" /\ UNCHANGED <<conn, backlog, fds, held, watched>>
      /\ ready \in Seq(Ctl \cup {Sock}) /\ SockTypeOK /\ srv \in Server
      /\ DescriptorsWatched /\ AcceptedOnce /\ ReadyWatched /\ HandlerOK
      /\ CountCoversCredit /\ srv.events = <<>>
  BY DEF epoll_wait, SockInv, SockTypeOK, EventsOK
<1> DEFINE I == {i \in DOMAIN ready : Pollable(ready[i])}
<1>2. PICK live : live = Sublist(ready, I)
  OBVIOUS
<1>3. /\ live \in Seq(Ctl \cup {Sock}) /\ Distinct(live)
      /\ \A k \in DOMAIN live : Pollable(live[k]) /\ Queued(live[k])
  <2>1. I \in SUBSET (DOMAIN ready) /\ \A i \in I : Pollable(ready[i]) /\ Queued(ready[i])
    BY DEF Queued
  <2> HIDE DEF I
  <2>2. /\ live \in Seq(Ctl \cup {Sock})
        /\ \A k \in DOMAIN live : \E i \in I : live[k] = ready[i]
        /\ Distinct(ready) => Distinct(live)
    BY <1>1, <1>2, <2>1, SublistOK
  <2>3. QED
    BY <1>1, <2>1, <2>2 DEF ReadyWatched
<1>4. PICK n \in Nat : /\ n > 0 /\ n <= Len(live)
                       /\ srv' = [srv EXCEPT !.pc = "loop",
                                             !.events = [i \in 1..n |-> EventOf(live[i])]]
                       /\ ready' = SubSeq(live, n + 1, Len(live))
  <2> DEFINE m == IF Len(live) < srv.current_fd_count THEN Len(live) ELSE srv.current_fd_count
  <2>1. /\ m > 0
        /\ srv' = [srv EXCEPT !.pc = "loop", !.events = [i \in 1..m |-> EventOf(live[i])]]
        /\ ready' = SubSeq(live, m + 1, Len(live))
    BY <1>2 DEF epoll_wait
  <2>2. m \in Nat /\ m <= Len(live)
    BY <1>1, <1>3, <2>1 DEF Server
  <2>3. QED
    BY <2>1, <2>2
<1> HIDE DEF I
<1>5. /\ ready' \in Seq(Ctl \cup {Sock}) /\ DOMAIN ready' = 1..(Len(live) - n)
      /\ \A j \in DOMAIN ready' : n + j \in DOMAIN live /\ ready'[j] = live[n + j]
  BY <1>3, <1>4
<1>6. /\ \A x : Queued(x)' => Queued(x)
      /\ \A i \in 1..n : ~Queued(live[i])'
      /\ Distinct(ready')
  <2>1. \A x : Queued(x)' => Queued(x)
    BY <1>3, <1>5 DEF Queued
  <2>2. ASSUME NEW i \in 1..n, NEW j \in DOMAIN ready' PROVE ready'[j] # live[i]
    <3>1. j \in Nat /\ j # 0 /\ n + j # i /\ i \in DOMAIN live
      BY <1>3, <1>4, <1>5
    <3>2. QED
      BY <1>3, <1>5, <3>1 DEF Distinct
  <2>3. Distinct(ready')
    BY <1>3, <1>4, <1>5 DEF Distinct
  <2>4. QED
    BY <2>1, <2>2, <2>3 DEF Queued
<1>7. \A i \in 1..n : EventOf(live[i]) \in Event
  <2>1. SUFFICES ASSUME NEW i \in 1..n PROVE EventOf(live[i]) \in Event
    OBVIOUS
  <2>2. live[i] \in Ctl \cup {Sock}
    BY <1>3, <1>4
  <2>3. QED
    BY <1>1, <2>2 DEF EventOf, Event, SockTypeOK, Conn
<1>8. PICK evs : evs = [i \in 1..n |-> EventOf(live[i])]
  OBVIOUS
<1>9. evs \in Seq(Event) /\ DOMAIN evs = 1..n /\ \A i \in 1..n : evs[i] = EventOf(live[i])
  BY <1>4, <1>7, <1>8
<1>10. /\ srv' \in Server /\ srv'.events = evs /\ srv'.pc = "loop"
       /\ srv'.current_fd_count = srv.current_fd_count
  <2>1. srv' = [srv EXCEPT !.pc = "loop", !.events = evs]
    BY <1>4, <1>8
  <2>2. QED
    BY <1>1, <1>9, <2>1 DEF Server
(* What is known of a reported item. *)
<1>11. ASSUME NEW i \in 1..n
       PROVE  /\ live[i] \in Ctl \cup {Sock} /\ evs[i].file = live[i]
              /\ live[i] = Sock => ~evs[i].hup /\ backlog # <<>>
              /\ live[i] # Sock =>
                    /\ live[i] \in Ctl /\ Queued(live[i])
                    /\ evs[i].fd = watched[live[i]] /\ evs[i].hup = conn[live[i]].hup
                    /\ watched[live[i]] \in Fd
                    /\ conn[live[i]].st # "none"
                    /\ ~conn[live[i]].hup => conn[live[i]].st \in {"sent", "end"}
  <2>1. live[i] \in Ctl \cup {Sock} /\ Pollable(live[i]) /\ Queued(live[i])
    BY <1>3, <1>4
  <2>2. evs[i] = EventOf(live[i])
    BY <1>9
  <2>3. CASE live[i] = Sock
    BY <2>1, <2>2, <2>3 DEF EventOf, Pollable
  <2>4. CASE live[i] # Sock
    <3>1. live[i] \in Ctl /\ watched[live[i]] \in Fd
      BY <1>1, <2>1, <2>4 DEF ReadyWatched, SockTypeOK
    <3>2. evs[i].file = live[i] /\ evs[i].fd = watched[live[i]] /\ evs[i].hup = conn[live[i]].hup
      BY <2>2, <2>4 DEF EventOf
    <3>3. conn[live[i]].st # "none"
      BY <1>1, <3>1 DEF AcceptedOnce
    <3>4. ~conn[live[i]].hup => conn[live[i]].st \in {"sent", "end"}
      BY <1>1, <2>1, <2>4, <3>1 DEF Pollable, HandlerOK
    <3>5. QED
      BY <2>1, <2>4, <3>1, <3>2, <3>3, <3>4
  <2>5. QED
    BY <2>3, <2>4
<1>12. SockTypeOK'
  BY <1>1, <1>5, <1>10 DEF SockTypeOK
<1>13. DescriptorsWatched'
  BY <1>1 DEF DescriptorsWatched
<1>14. AcceptedOnce'
  <2>1. ASSUME NEW c \in Ctl, Listed(c)' PROVE watched[c] # Null
    <3>1. PICK i \in 1..n : evs[i].file = c
      BY <1>9, <1>10, <2>1 DEF Listed
    <3>2. QED
      BY <1>11, <3>1
  <2>2. QED
    BY <1>1, <2>1 DEF AcceptedOnce, Waiting, Distinct
<1>15. ReadyWatched'
  BY <1>1, <1>6 DEF ReadyWatched, Distinct
<1>16. EventsOK'
  <2>1. ASSUME NEW i \in 1..n PROVE EventOK(evs[i])'
    <3>1. PICK e \in Event : e = evs[i]
      BY <1>9
    <3>2. e.file = live[i] /\ ~Queued(e.file)'
      BY <1>6, <1>11, <3>1
    <3>3. EventOK(e)'
      BY <1>1, <1>11, <3>1, <3>2 DEF EventOK
    <3>4. QED
      BY <3>1, <3>3
  <2>2. ASSUME NEW i \in 1..n, NEW j \in 1..n, evs[i].file = evs[j].file PROVE i = j
    <3>1. live[i] = live[j] /\ i \in DOMAIN live /\ j \in DOMAIN live
      BY <1>3, <1>4, <1>11, <2>2
    <3>2. QED
      BY <1>3, <3>1 DEF Distinct
  <2>3. evs # <<>>
    BY <1>4, <1>9
  <2>4. QED
    BY <1>9, <1>10, <2>1, <2>2, <2>3 DEF EventsOK
<1>17. HandlerOK'
  BY <1>1, <1>10 DEF HandlerOK
<1>18. CountCoversCredit'
  <2>1. ASSUME NEW c \in Ctl, Credit(c)' PROVE Credit(c)
    <3>1. CASE Pending(c)'
      <4>1. PICK i \in 1..n : evs[i].file = c /\ ~evs[i].hup
        BY <1>9, <1>10, <3>1 DEF Pending
      <4>2. Queued(c) /\ ~conn[c].hup /\ watched[c] \in Fd
        BY <1>11, <4>1
      <4>3. QED
        BY <4>2 DEF Credit, MayFire
    <3>2. CASE ~Pending(c)'
      BY <1>1, <1>6, <2>1, <3>2 DEF Credit, MayFire
    <3>3. QED
      BY <3>1, <3>2
  <2>2. QED
    BY <1>1, <1>10, <2>1, CreditStep
<1>19. QED
  BY <1>12, <1>13, <1>14, <1>15, <1>16, <1>17, <1>18 DEF SockInv

-------------------------------------------------------------------------------
LEMMA SockInitOK == SockInit => SockInv
<1>1. SUFFICES ASSUME SockInit PROVE SockInv
  OBVIOUS
<1> USE CtlAssumption, MaxBytesAssumption DEF SockInit
<1>2. SockTypeOK
  <2>1. [st |-> "none", bytes |-> 0, line |-> FALSE, stop |-> FALSE, hup |-> FALSE] \in Conn
    BY DEF Conn
  <2>2. conn \in [Ctl -> Conn]
    BY <1>1, <2>1
  <2>3. srv \in Server
    BY <1>1 DEF Server
  <2>4. QED
    BY <1>1, <2>2, <2>3 DEF SockTypeOK
<1>3. \A x : ~Queued(x) /\ ~Waiting(x) /\ ~Listed(x) /\ ~Pending(x)
  BY <1>1 DEF Queued, Waiting, Listed, Pending
<1>4. DescriptorsWatched /\ AcceptedOnce /\ ReadyWatched /\ EventsOK /\ HandlerOK
  BY <1>1, <1>3 DEF DescriptorsWatched, AcceptedOnce, ReadyWatched, EventsOK, HandlerOK, Distinct
<1>5. {c \in Ctl : Credit(c)} = {}
  BY <1>1, <1>3 DEF Credit
<1>6. CountCoversCredit
  BY <1>1, <1>5, FS_EmptySet DEF CountCoversCredit
<1>7. QED
  BY <1>2, <1>4, <1>6 DEF SockInv

LEMMA SockNextOK == SockInv /\ [SockNext]_sockVars => SockInv'
<1>1. SUFFICES ASSUME SockInv, [SockNext]_sockVars PROVE SockInv'
  OBVIOUS
<1>2. CASE Serve
  BY <1>1, <1>2, EpollWaitKeeps, HangUpKeeps, AcceptKeeps, EnterHandlerKeeps, ReadDataKeeps,
     ReadNothingKeeps, LeaveHandlerKeeps, AcceptFailsKeeps DEF Serve
<1>3. CASE AcceptFails \/ Fork
  BY <1>1, <1>3, AcceptFailsKeeps, ForkKeeps
<1>4. ASSUME NEW c \in Ctl,
             \/ connect_to_server(c) \/ ConnectFails(c) \/ send_request(c)
             \/ SendFails(c) \/ ndsctl_do(c) \/ Killed(c) \/ ChildEnds(c)
      PROVE  SockInv'
  BY <1>1, <1>4, ConnectKeeps, FailsKeeps, SendKeeps, EndKeeps, ChildEndsKeeps
<1>5. CASE UNCHANGED sockVars
  BY <1>1, <1>5 DEF sockVars, SockInv, SockTypeOK, DescriptorsWatched, AcceptedOnce, ReadyWatched,
     EventsOK, EventOK, HandlerOK, CountCoversCredit, Credit, MayFire, Queued, Waiting, Listed,
     Pending, Distinct, Current, Descr
<1>6. QED
  BY <1>1, <1>2, <1>3, <1>4, <1>5 DEF SockNext

(* The invariant, for any number of runs of ndsctl and any interleaving of   *)
(* them, the thread and the children (thread_ndsctl, ndsctl_handler).        *)
THEOREM SockInvariant == SockSpec => []SockInv
BY SockInitOK, SockNextOK, PTL DEF SockSpec

(* Type correctness; the index that read's -1 is added to never goes below   *)
(* -1 or beyond the request (ndsctl_handler).                                *)
THEOREM SockTypeCorrect == SockSpec => []SockTypeOK
<1>1. SockInv => SockTypeOK
  BY DEF SockInv
<1>2. QED
  BY <1>1, SockInvariant, PTL

(* The thread never blocks in accept on the blocking listening socket        *)
(* (thread_ndsctl).                                                          *)
THEOREM AcceptCorrect == SockSpec => []AcceptNeverBlocks
<1>1. SockInv => AcceptNeverBlocks
  <2>1. SUFFICES ASSUME SockInv, srv.pc = "loop", Current.file = Sock PROVE backlog # <<>>
    BY DEF AcceptNeverBlocks, Looking
  <2>2. EventOK(Current)
    BY <2>1, CurrentOK
  <2>3. QED
    BY <2>1, <2>2 DEF EventOK
<1>2. QED
  BY <1>1, SockInvariant, PTL

(* current_fd_count is at least the number of open descriptors, the          *)
(* listening socket included (thread_ndsctl, ndsctl_handler).                *)
THEOREM FdCountCorrect == SockSpec => []CountCoversConnections
<1>1. SockInv => CountCoversConnections
  <2>1. SUFFICES ASSUME SockInv, srv.pc \in {"wait", "loop", "read"}
                 PROVE  srv.current_fd_count >= 1 + Cardinality({fd \in Fd : fds[fd] # Null})
    BY DEF CountCoversConnections
  <2> DEFINE Open == {fd \in Fd : fds[fd] # Null}
             C == {c \in Ctl : Credit(c)}
             g == [fd \in Open |-> fds[fd]]
  <2>2. /\ IsFiniteSet(C) /\ srv.current_fd_count >= 1 + Cardinality(C)
        /\ srv.current_fd_count \in Int
    BY <2>1 DEF SockInv, CountCoversCredit, SockTypeOK, Server
  <2>3. \A fd \in Open : fds[fd] \in C /\ watched[fds[fd]] = fd
    BY <2>1, CtlAssumption DEF SockInv, SockTypeOK, DescriptorsWatched, Credit
  <2> HIDE DEF C, Open
  <2>4. g \in Injection(Open, C)
    BY <2>3 DEF Injection, IsInjective
  <2>5. IsFiniteSet(Open) /\ Cardinality(Open) <= Cardinality(C)
    BY <2>2, <2>4, FS_Injection
  <2>6. Cardinality(Open) \in Nat /\ Cardinality(C) \in Nat
    BY <2>2, <2>5, FS_CardinalityType
  <2>7. srv.current_fd_count >= 1 + Cardinality(Open)
    BY <2>2, <2>5, <2>6
  <2>8. QED
    BY <2>7 DEF Open
<1>2. QED
  BY <1>1, SockInvariant, PTL
===============================================================================
