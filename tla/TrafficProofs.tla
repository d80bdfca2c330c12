---------------------------- MODULE TrafficProofs -----------------------------
(***************************************************************************)
(* Proofs about rate limits and counters (TrafficControl, Traffic), for    *)
(* any hosts, limits, timeouts and failing commands.                       *)
(***************************************************************************)
EXTENDS Traffic, FiniteSetTheorems, SequenceTheorems, WellFoundedInduction, TLAPS

-------------------------------------------------------------------------------
(* What the devices may look like. *)

Class == [parent : Nat, k : Nat]
Filter == [k : Nat, ip : Ip, flow : Nat]
Qdisc == [root : BOOLEAN, class : SUBSET Class, filter : SUBSET Filter]

Own(idx) == TcId(idx)..(TcId(idx) + 2)

(* A class is the first of a client and hangs below the root, or one of the  *)
(* other two and hangs below the first; a filter leads to one of those two.  *)
ClassOK(c) ==
    \E x \in Nat : \/ c.k = TcId(x) /\ c.parent = RootClass
                   \/ c.k \in {TcId(x) + 1, TcId(x) + 2} /\ c.parent = TcId(x)
FilterOK(f) ==
    \E x \in Nat : f.k \in Own(x) /\ f.flow \in {TcId(x) + 1, TcId(x) + 2}

QdiscOK(q) ==
    /\ q \in Qdisc
    /\ \A c \in q.class : ClassOK(c)
    /\ \A f \in q.filter : FilterOK(f)

Empty(q) == q.class = {} /\ q.filter = {}

(* A device without a limit in the configuration has nothing on it. *)
DevicesTyped(t) ==
    /\ t \in [Dev -> Qdisc]
    /\ \A d \in Dev : QdiscOK(t[d])
    /\ DownloadLimit = 0 => Empty(t["down"])
    /\ UploadLimit = 0 => Empty(t["up"])

DevicesOK == DevicesTyped(tc)

-------------------------------------------------------------------------------
(* What the list and the counters may look like. *)

PeersOK ==
    /\ \A i \in Places : list[i].peer \in Guests
    /\ \A i, j \in Places : list[i].peer = list[j].peer => i = j

ClockOK ==
    /\ timer.now <= now
    /\ \A i \in Places : list[i].last_updated <= now
    /\ \A p \in Guests : sent[p] <= now

(* A host has an OUTGOING rule exactly while its entry is authenticated. *)
RulesOK ==
    \A p \in Guests :
       out[p] >= 0 <=> \E i \in Places : list[i].peer = p /\ list[i].authenticated

(* Without a session nothing was sent since the entry was made or reset, and *)
(* what its counters have is of others.                                      *)
NoSessionOK ==
    \A i \in Places : ~list[i].authenticated =>
       /\ sent[list[i].peer] <= list[i].last_updated
       /\ list[i].outgoing > 0 => list[i].peer \in shared

(* A host with counters of its own is the first with its IP, the others with *)
(* the IP have no session, and what is not credited yet was sent since.      *)
SessionOK ==
    \A i \in Places : OwnCounters(list[i]) =>
       /\ \A j \in WithIp(IpAt(i)) : j # i => i < j /\ ~list[j].authenticated
       /\ list[i].outgoing <= out[list[i].peer]
       /\ list[i].outgoing = out[list[i].peer] => sent[list[i].peer] <= list[i].last_updated

-------------------------------------------------------------------------------
(* The commands on a device. *)

(* The numbers of two clients do not overlap, and none is that of the root. *)
LEMMA OwnNumbers ==
    ASSUME NEW x \in Nat
    PROVE  /\ TcId(x) \in Nat
           /\ Own(x) = {TcId(x), TcId(x) + 1, TcId(x) + 2}
           /\ RootClass \notin Own(x)
           /\ \A y \in Nat : Own(x) \cap Own(y) # {} => x = y
           /\ \A y \in Nat : TcId(y) \notin {TcId(x) + 1, TcId(x) + 2}
           /\ \A y \in Nat : TcId(y) + 1 # TcId(x) + 2
<1>1. /\ TcId(x) \in Nat
      /\ Own(x) = {TcId(x), TcId(x) + 1, TcId(x) + 2}
      /\ RootClass \notin Own(x)
  BY DEF TcId, Own, RootClass
<1>2. \A y \in Nat : Own(x) \cap Own(y) # {} => x = y
  BY DEF TcId, Own
<1>3. \A y \in Nat : TcId(y) \notin {TcId(x) + 1, TcId(x) + 2} /\ TcId(y) + 1 # TcId(x) + 2
  BY DEF TcId
<1>4. QED
  BY <1>1, <1>2, <1>3

(* p is what q becomes when only the client idx is concerned. *)
Changes(q, p, idx) ==
    /\ QdiscOK(p)
    /\ \A c \in Class : c.k \notin Own(idx) => (c \in p.class <=> c \in q.class)
    /\ \A f \in Filter : f.k \notin Own(idx) => (f \in p.filter <=> f \in q.filter)

LEMMA ChangesOnly ==
    ASSUME NEW q, NEW p, NEW r, NEW idx
    PROVE  /\ QdiscOK(q) => Changes(q, q, idx)
           /\ Changes(q, p, idx) /\ Changes(p, r, idx) => Changes(q, r, idx)
BY DEF Changes

(* A class is added below the root or below the first class of the client. *)
LEMMA ClassAdded ==
    ASSUME NEW idx \in Nat, NEW q, QdiscOK(q), NEW parent, NEW k,
           \/ parent = RootClass /\ k = TcId(idx)
           \/ parent = TcId(idx) /\ k \in {TcId(idx) + 1, TcId(idx) + 2}
    PROVE  Changes(q, Command(q, ClassAdd(parent, k)), idx)
<1> DEFINE c0 == [parent |-> parent, k |-> k]
           q1 == [q EXCEPT !.class = @ \cup {c0}]
<1>1. c0 \in Class /\ ClassOK(c0) /\ c0.k \in Own(idx)
  <2>1. parent \in Nat /\ k \in Nat /\ k \in Own(idx)
    BY OwnNumbers DEF RootClass
  <2>2. ClassOK(c0)
    BY DEF ClassOK
  <2>3. QED
    BY <2>1, <2>2 DEF Class
<1>2. q1 \in Qdisc /\ q1.class = q.class \cup {c0} /\ q1.filter = q.filter
  BY <1>1 DEF QdiscOK, Qdisc
<1>3. Command(q, ClassAdd(parent, k)) \in {q, q1}
  BY DEF Command, ClassAdd
<1> HIDE DEF q1, c0
<1>4. Changes(q, q1, idx)
  BY <1>1, <1>2 DEF Changes, QdiscOK
<1>5. QED
  BY <1>3, <1>4, ChangesOnly

LEMMA FilterAdded ==
    ASSUME NEW idx \in Nat, NEW q, QdiscOK(q), NEW ip \in Ip,
           NEW k \in Own(idx), NEW flow \in {TcId(idx) + 1, TcId(idx) + 2}
    PROVE  Changes(q, Command(q, FilterAdd(k, ip, flow)), idx)
<1> DEFINE f0 == [k |-> k, ip |-> ip, flow |-> flow]
           q1 == [q EXCEPT !.filter = @ \cup {f0}]
<1>1. f0 \in Filter /\ FilterOK(f0) /\ f0.k \in Own(idx)
  BY OwnNumbers DEF Filter, FilterOK
<1>2. q1 \in Qdisc /\ q1.filter = q.filter \cup {f0} /\ q1.class = q.class
  BY <1>1 DEF QdiscOK, Qdisc
<1>3. Command(q, FilterAdd(k, ip, flow)) \in {q, q1}
  BY DEF Command, FilterAdd
<1> HIDE DEF q1, f0
<1>4. Changes(q, q1, idx)
  BY <1>1, <1>2 DEF Changes, QdiscOK
<1>5. QED
  BY <1>3, <1>4, ChangesOnly

(* Whichever commands fail, attaching a client concerns that client only. *)
LEMMA AttachOutcome ==
    ASSUME NEW idx \in Nat, NEW ip \in Ip, NEW q, QdiscOK(q),
           NEW p \in Outcomes(q, AttachCommands(idx, ip))
    PROVE  Changes(q, p, idx)
<1>1. PICK failed : p = Commands(q, AttachCommands(idx, ip), failed)
  BY DEF Outcomes
<1> DEFINE cmds == AttachCommands(idx, ip)
           r1 == Run(q, cmds, 1, failed)
           r2 == Run(r1, cmds, 2, failed)
           r3 == Run(r2, cmds, 3, failed)
           r4 == Run(r3, cmds, 4, failed)
           r5 == Run(r4, cmds, 5, failed)
           r6 == Run(r5, cmds, 6, failed)
<1>2. p = r6
  BY <1>1 DEF Commands
<1>3. /\ cmds[1] = ClassAdd(RootClass, TcId(idx))
      /\ cmds[2] = ClassAdd(TcId(idx), TcId(idx) + 1)
      /\ cmds[3] = FilterAdd(TcId(idx), ip, TcId(idx) + 1)
      /\ cmds[4] = FilterAdd(TcId(idx) + 1, ip, TcId(idx) + 1)
      /\ cmds[5] = ClassAdd(TcId(idx), TcId(idx) + 2)
      /\ cmds[6] = FilterAdd(TcId(idx) + 2, ip, TcId(idx) + 2)
  BY DEF AttachCommands
<1> HIDE DEF cmds
<1>4. Changes(q, q, idx) /\ {TcId(idx), TcId(idx) + 1, TcId(idx) + 2} \subseteq Own(idx)
  BY ChangesOnly, OwnNumbers
<1>5. Changes(q, r1, idx)
  BY <1>3, <1>4, ClassAdded DEF Run
<1> HIDE DEF r1
<1>6. Changes(q, r2, idx)
  <2>1. QdiscOK(r1)
    BY <1>5 DEF Changes
  <2>2. Changes(r1, r2, idx)
    BY <2>1, <1>3, ClassAdded, ChangesOnly DEF Run
  <2>3. QED
    BY <2>2, <1>5, ChangesOnly
<1> HIDE DEF r2
<1>7. Changes(q, r3, idx)
  <2>1. QdiscOK(r2)
    BY <1>6 DEF Changes
  <2>2. Changes(r2, r3, idx)
    BY <2>1, <1>3, <1>4, FilterAdded, ChangesOnly DEF Run
  <2>3. QED
    BY <2>2, <1>6, ChangesOnly
<1> HIDE DEF r3
<1>8. Changes(q, r4, idx)
  <2>1. QdiscOK(r3)
    BY <1>7 DEF Changes
  <2>2. Changes(r3, r4, idx)
    BY <2>1, <1>3, <1>4, FilterAdded, ChangesOnly DEF Run
  <2>3. QED
    BY <2>2, <1>7, ChangesOnly
<1> HIDE DEF r4
<1>9. Changes(q, r5, idx)
  <2>1. QdiscOK(r4)
    BY <1>8 DEF Changes
  <2>2. Changes(r4, r5, idx)
    BY <2>1, <1>3, ClassAdded, ChangesOnly DEF Run
  <2>3. QED
    BY <2>2, <1>8, ChangesOnly
<1> HIDE DEF r5
<1>10. Changes(q, r6, idx)
  <2>1. QdiscOK(r5)
    BY <1>9 DEF Changes
  <2>2. Changes(r5, r6, idx)
    BY <2>1, <1>3, <1>4, FilterAdded, ChangesOnly DEF Run
  <2>3. QED
    BY <2>2, <1>9, ChangesOnly
<1>11. QED
  BY <1>2, <1>10

(* A filter that is deleted is gone. *)
LEMMA FilterDeleted ==
    ASSUME NEW idx \in Nat, NEW q, QdiscOK(q), NEW k \in Own(idx)
    PROVE  LET p == Command(q, FilterDel(k)) IN
           /\ Changes(q, p, idx)
           /\ p.filter = {f \in q.filter : f.k # k} /\ p.class = q.class
<1> DEFINE p == [q EXCEPT !.filter = {f \in @ : f.k # k}]
<1>1. p \in Qdisc /\ p.filter = {f \in q.filter : f.k # k} /\ p.class = q.class
  BY DEF QdiscOK, Qdisc
<1>2. Command(q, FilterDel(k)) = p
  BY DEF Command, FilterDel
<1> HIDE DEF p
<1>3. QED
  BY <1>1, <1>2 DEF Changes, QdiscOK

(* A class without children and filters that is deleted is gone. *)
LEMMA ClassDeleted ==
    ASSUME NEW idx \in Nat, NEW q, QdiscOK(q), NEW k \in Own(idx), ~InUse(q, k)
    PROVE  LET p == Command(q, ClassDel(k)) IN
           /\ Changes(q, p, idx)
           /\ p.class = {c \in q.class : c.k # k} /\ p.filter = q.filter
<1> DEFINE p == [q EXCEPT !.class = {c \in @ : c.k # k}]
<1>1. p \in Qdisc /\ p.class = {c \in q.class : c.k # k} /\ p.filter = q.filter
  BY DEF QdiscOK, Qdisc
<1>2. Command(q, ClassDel(k)) = p
  BY DEF Command, ClassDel
<1> HIDE DEF p
<1>3. QED
  BY <1>1, <1>2 DEF Changes, QdiscOK

(* The filters of the client go first: then neither of its two leaf classes  *)
(* is in use, and without these its first class is not.                      *)
LEMMA DetachAll ==
    ASSUME NEW idx \in Nat, NEW q, QdiscOK(q)
    PROVE  LET p == Commands(q, DetachCommands(idx), {}) IN
           /\ Changes(q, p, idx)
           /\ \A c \in p.class : c \in q.class /\ c.k \notin Own(idx)
           /\ \A f \in p.filter : f \in q.filter /\ f.k \notin Own(idx)
<1> DEFINE id == TcId(idx)
           r1 == Command(q, FilterDel(id + 2))
           r2 == Command(r1, FilterDel(id + 1))
           r3 == Command(r2, FilterDel(id))
           r4 == Command(r3, ClassDel(id + 2))
           r5 == Command(r4, ClassDel(id + 1))
           r6 == Command(r5, ClassDel(id))
<1>1. Commands(q, DetachCommands(idx), {}) = r6
  BY DEF Commands, DetachCommands, Run
<1>2. id \in Nat /\ Own(idx) = {id, id + 1, id + 2}
  BY OwnNumbers
<1> HIDE DEF id
<1>3. Changes(q, r1, idx) /\ r1.filter = {f \in q.filter : f.k # id + 2} /\ r1.class = q.class
  BY <1>2, FilterDeleted
<1> HIDE DEF r1
<1>4. /\ Changes(q, r2, idx) /\ r2.class = q.class
      /\ r2.filter = {f \in q.filter : f.k \notin {id + 1, id + 2}}
  <2>1. QdiscOK(r1)
    BY <1>3 DEF Changes
  <2>2. Changes(r1, r2, idx) /\ r2.filter = {f \in r1.filter : f.k # id + 1} /\ r2.class = r1.class
    BY <2>1, <1>2, FilterDeleted
  <2>3. QED
    BY <2>2, <1>3, ChangesOnly
<1> HIDE DEF r2
<1>5. /\ Changes(q, r3, idx) /\ r3.class = q.class
      /\ r3.filter = {f \in q.filter : f.k \notin Own(idx)}
  <2>1. QdiscOK(r2)
    BY <1>4 DEF Changes
  <2>2. Changes(r2, r3, idx) /\ r3.filter = {f \in r2.filter : f.k # id} /\ r3.class = r2.class
    BY <2>1, <1>2, FilterDeleted
  <2>3. QED
    BY <2>2, <1>2, <1>4, ChangesOnly
<1> HIDE DEF r3
<1>6. \A f \in r3.filter : f.flow \notin Own(idx)
  <2>1. SUFFICES ASSUME NEW f \in r3.filter, f.flow \in Own(idx) PROVE FALSE
    OBVIOUS
  <2>2. PICK x \in Nat : f.k \in Own(x) /\ f.flow \in {TcId(x) + 1, TcId(x) + 2}
    BY <1>5 DEF FilterOK, QdiscOK
  <2>3. f.flow \in Own(x)
    BY <2>2, OwnNumbers
  <2>4. x = idx
    BY <2>1, <2>3, OwnNumbers
  <2>5. QED
    BY <2>2, <2>4, <1>5
<1>7. \A c \in q.class : c.parent \in Own(idx) => c.parent = id /\ c.k \in {id + 1, id + 2}
  <2>1. SUFFICES ASSUME NEW c \in q.class, c.parent \in Own(idx)
                 PROVE  c.parent = id /\ c.k \in {id + 1, id + 2}
    OBVIOUS
  <2>2. c.parent # RootClass
    BY <2>1, OwnNumbers
  <2>3. PICK x \in Nat : c.k \in {TcId(x) + 1, TcId(x) + 2} /\ c.parent = TcId(x)
    BY <2>2 DEF ClassOK, QdiscOK
  <2>4. c.parent \in Own(x)
    BY <2>3, OwnNumbers
  <2>5. x = idx
    BY <2>1, <2>4, OwnNumbers
  <2>6. QED
    BY <2>3, <2>5 DEF id
<1>8. /\ Changes(q, r4, idx) /\ r4.filter = r3.filter
      /\ r4.class = {c \in q.class : c.k # id + 2}
  <2>1. QdiscOK(r3)
    BY <1>5 DEF Changes
  <2>2. ~InUse(r3, id + 2)
    BY <1>2, <1>5, <1>6, <1>7 DEF InUse
  <2>3. Changes(r3, r4, idx) /\ r4.class = {c \in r3.class : c.k # id + 2} /\ r4.filter = r3.filter
    BY <2>1, <2>2, <1>2, ClassDeleted
  <2>4. QED
    BY <2>3, <1>5, ChangesOnly
<1> HIDE DEF r4
<1>9. /\ Changes(q, r5, idx) /\ r5.filter = r3.filter
      /\ r5.class = {c \in q.class : c.k \notin {id + 1, id + 2}}
  <2>1. QdiscOK(r4)
    BY <1>8 DEF Changes
  <2>2. ~InUse(r4, id + 1)
    BY <1>2, <1>8, <1>6, <1>7 DEF InUse
  <2>3. Changes(r4, r5, idx) /\ r5.class = {c \in r4.class : c.k # id + 1} /\ r5.filter = r4.filter
    BY <2>1, <2>2, <1>2, ClassDeleted
  <2>4. QED
    BY <2>3, <1>8, ChangesOnly
<1> HIDE DEF r5
<1>10. /\ Changes(q, r6, idx) /\ r6.filter = r3.filter
       /\ r6.class = {c \in q.class : c.k \notin Own(idx)}
  <2>1. QdiscOK(r5)
    BY <1>9 DEF Changes
  <2>2. ~InUse(r5, id)
    BY <1>2, <1>9, <1>6, <1>7 DEF InUse
  <2>3. Changes(r5, r6, idx) /\ r6.class = {c \in r5.class : c.k # id} /\ r6.filter = r5.filter
    BY <2>1, <2>2, <1>2, ClassDeleted
  <2>4. QED
    BY <2>3, <1>2, <1>9, ChangesOnly
<1> HIDE DEF r6
<1>11. QED
  BY <1>1, <1>5, <1>10

-------------------------------------------------------------------------------
(* Least and greatest elements, and lookups in the list. *)

LEMMA LeastPlace ==
    ASSUME NEW T \in SUBSET Nat, T # {}
    PROVE  Min(T) \in T /\ \A y \in T : Min(T) <= y
<1>1. \E x \in T : \A y \in T : ~(<<y, x>> \in OpToRel(<, Nat))
  BY NatLessThanWellFounded, WFMin
<1>2. PICK x \in T : \A y \in T : ~(<<y, x>> \in OpToRel(<, Nat))
  BY <1>1
<1>3. \A y \in T : ~(y < x)
  BY <1>2 DEF OpToRel
<1>4. \A y \in T : x <= y
  BY <1>3
<1>5. QED
  BY <1>4 DEF Min

LEMMA GreatestCount ==
    ASSUME NEW n \in Nat, NEW T \in SUBSET (-1..n), T # {}
    PROVE  Max(T) \in T /\ \A y \in T : y <= Max(T)
<1> DEFINE U == {n - y : y \in T}
<1>1. U \in SUBSET Nat /\ U # {}
  <2>1. \A y \in T : n - y \in Nat
    BY n \in Nat
  <2>2. QED
    BY <2>1
<1>2. Min(U) \in U /\ \A u \in U : Min(U) <= u
  BY <1>1, LeastPlace
<1>3. PICK x \in T : Min(U) = n - x
  BY <1>2
<1>4. \A y \in T : x >= y
  <2>1. SUFFICES ASSUME NEW y \in T PROVE x >= y
    OBVIOUS
  <2>2. n - x <= n - y
    BY <1>2, <1>3
  <2>3. QED
    BY <2>2
<1>5. Max(T) \in T /\ \A y \in T : Max(T) >= y
  BY <1>4 DEF Max
<1>6. QED
  BY <1>5

LEMMA Found ==
    ASSUME TrafficTypeOK, NEW i \in Places
    PROVE  LET f == client_list_find_by_id(list[i].id) IN f \in Places /\ list[f].id = list[i].id
<1>1. WithId(list[i].id) \in SUBSET Nat /\ i \in WithId(list[i].id)
  BY DEF WithId, Places, TrafficTypeOK
<1>2. Min(WithId(list[i].id)) \in WithId(list[i].id)
  BY <1>1, LeastPlace
<1>3. QED
  BY <1>2 DEF client_list_find_by_id, WithId

LEMMA FirstWithIp ==
    ASSUME TrafficTypeOK, NEW i \in Places
    PROVE  LET f == Min(WithIp(IpAt(i))) IN
           f \in WithIp(IpAt(i)) /\ \A j \in WithIp(IpAt(i)) : f <= j
<1>1. WithIp(IpAt(i)) \in SUBSET Nat /\ i \in WithIp(IpAt(i))
  BY DEF WithIp, Places, TrafficTypeOK
<1>2. QED
  BY <1>1, LeastPlace

LEMMA Removed ==
    ASSUME NEW S, NEW s \in Seq(S), NEW i \in 1..Len(s)
    PROVE  /\ RemoveAt(s, i) \in Seq(S)
           /\ Len(RemoveAt(s, i)) = Len(s) - 1
           /\ \A j \in 1..(Len(s) - 1) : RemoveAt(s, i)[j] = s[IF j < i THEN j ELSE j + 1]
<1> DEFINE a == SubSeq(s, 1, i - 1)
           b == SubSeq(s, i + 1, Len(s))
<1>1. Len(s) \in Nat
  BY LenProperties
<1>2. /\ a \in Seq(S) /\ Len(a) = i - 1
      /\ \A j \in 1..(i - 1) : a[j] = s[j]
  BY <1>1, SubSeqProperties
<1>3. /\ b \in Seq(S) /\ Len(b) = Len(s) - i
      /\ \A j \in 1..(Len(s) - i) : b[j] = s[i + j]
  BY <1>1, SubSeqProperties
<1> HIDE DEF a, b
<1>4. /\ a \o b \in Seq(S) /\ Len(a \o b) = Len(s) - 1
      /\ \A j \in 1..(Len(s) - 1) : (a \o b)[j] = IF j <= i - 1 THEN a[j] ELSE b[j - (i - 1)]
  <2>1. /\ a \o b \in Seq(S) /\ Len(a \o b) = Len(a) + Len(b)
        /\ \A j \in 1..(Len(a) + Len(b)) :
              (a \o b)[j] = IF j <= Len(a) THEN a[j] ELSE b[j - Len(a)]
    BY <1>2, <1>3, ConcatProperties
  <2>2. Len(a) + Len(b) = Len(s) - 1
    BY <1>1, <1>2, <1>3
  <2>3. QED
    BY <2>1, <2>2, <1>2
<1>5. RemoveAt(s, i) = a \o b
  BY DEF RemoveAt, a, b
<1>6. ASSUME NEW j \in 1..(Len(s) - 1)
      PROVE  (a \o b)[j] = s[IF j < i THEN j ELSE j + 1]
  <2>1. CASE j < i
    BY <2>1, <1>1, <1>2, <1>4
  <2>2. CASE ~(j < i)
    <3>1. j - (i - 1) \in 1..(Len(s) - i) /\ i + (j - (i - 1)) = j + 1
      BY <2>2, <1>1
    <3>2. QED
      BY <3>1, <2>2, <1>1, <1>3, <1>4
  <2>3. QED
    BY <2>1, <2>2
<1>7. QED
  BY <1>4, <1>5, <1>6

-------------------------------------------------------------------------------
(* What the steps make of the list. *)

LEMMA ListType ==
    ASSUME TrafficTypeOK
    PROVE  /\ Len(list) \in Nat /\ Places = 1..Len(list) /\ list \in [Places -> Entry]
           /\ \A i \in Places : /\ list[i] \in Entry
                                /\ list[i].peer \in Peer /\ list[i].id \in 1..MaxId
                                /\ list[i].authenticated \in BOOLEAN
                                /\ list[i].outgoing \in 0..MaxBytes
                                /\ list[i].last_updated \in 0..MaxTime
                                /\ list[i].upload_limit \in Nat /\ list[i].download_limit \in Nat
                                /\ list[i].imported \in BOOLEAN
<1>1. Len(list) \in Nat /\ Places = 1..Len(list) /\ list \in [Places -> Entry]
  BY LenProperties DEF TrafficTypeOK, Places
<1>2. QED
  BY <1>1 DEF Entry

(* list' has the entries of list, each with its peer, its id and its origin. *)
SameEntries ==
    /\ list' \in Seq(Entry) /\ Len(list') = Len(list) /\ DOMAIN list' = Places
    /\ \A j \in Places : /\ list'[j].peer = list[j].peer /\ list'[j].id = list[j].id
                         /\ list'[j].imported = list[j].imported

LEMMA SameListType ==
    ASSUME TrafficTypeOK, list' \in [Places -> Entry]
    PROVE  list' \in Seq(Entry) /\ Len(list') = Len(list) /\ DOMAIN list' = Places
<1>1. Len(list) \in Nat /\ Places = 1..Len(list)
  BY ListType
<1>2. list' \in Seq(Entry)
  BY <1>1, SeqDef
<1>3. QED
  BY <1>1, <1>2, LenProperties

LEMMA AddedEntry ==
    ASSUME TrafficTypeOK, NEW peer \in Guests, list' = Append(list, NewEntry(peer))
    PROVE  /\ NewEntry(peer) \in Entry /\ list' \in Seq(Entry)
           /\ DOMAIN list' = 1..(Len(list) + 1) /\ Len(list') = Len(list) + 1
           /\ \A j \in Places : j \in DOMAIN list' /\ j # Len(list) + 1 /\ list'[j] = list[j]
           /\ \A j \in DOMAIN list' : j \in Places \/ j = Len(list) + 1
           /\ list'[Len(list) + 1] = NewEntry(peer)
<1>1. Len(list) \in Nat /\ Places = 1..Len(list)
  BY ListType
<1>2. NewEntry(peer) \in Entry
  BY TrafficAssumption DEF NewEntry, Entry, TrafficTypeOK
<1>3. list \in Seq(Entry)
  BY DEF TrafficTypeOK
<1>4. /\ list' \in Seq(Entry) /\ Len(list') = Len(list) + 1
      /\ \A j \in 1..Len(list) : list'[j] = list[j]
      /\ list'[Len(list) + 1] = NewEntry(peer)
  BY <1>2, <1>3, AppendProperties
<1>5. DOMAIN list' = 1..(Len(list) + 1)
  BY <1>4, LenProperties
<1>6. QED
  BY <1>1, <1>2, <1>4, <1>5

LEMMA GrantedEntry ==
    ASSUME TrafficTypeOK, NEW i \in Places, list' = [list EXCEPT ![i].authenticated = TRUE]
    PROVE  /\ SameEntries
           /\ \A j \in Places : j # i => list'[j] = list[j]
           /\ list'[i].authenticated
           /\ list'[i].outgoing = list[i].outgoing /\ list'[i].last_updated = list[i].last_updated
<1>1. list \in [Places -> Entry]
  BY ListType
<1> DEFINE e == [list[i] EXCEPT !.authenticated = TRUE]
<1>2. /\ e \in Entry /\ e.authenticated = TRUE
      /\ e.peer = list[i].peer /\ e.id = list[i].id /\ e.imported = list[i].imported
      /\ e.outgoing = list[i].outgoing /\ e.last_updated = list[i].last_updated
  <2>1. list[i] \in Entry
    BY <1>1
  <2>2. QED
    BY <2>1 DEF Entry
<1>3. list' = [list EXCEPT ![i] = e]
  BY <1>1
<1> HIDE DEF e
<1>4. list' \in [Places -> Entry] /\ \A j \in Places : list'[j] = IF j = i THEN e ELSE list[j]
  BY <1>1, <1>2, <1>3
<1>5. QED
  BY <1>2, <1>4, SameListType DEF SameEntries

LEMMA ResetEntry ==
    ASSUME TrafficTypeOK, NEW i \in Places,
           list' = [list EXCEPT ![i] = Preauthenticated(list[i])]
    PROVE  /\ SameEntries
           /\ \A j \in Places : j # i => list'[j] = list[j]
           /\ ~list'[i].authenticated /\ list'[i].outgoing = 0 /\ list'[i].last_updated = now
<1>1. list \in [Places -> Entry]
  BY ListType
<1> DEFINE e == Preauthenticated(list[i])
<1>2. /\ e \in Entry /\ e.authenticated = FALSE /\ e.outgoing = 0 /\ e.last_updated = now
      /\ e.peer = list[i].peer /\ e.id = list[i].id /\ e.imported = list[i].imported
  <2>1. list[i] \in Entry /\ now \in 0..MaxTime /\ 0 \in 0..MaxBytes
    BY <1>1, TrafficAssumption DEF TrafficTypeOK
  <2>2. QED
    BY <2>1 DEF Entry, Preauthenticated, client_reset
<1> HIDE DEF e
<1>3. list' \in [Places -> Entry] /\ \A j \in Places : list'[j] = IF j = i THEN e ELSE list[j]
  BY <1>1, <1>2 DEF e
<1>4. QED
  BY <1>2, <1>3, SameListType DEF SameEntries

(* The limits that are stored are no negative numbers; nothing else of the   *)
(* entries changes.                                                          *)
LEMMA LimitsStored ==
    ASSUME TrafficTypeOK, SetLimits
    PROVE  /\ SameEntries
           /\ \A j \in Places : /\ list'[j].authenticated = list[j].authenticated
                                /\ list'[j].outgoing = list[j].outgoing
                                /\ list'[j].last_updated = list[j].last_updated
<1>1. PICK limits \in BinLimits :
         list' = [j \in Places |->
                    IF <<list[j].peer, list[j].id>> = granting
                    THEN [list[j] EXCEPT !.upload_limit = Stored(limits[1]),
                                          !.download_limit = Stored(limits[2])]
                    ELSE list[j]]
  BY DEF SetLimits
<1>2. limits[1] \in Int /\ limits[2] \in Int
  BY TrafficAssumption
<1>3. PICK up \in Nat, down \in Nat : up = Stored(limits[1]) /\ down = Stored(limits[2])
  BY <1>2 DEF Stored
<1>4. list' = [j \in Places |->
                    IF <<list[j].peer, list[j].id>> = granting
                    THEN [list[j] EXCEPT !.upload_limit = up, !.download_limit = down]
                    ELSE list[j]]
  BY <1>1, <1>3
<1>5. ASSUME NEW j \in Places
      PROVE  /\ list'[j] \in Entry
             /\ list'[j].peer = list[j].peer /\ list'[j].id = list[j].id
             /\ list'[j].imported = list[j].imported
             /\ list'[j].authenticated = list[j].authenticated
             /\ list'[j].outgoing = list[j].outgoing
             /\ list'[j].last_updated = list[j].last_updated
  <2>1. list[j] \in Entry
    BY ListType
  <2> DEFINE e == [list[j] EXCEPT !.upload_limit = up, !.download_limit = down]
  <2>2. /\ e \in Entry
        /\ e.peer = list[j].peer /\ e.id = list[j].id /\ e.imported = list[j].imported
        /\ e.authenticated = list[j].authenticated /\ e.outgoing = list[j].outgoing
        /\ e.last_updated = list[j].last_updated
    BY <2>1 DEF Entry
  <2>3. list'[j] \in {e, list[j]}
    BY <1>4
  <2> HIDE DEF e
  <2>4. QED
    BY <2>1, <2>2, <2>3
<1>6. list' \in [Places -> Entry]
  BY <1>4, <1>5
<1>7. QED
  BY <1>5, <1>6, SameListType DEF SameEntries

(* An entry is credited with the greatest count of a rule for its IP, when   *)
(* it is the first with the IP and has less.                                 *)
LEMMA CreditedEntry ==
    ASSUME TrafficTypeOK, NEW i \in Places
    PROVE  /\ Credited(i) \in Entry
           /\ Credited(i).peer = list[i].peer /\ Credited(i).id = list[i].id
           /\ Credited(i).imported = list[i].imported
           /\ Credited(i).authenticated = list[i].authenticated
           /\ \/ Credited(i).outgoing = list[i].outgoing
                 /\ Credited(i).last_updated = list[i].last_updated
              \/ /\ i = Min(WithIp(IpAt(i)))
                 /\ Credited(i).outgoing > list[i].outgoing
                 /\ Credited(i).last_updated = now
                 /\ \E p \in Guests : IpOfPeer(p) = IpAt(i) /\ Credited(i).outgoing = out[p]
           /\ i = Min(WithIp(IpAt(i))) =>
                 \A p \in Guests : IpOfPeer(p) = IpAt(i) => out[p] <= Credited(i).outgoing
<1> DEFINE T == Counts(IpAt(i)) \cup {list[i].outgoing}
           n == Max(T)
<1>1. list[i] \in Entry /\ list[i].outgoing \in 0..MaxBytes /\ MaxBytes \in Nat /\ now \in 0..MaxTime
  BY ListType, TrafficAssumption DEF TrafficTypeOK
<1>2. \A p \in Guests : out[p] \in -1..MaxBytes
  BY DEF TrafficTypeOK
<1>3. T \in SUBSET (-1..MaxBytes) /\ T # {}
  BY <1>1, <1>2 DEF Counts
<1>4. n \in T /\ \A y \in T : y <= n
  BY <1>1, <1>3, GreatestCount
<1>5. /\ n \in -1..MaxBytes /\ list[i].outgoing <= n
      /\ \A p \in Guests : IpOfPeer(p) = IpAt(i) => out[p] <= n
      /\ n # list[i].outgoing => \E p \in Guests : IpOfPeer(p) = IpAt(i) /\ n = out[p]
  BY <1>3, <1>4 DEF Counts
<1> DEFINE e == [list[i] EXCEPT !.outgoing = n, !.last_updated = now]
<1>6. Credited(i) = IF i = Min(WithIp(IpAt(i))) /\ n > list[i].outgoing THEN e ELSE list[i]
  BY DEF Credited
<1> HIDE DEF n
<1>7. n \in 0..MaxBytes =>
         /\ e \in Entry /\ e.outgoing = n /\ e.last_updated = now
         /\ e.peer = list[i].peer /\ e.id = list[i].id /\ e.imported = list[i].imported
         /\ e.authenticated = list[i].authenticated
  BY <1>1 DEF Entry
<1> HIDE DEF e
<1>8. CASE i = Min(WithIp(IpAt(i))) /\ n > list[i].outgoing
  <2>1. Credited(i) = e /\ n \in 0..MaxBytes
    BY <1>1, <1>5, <1>6, <1>8
  <2>2. QED
    BY <2>1, <1>5, <1>7, <1>8
<1>9. CASE ~(i = Min(WithIp(IpAt(i))) /\ n > list[i].outgoing)
  <2>1. Credited(i) = list[i]
    BY <1>6, <1>9
  <2>2. i = Min(WithIp(IpAt(i))) => n = list[i].outgoing
    BY <1>1, <1>5, <1>9
  <2>3. QED
    BY <2>1, <2>2, <1>1, <1>5
<1>10. QED
  BY <1>8, <1>9

LEMMA CreditedEntries ==
    ASSUME TrafficTypeOK, list' = [i \in Places |-> Credited(i)]
    PROVE  SameEntries /\ \A j \in Places : list'[j] = Credited(j)
<1>1. list' \in [Places -> Entry] /\ \A j \in Places : list'[j] = Credited(j)
  BY CreditedEntry
<1>2. QED
  BY <1>1, SameListType, CreditedEntry DEF SameEntries

(* The entries behind the one that is removed move up. *)
Moved(j, i) == IF j < i THEN j ELSE j + 1

LEMMA RemovedEntry ==
    ASSUME TrafficTypeOK, NEW i \in Places, list' = RemoveAt(list, i)
    PROVE  /\ list' \in Seq(Entry) /\ Len(list') = Len(list) - 1
           /\ DOMAIN list' = 1..(Len(list) - 1)
           /\ \A j \in DOMAIN list' :
                 Moved(j, i) \in Places \ {i} /\ list'[j] = list[Moved(j, i)]
           /\ \A j, k \in DOMAIN list' : j < k <=> Moved(j, i) < Moved(k, i)
           /\ \A k \in Places \ {i} : \E j \in DOMAIN list' : Moved(j, i) = k
<1>1. Len(list) \in Nat /\ Places = 1..Len(list) /\ list \in Seq(Entry)
  BY ListType DEF TrafficTypeOK
<1>2. /\ list' \in Seq(Entry) /\ Len(list') = Len(list) - 1
      /\ \A j \in 1..(Len(list) - 1) : list'[j] = list[Moved(j, i)]
  BY <1>1, Removed DEF Moved
<1>3. DOMAIN list' = 1..(Len(list) - 1)
  BY <1>2, LenProperties
<1>4. \A j \in DOMAIN list' : Moved(j, i) \in Places \ {i}
  BY <1>1, <1>3 DEF Moved
<1>5. \A j, k \in DOMAIN list' : j < k <=> Moved(j, i) < Moved(k, i)
  BY <1>1, <1>3 DEF Moved
<1>6. ASSUME NEW k \in Places \ {i} PROVE \E j \in DOMAIN list' : Moved(j, i) = k
  <2>1. CASE k < i
    BY <2>1, <1>1, <1>3 DEF Moved
  <2>2. CASE ~(k < i)
    <3>1. k - 1 \in DOMAIN list' /\ Moved(k - 1, i) = k
      BY <2>2, <1>1, <1>3 DEF Moved
    <3>2. QED
      BY <3>1
  <2>3. QED
    BY <2>1, <2>2
<1>7. QED
  BY <1>2, <1>3, <1>4, <1>5, <1>6

-------------------------------------------------------------------------------
(* The shapes of the steps. *)

TimerOK ==
    timer \in [pc : {"sleep", "update", "lock", "loop"}, now : 0..MaxTime, at : 1..(MaxClients + 1)]

GrantStep(i) ==
    /\ iptables_fw_authenticate(i)
    /\ granting' = granting \/ granting' \in Guests \X (1..MaxId)

DropStep(i) ==
    /\ iptables_fw_deauthenticate(i)
    /\ TimerOK' /\ timer'.now = timer.now
    /\ UNCHANGED <<client_id, granting, now, sent>>

RemoveStep(i) ==
    /\ ~list[i].authenticated
    /\ list' = RemoveAt(list, i)
    /\ UNCHANGED <<client_id, out, granting, timer, now, sent, shared, tc>>

TimerStep ==
    /\ TimerOK' /\ timer'.now \in {timer.now, now}
    /\ UNCHANGED <<list, client_id, out, granting, now, sent, shared, tc>>

LEMMA LoopShapes ==
    ASSUME TrafficTypeOK, Revalidate
    PROVE  \/ \E i \in Places : DropStep(i) \/ RemoveStep(i)
           \/ TimerStep
<1> DEFINE i == client_list_find_by_id(list[timer.at].id)
           t == [timer EXCEPT !.at = @ + 1]
<1>1. timer.at \in Places
  BY DEF Revalidate
<1>2. i \in Places
  BY <1>1, Found
<1>3. t \in [pc : {"sleep", "update", "lock", "loop"}, now : 0..MaxTime, at : 1..(MaxClients + 1)]
      /\ t.now = timer.now
  <2>1. Places = 1..Len(list) /\ Len(list) \in Nat /\ Len(list) <= MaxClients /\ MaxClients \in Nat
    BY ListType, TrafficAssumption DEF TrafficTypeOK
  <2>2. timer.at + 1 \in 1..(MaxClients + 1)
    BY <1>1, <2>1
  <2>3. QED
    BY <2>2 DEF TrafficTypeOK
<1>4. \/ iptables_fw_deauthenticate(i) /\ timer' = t
      \/ /\ ~list[i].authenticated /\ list' = RemoveAt(list, i)
         /\ UNCHANGED <<out, timer, shared, tc>>
      \/ timer' = t /\ UNCHANGED <<list, out, shared, tc>>
  BY DEF Revalidate
<1>5. UNCHANGED <<client_id, granting, now, sent>>
  BY DEF Revalidate
<1> HIDE DEF i, t
<1>6. CASE iptables_fw_deauthenticate(i) /\ timer' = t
  BY <1>2, <1>3, <1>5, <1>6 DEF DropStep, TimerOK
<1>7. CASE /\ ~list[i].authenticated /\ list' = RemoveAt(list, i)
           /\ UNCHANGED <<out, timer, shared, tc>>
  BY <1>2, <1>5, <1>7 DEF RemoveStep
<1>8. CASE timer' = t /\ UNCHANGED <<list, out, shared, tc>>
  BY <1>3, <1>5, <1>8 DEF TimerStep, TimerOK
<1>9. QED
  BY <1>4, <1>6, <1>7, <1>8

LEMMA StepShapes ==
    ASSUME TrafficTypeOK, PeersOK, Next
    PROVE  \/ \E peer \in Guests : AddClient(peer) \/ Send(peer)
           \/ \E i \in Places : GrantStep(i) \/ DropStep(i) \/ RemoveStep(i)
           \/ SetLimits
           \/ iptables_fw_counters_update
           \/ TimerStep
           \/ Tick
<1>1. ASSUME NEW i \in Places, HttpAuthenticate(i) \/ NdsctlAuth(i)
      PROVE  \E j \in Places : GrantStep(j)
  <2>1. client_list_find_by_id(list[i].id) \in Places
    BY Found
  <2>2. granting' = granting \/ granting' \in Guests \X (1..MaxId)
    <3>1. list[i].peer \in Guests /\ list[i].id \in 1..MaxId
      BY ListType DEF PeersOK
    <3>2. granting' = granting \/ granting' = <<list[i].peer, list[i].id>>
      BY <1>1 DEF HttpAuthenticate, NdsctlAuth
    <3>3. QED
      BY <3>1, <3>2
  <2>3. iptables_fw_authenticate(client_list_find_by_id(list[i].id))
    BY <1>1 DEF HttpAuthenticate, NdsctlAuth
  <2>4. QED
    BY <2>1, <2>2, <2>3 DEF GrantStep
<1>2. TimerOK /\ now \in 0..MaxTime /\ MaxClients \in Nat
  BY TrafficAssumption DEF TimerOK, TrafficTypeOK
<1>3. ASSUME NEW i \in Places, auth_client_deauth(i)
      PROVE  \E j \in Places : DropStep(j)
  <2>1. client_list_find_by_id(list[i].id) \in Places
    BY Found
  <2>2. iptables_fw_deauthenticate(client_list_find_by_id(list[i].id))
    BY <1>3 DEF auth_client_deauth
  <2>3. UNCHANGED <<client_id, granting, timer, now, sent>>
    BY <1>3 DEF auth_client_deauth
  <2>4. TimerOK' /\ timer'.now = timer.now
    BY <1>2, <2>3 DEF TimerOK
  <2>5. QED
    BY <2>1, <2>2, <2>3, <2>4 DEF DropStep
<1>4. ASSUME RoundBegins \/ LoopBegins \/ LoopEnds
      PROVE  TimerStep
  <2>1. timer' \in {[timer EXCEPT !.pc = "update", !.now = now],
                    [timer EXCEPT !.pc = "loop", !.at = 1],
                    [timer EXCEPT !.pc = "sleep", !.at = 1]}
    BY <1>4 DEF RoundBegins, LoopBegins, LoopEnds
  <2>2. TimerOK' /\ timer'.now \in {timer.now, now}
    <3>1. 1 \in 1..(MaxClients + 1)
      BY <1>2
    <3>2. CASE timer' = [timer EXCEPT !.pc = "update", !.now = now]
      BY <1>2, <3>2 DEF TimerOK
    <3>3. CASE timer' = [timer EXCEPT !.pc = "loop", !.at = 1]
      BY <1>2, <3>1, <3>3 DEF TimerOK
    <3>4. CASE timer' = [timer EXCEPT !.pc = "sleep", !.at = 1]
      BY <1>2, <3>1, <3>4 DEF TimerOK
    <3>5. QED
      BY <2>1, <3>2, <3>3, <3>4
  <2>3. UNCHANGED <<list, client_id, out, granting, now, sent, shared, tc>>
    BY <1>4 DEF RoundBegins, LoopBegins, LoopEnds
  <2>4. QED
    BY <2>2, <2>3 DEF TimerStep
<1>5. QED
  BY <1>1, <1>3, <1>4, LoopShapes DEF Next

-------------------------------------------------------------------------------
(* Types, and who has an entry. *)

TypeOK == TrafficTypeOK /\ PeersOK

LEMMA TypeInit == Init => TypeOK
<1> SUFFICES ASSUME Init PROVE TypeOK
  OBVIOUS
<1>1. /\ MaxBytes \in Nat /\ MaxTime \in Nat /\ MaxClients \in Nat \ {0} /\ MaxId \in Nat \ {0}
      /\ Guests \subseteq Peer
  BY TrafficAssumption
<1> DEFINE Typed == /\ list \in Seq(Entry) /\ Len(list) <= MaxClients /\ client_id \in 1..MaxId
                    /\ out \in [Guests -> -1..MaxBytes] /\ PeersOK
<1>2. Typed
  <2>1. CASE list = <<>> /\ out = [p \in Guests |-> -1]
    BY <1>1, <2>1 DEF Init, PeersOK, Places
  <2>2. ASSUME NEW e \in Imported, list = <<e>>,
               out = [p \in Guests |-> IF p = e.peer THEN 0 ELSE -1]
        PROVE  Typed
    <3>1. e \in Entry /\ e.peer \in Guests /\ MaxId >= 2
      <4>1. e.peer \in Guests /\ e.id \in 1..(MaxId - 1)
        BY DEF Imported
      <4>2. MaxId >= 2 /\ 1..(MaxId - 1) \subseteq 1..MaxId
        BY <1>1, <4>1
      <4>3. {0, MaxBytes} \subseteq 0..MaxBytes /\ 0 \in 0..MaxTime
        BY <1>1
      <4>4. e \in Entry
        <5>1. e.peer \in Peer /\ e.id \in 1..MaxId
          BY <1>1, <4>1, <4>2
        <5>2. /\ e.outgoing \in 0..MaxBytes /\ e.last_updated \in 0..MaxTime
              /\ e.upload_limit \in Nat /\ e.download_limit \in Nat
          BY <4>3 DEF Imported
        <5>3. QED
          BY <5>1, <5>2 DEF Imported, Entry
      <4>5. QED
        BY <4>1, <4>2, <4>4
    <3>2. list \in Seq(Entry) /\ Len(list) = 1 /\ Places = {1} /\ list[1] = e
      BY <2>2, <3>1 DEF Places
    <3>3. QED
      BY <1>1, <2>2, <3>1, <3>2 DEF Init, PeersOK
  <2>3. QED
    BY <2>1, <2>2 DEF Init
<1>3. /\ granting \in {<<>>} \cup (Guests \X (1..MaxId))
      /\ timer \in [pc : {"sleep", "update", "lock", "loop"}, now : 0..MaxTime,
                    at : 1..(MaxClients + 1)]
      /\ now \in 0..MaxTime /\ sent \in [Guests -> 0..MaxTime] /\ shared \subseteq Guests
  BY <1>1 DEF Init
<1>4. QED
  BY <1>2, <1>3 DEF TypeOK, TrafficTypeOK

(* The entries stay who they are. *)
LEMMA SamePeers ==
    ASSUME TypeOK, SameEntries
    PROVE  PeersOK' /\ list' \in Seq(Entry) /\ Len(list') <= MaxClients
BY DEF TypeOK, TrafficTypeOK, SameEntries, PeersOK, Places

LEMMA TypeStep == TypeOK /\ [Next]_vars => TypeOK'
<1> SUFFICES ASSUME TypeOK, [Next]_vars PROVE TypeOK'
  OBVIOUS
<1>1. /\ MaxBytes \in Nat /\ MaxTime \in Nat /\ MaxClients \in Nat \ {0} /\ MaxId \in Nat \ {0}
      /\ TrafficTypeOK /\ PeersOK
  BY TrafficAssumption DEF TypeOK
<1>2. /\ client_id \in 1..MaxId /\ out \in [Guests -> -1..MaxBytes]
      /\ granting \in {<<>>} \cup (Guests \X (1..MaxId))
      /\ TimerOK /\ now \in 0..MaxTime /\ sent \in [Guests -> 0..MaxTime] /\ shared \subseteq Guests
      /\ list \in Seq(Entry) /\ Len(list) <= MaxClients /\ Len(list) \in Nat
  BY <1>1, ListType DEF TrafficTypeOK, TimerOK
<1> DEFINE Typed == /\ list' \in Seq(Entry) /\ Len(list') <= MaxClients /\ PeersOK'
                    /\ client_id' \in 1..MaxId /\ out' \in [Guests -> -1..MaxBytes]
                    /\ granting' \in {<<>>} \cup (Guests \X (1..MaxId))
                    /\ TimerOK' /\ now' \in 0..MaxTime
                    /\ sent' \in [Guests -> 0..MaxTime] /\ shared' \subseteq Guests
<1>3. SUFFICES Typed
  BY DEF TypeOK, TrafficTypeOK, TimerOK
<1>4. ASSUME NEW peer \in Guests, AddClient(peer) PROVE Typed
  <2>1. /\ list' \in Seq(Entry) /\ Len(list') = Len(list) + 1
        /\ \A j \in Places : list'[j] = list[j]
        /\ \A j \in DOMAIN list' : j \in Places \/ j = Len(list) + 1
        /\ list'[Len(list) + 1] = NewEntry(peer)
    BY <1>1, <1>4, AddedEntry DEF AddClient
  <2>2. NewEntry(peer).peer = peer /\ \A j \in Places : list[j].peer # peer
    BY <1>4 DEF NewEntry, AddClient
  <2>3. PeersOK'
    BY <1>1, <2>1, <2>2 DEF PeersOK, Places
  <2>4. Len(list) < MaxClients /\ client_id < MaxId
    BY <1>4 DEF AddClient
  <2>5. QED
    BY <1>1, <1>2, <1>4, <2>1, <2>3, <2>4 DEF AddClient, TimerOK
<1>5. ASSUME NEW peer \in Guests, Send(peer) PROVE Typed
  BY <1>1, <1>2, <1>5 DEF Send, PeersOK, Places, TimerOK
<1>6. ASSUME NEW i \in Places, GrantStep(i) PROVE Typed
  <2>1. SameEntries
    BY <1>1, <1>6, GrantedEntry DEF GrantStep, iptables_fw_authenticate
  <2>2. PeersOK' /\ list' \in Seq(Entry) /\ Len(list') <= MaxClients
    BY <2>1, SamePeers
  <2>3. shared' \subseteq Guests /\ out' \in [Guests -> -1..MaxBytes]
    BY <1>1, <1>2, <1>6 DEF GrantStep, iptables_fw_authenticate, PeersOK, Sessions, WithIp
  <2>4. QED
    BY <1>2, <1>6, <2>2, <2>3 DEF GrantStep, iptables_fw_authenticate, TimerOK
<1>7. ASSUME NEW i \in Places, DropStep(i) PROVE Typed
  <2>1. SameEntries
    BY <1>1, <1>7, ResetEntry DEF DropStep, iptables_fw_deauthenticate
  <2>2. PeersOK' /\ list' \in Seq(Entry) /\ Len(list') <= MaxClients
    BY <2>1, SamePeers
  <2>3. shared' \subseteq Guests /\ out' \in [Guests -> -1..MaxBytes]
    BY <1>1, <1>2, <1>7 DEF DropStep, iptables_fw_deauthenticate, PeersOK
  <2>4. QED
    BY <1>2, <1>7, <2>2, <2>3 DEF DropStep
<1>8. ASSUME NEW i \in Places, RemoveStep(i) PROVE Typed
  <2>1. /\ list' \in Seq(Entry) /\ Len(list') = Len(list) - 1
        /\ DOMAIN list' = 1..(Len(list) - 1)
        /\ \A j \in DOMAIN list' :
              Moved(j, i) \in Places \ {i} /\ list'[j] = list[Moved(j, i)]
        /\ \A j, k \in DOMAIN list' : j < k <=> Moved(j, i) < Moved(k, i)
    BY <1>1, <1>8, RemovedEntry DEF RemoveStep
  <2>2. ASSUME NEW j \in DOMAIN list', NEW k \in DOMAIN list', list'[j].peer = list'[k].peer
        PROVE  j = k
    <3>1. Moved(j, i) = Moved(k, i)
      BY <1>1, <2>1, <2>2 DEF PeersOK
    <3>2. j \in Nat /\ k \in Nat /\ ~(j < k) /\ ~(k < j)
      BY <2>1, <3>1, <1>2, Moved(j, i) \in Nat DEF Places, Moved
    <3>3. QED
      BY <3>2
  <2>3. PeersOK'
    BY <1>1, <2>1, <2>2 DEF PeersOK, Places
  <2>4. QED
    BY <1>1, <1>2, <1>8, <2>1, <2>3 DEF RemoveStep, TimerOK
<1>9. ASSUME SetLimits PROVE Typed
  <2>1. PeersOK' /\ list' \in Seq(Entry) /\ Len(list') <= MaxClients
    BY <1>1, <1>9, LimitsStored, SamePeers
  <2>2. QED
    BY <1>2, <1>9, <2>1 DEF SetLimits, TimerOK
<1>10. ASSUME iptables_fw_counters_update PROVE Typed
  <2>1. SameEntries
    BY <1>1, <1>10, CreditedEntries DEF iptables_fw_counters_update
  <2>2. PeersOK' /\ list' \in Seq(Entry) /\ Len(list') <= MaxClients
    BY <2>1, SamePeers
  <2>3. shared' \subseteq Guests
    BY <1>1, <1>2, <1>10 DEF iptables_fw_counters_update, PeersOK
  <2>4. TimerOK'
    BY <1>2, <1>10 DEF iptables_fw_counters_update, TimerOK
  <2>5. QED
    BY <1>2, <1>10, <2>2, <2>3, <2>4 DEF iptables_fw_counters_update
<1>11. ASSUME TimerStep PROVE Typed
  BY <1>1, <1>2, <1>11 DEF TimerStep, PeersOK, Places
<1>12. ASSUME Tick PROVE Typed
  BY <1>1, <1>2, <1>12 DEF Tick, PeersOK, Places, TimerOK
<1>13. ASSUME UNCHANGED vars PROVE Typed
  BY <1>1, <1>2, <1>13 DEF vars, PeersOK, Places, TimerOK
<1>14. QED
  BY <1>1, <1>4, <1>5, <1>6, <1>7, <1>8, <1>9, <1>10, <1>11, <1>12, <1>13, StepShapes

-------------------------------------------------------------------------------
(* The rate limits. *)

(* Where the limit in use is 0, so is that of the configuration: the limits  *)
(* of the entry count only when it has both.                                 *)
LEMMA LimitsInUse ==
    ASSUME NEW e \in Entry
    PROVE  /\ Limits(e).down \in Nat /\ Limits(e).up \in Nat
           /\ Limits(e).down = 0 => DownloadLimit = 0
           /\ Limits(e).up = 0 => UploadLimit = 0
<1>1. e.download_limit \in Nat /\ e.upload_limit \in Nat
  BY DEF Entry
<1>2. QED
  BY <1>1, LimitAssumption DEF Limits

LEMMA AttachDevices ==
    ASSUME NEW t, DevicesTyped(t), NEW down \in Nat, NEW up \in Nat, NEW idx \in Nat, NEW ip \in Ip,
           NEW p \in tc_attach_client(t, down, up, idx, ip)
    PROVE  DevicesTyped(p) /\ \A d \in Dev : Changes(t[d], p[d], idx)
<1>1. PICK dq \in IF AtMost(down, DownloadLimit) > 0
                  THEN Outcomes(t["down"], AttachCommands(idx, ip)) ELSE {t["down"]},
           uq \in IF AtMost(up, UploadLimit) > 0
                  THEN Outcomes(t["up"], AttachCommands(idx, ip)) ELSE {t["up"]} :
              p = [down |-> dq, up |-> uq]
  BY DEF tc_attach_client
<1>2. p \in [Dev -> {dq, uq}] /\ p["down"] = dq /\ p["up"] = uq
  BY <1>1 DEF Dev
<1>3. QdiscOK(t["down"]) /\ QdiscOK(t["up"]) /\ Dev = {"down", "up"}
  BY DEF DevicesTyped, Dev
<1>4. Changes(t["down"], dq, idx) /\ Changes(t["up"], uq, idx)
  BY <1>1, <1>3, AttachOutcome, ChangesOnly
<1>5. /\ DownloadLimit = 0 => dq = t["down"]
      /\ UploadLimit = 0 => uq = t["up"]
  BY <1>1 DEF AtMost
<1>6. QdiscOK(dq) /\ QdiscOK(uq) /\ dq \in Qdisc /\ uq \in Qdisc
  BY <1>4 DEF Changes, QdiscOK
<1>7. QED
  BY <1>2, <1>3, <1>4, <1>5, <1>6 DEF DevicesTyped

LEMMA DetachDevices ==
    ASSUME NEW t, DevicesTyped(t), NEW e \in Entry
    PROVE  LET p == Detached(t, e) IN
           /\ DevicesTyped(p)
           /\ \A d \in Dev : /\ Changes(t[d], p[d], e.id)
                             /\ \A c \in p[d].class : c \in t[d].class /\ c.k \notin Own(e.id)
                             /\ \A f \in p[d].filter : f \in t[d].filter /\ f.k \notin Own(e.id)
<1> DEFINE Gone(q) == Commands(q, DetachCommands(e.id), {})
           dq == IF Limits(e).down > 0 THEN Gone(t["down"]) ELSE t["down"]
           uq == IF Limits(e).up > 0 THEN Gone(t["up"]) ELSE t["up"]
           p == Detached(t, e)
           Clear(q, r) == /\ Changes(q, r, e.id)
                          /\ \A c \in r.class : c \in q.class /\ c.k \notin Own(e.id)
                          /\ \A f \in r.filter : f \in q.filter /\ f.k \notin Own(e.id)
<1>1. e.id \in Nat
  BY TrafficAssumption DEF Entry
<1>2. t \in [Dev -> Qdisc] /\ Dev = {"down", "up"} /\ QdiscOK(t["down"]) /\ QdiscOK(t["up"])
  BY DEF DevicesTyped, Dev
<1>3. p = [t EXCEPT !["down"] = dq, !["up"] = uq]
  BY DEF Detached, tc_detach_client
<1>4. p \in [Dev -> {dq, uq}] /\ p["down"] = dq /\ p["up"] = uq
  BY <1>2, <1>3
<1> HIDE DEF p
<1>5. \A q : QdiscOK(q) => Clear(q, Gone(q))
  BY <1>1, DetachAll
<1>6. \A q : QdiscOK(q) /\ Empty(q) => Clear(q, q)
  BY ChangesOnly DEF Empty
<1>7. Clear(t["down"], dq)
  <2>1. CASE Limits(e).down > 0
    BY <2>1, <1>2, <1>5
  <2>2. CASE ~(Limits(e).down > 0)
    <3>1. Limits(e).down = 0
      BY <2>2, LimitsInUse
    <3>2. QED
      BY <2>2, <3>1, <1>2, <1>6, LimitsInUse DEF DevicesTyped
  <2>3. QED
    BY <2>1, <2>2
<1>8. Clear(t["up"], uq)
  <2>1. CASE Limits(e).up > 0
    BY <2>1, <1>2, <1>5
  <2>2. CASE ~(Limits(e).up > 0)
    <3>1. Limits(e).up = 0
      BY <2>2, LimitsInUse
    <3>2. QED
      BY <2>2, <3>1, <1>2, <1>6, LimitsInUse DEF DevicesTyped
  <2>3. QED
    BY <2>1, <2>2
<1> HIDE DEF dq, uq, Gone
<1>9. /\ QdiscOK(dq) /\ QdiscOK(uq) /\ dq \in Qdisc /\ uq \in Qdisc
      /\ Empty(t["down"]) => Empty(dq)
      /\ Empty(t["up"]) => Empty(uq)
  BY <1>7, <1>8 DEF Changes, QdiscOK, Empty
<1>10. DevicesTyped(p)
  BY <1>2, <1>4, <1>9 DEF DevicesTyped
<1>11. \A d \in Dev : Clear(t[d], p[d])
  BY <1>2, <1>4, <1>7, <1>8
<1>12. QED
  BY <1>10, <1>11 DEF p

(* A class or filter with number k is there for a client with a session. *)
ForSession(k) == \E i \in Places : list[i].authenticated /\ k \in Own(list[i].id)

AllForSessions ==
    \A d \in Dev : /\ \A c \in tc[d].class : ForSession(c.k)
                   /\ \A f \in tc[d].filter : ForSession(f.k)

LEMMA ForSessions == NoShapingLeft <=> AllForSessions
BY DEF NoShapingLeft, AllForSessions, ForSession, Own

ShapingOK == DevicesOK /\ AllForSessions

LEMMA ShapingInit ==
    ASSUME Init, TypeOK
    PROVE  ShapingOK
<1>1. DevicesTyped(tc_init_tc) /\ \A d \in Dev : Empty(tc_init_tc[d])
  BY DEF DevicesTyped, tc_init_tc, QdiscAdded, NoQdisc, Empty, Dev, Qdisc, QdiscOK
<1>2. CASE tc = tc_init_tc
  BY <1>1, <1>2 DEF ShapingOK, DevicesOK, AllForSessions, Empty
<1>3. ASSUME NEW e \in Imported, list = <<e>>, tc \in Attached(tc_init_tc, e)
      PROVE  ShapingOK
  <2>1. Places = {1} /\ list[1] = e /\ e.authenticated
    <3>1. Places = {1} /\ list[1] = e
      BY <1>3 DEF Places
    <3>2. e.authenticated = TRUE
      BY DEF Imported
    <3>3. QED
      BY <3>1, <3>2
  <2>2. e \in Entry
    BY <2>1, ListType DEF TypeOK
  <2>3. e.id \in Nat /\ IpOfPeer(e.peer) \in Ip
    BY <2>2, TrafficAssumption DEF Entry, IpOfPeer, Peer
  <2>4. /\ DevicesOK
        /\ \A d \in Dev : Changes(tc_init_tc[d], tc[d], e.id)
    BY <1>1, <1>3, <2>2, <2>3, AttachDevices, LimitsInUse DEF Attached, DevicesOK
  <2>5. ASSUME NEW d \in Dev
        PROVE  /\ \A c \in tc[d].class : c.k \in Own(e.id)
               /\ \A f \in tc[d].filter : f.k \in Own(e.id)
    <3>1. QdiscOK(tc[d]) /\ Empty(tc_init_tc[d]) /\ Changes(tc_init_tc[d], tc[d], e.id)
      BY <1>1, <2>4 DEF DevicesOK, DevicesTyped
    <3>2. tc[d].class \subseteq Class /\ tc[d].filter \subseteq Filter
      BY <3>1 DEF QdiscOK, Qdisc
    <3>3. QED
      BY <3>1, <3>2 DEF Empty, Changes
  <2>6. QED
    BY <2>1, <2>4, <2>5 DEF ShapingOK, AllForSessions, ForSession
<1>4. QED
  BY <1>2, <1>3 DEF Init

LEMMA DeviceTypes ==
    ASSUME DevicesOK, NEW d \in Dev
    PROVE  QdiscOK(tc[d]) /\ tc[d].class \subseteq Class /\ tc[d].filter \subseteq Filter
BY DEF DevicesOK, DevicesTyped, QdiscOK, Qdisc

(* A step that leaves the devices alone and keeps the sessions. *)
LEMMA SessionsKept ==
    ASSUME ShapingOK, tc' = tc,
           \A i \in Places : list[i].authenticated =>
              \E j \in DOMAIN list' : list'[j].authenticated /\ list'[j].id = list[i].id
    PROVE  ShapingOK'
<1>1. DevicesOK'
  BY DEF ShapingOK, DevicesOK
<1>2. \A k : ForSession(k) => ForSession(k)'
  BY DEF ForSession, Places
<1>3. AllForSessions'
  BY <1>2 DEF ShapingOK, AllForSessions
<1>4. QED
  BY <1>1, <1>3 DEF ShapingOK

LEMMA ShapingGrant ==
    ASSUME TypeOK, ShapingOK, NEW i \in Places, GrantStep(i)
    PROVE  /\ ShapingOK'
           /\ \A d \in Dev : Changes(tc[d], tc'[d], list[i].id)
<1>1. TrafficTypeOK /\ ~list[i].authenticated /\ tc' \in Attached(tc, list[i])
  BY DEF TypeOK, GrantStep, iptables_fw_authenticate
<1>2. /\ SameEntries /\ list'[i].authenticated
      /\ \A j \in Places : j # i => list'[j] = list[j]
  BY <1>1, GrantedEntry DEF GrantStep, iptables_fw_authenticate
<1>3. list[i] \in Entry /\ list[i].id \in Nat /\ IpOfPeer(list[i].peer) \in Ip
  BY <1>1, ListType, TrafficAssumption DEF IpOfPeer, Peer
<1>4. DevicesOK' /\ \A d \in Dev : Changes(tc[d], tc'[d], list[i].id)
  BY <1>1, <1>3, AttachDevices, LimitsInUse DEF Attached, ShapingOK, DevicesOK
<1>5. \A k : ForSession(k) \/ k \in Own(list[i].id) => ForSession(k)'
  BY <1>1, <1>2 DEF ForSession, SameEntries, Places
<1>6. ASSUME NEW d \in Dev
      PROVE  /\ \A c \in tc'[d].class : ForSession(c.k)'
             /\ \A f \in tc'[d].filter : ForSession(f.k)'
  <2>1. tc'[d].class \subseteq Class /\ tc'[d].filter \subseteq Filter
    BY <1>4 DEF DevicesOK, DevicesTyped, QdiscOK, Qdisc
  <2>2. Changes(tc[d], tc'[d], list[i].id)
    BY <1>4
  <2>3. /\ \A c \in tc'[d].class : c.k \notin Own(list[i].id) => c \in tc[d].class
        /\ \A f \in tc'[d].filter : f.k \notin Own(list[i].id) => f \in tc[d].filter
    BY <2>1, <2>2 DEF Changes
  <2>4. QED
    BY <2>3, <1>5 DEF ShapingOK, AllForSessions
<1>7. QED
  BY <1>4, <1>6 DEF ShapingOK, AllForSessions

LEMMA ShapingDrop ==
    ASSUME TypeOK, ShapingOK, NEW i \in Places, DropStep(i)
    PROVE  /\ ShapingOK'
           /\ \A d \in Dev : Changes(tc[d], tc'[d], list[i].id)
<1>1. TrafficTypeOK /\ list[i].authenticated /\ tc' = Detached(tc, list[i])
  BY DEF TypeOK, DropStep, iptables_fw_deauthenticate
<1>2. SameEntries /\ \A j \in Places : j # i => list'[j] = list[j]
  BY <1>1, ResetEntry DEF DropStep, iptables_fw_deauthenticate
<1>3. list[i] \in Entry
  BY <1>1, ListType
<1>4. /\ DevicesOK'
      /\ \A d \in Dev :
            /\ Changes(tc[d], tc'[d], list[i].id)
            /\ \A c \in tc'[d].class : c \in tc[d].class /\ c.k \notin Own(list[i].id)
            /\ \A f \in tc'[d].filter : f \in tc[d].filter /\ f.k \notin Own(list[i].id)
  BY <1>1, <1>3, DetachDevices DEF ShapingOK, DevicesOK
<1>5. \A k : ForSession(k) /\ k \notin Own(list[i].id) => ForSession(k)'
  BY <1>2 DEF ForSession, SameEntries, Places
<1>6. QED
  BY <1>4, <1>5 DEF ShapingOK, AllForSessions

LEMMA ShapingStep == TypeOK /\ ShapingOK /\ [Next]_vars => ShapingOK'
<1> SUFFICES ASSUME TypeOK, ShapingOK, [Next]_vars PROVE ShapingOK'
  OBVIOUS
<1>1. TrafficTypeOK /\ PeersOK
  BY DEF TypeOK
<1>2. ASSUME NEW peer \in Guests, AddClient(peer) PROVE ShapingOK'
  <2>1. \A j \in Places : j \in DOMAIN list' /\ list'[j] = list[j]
    BY <1>1, <1>2, AddedEntry DEF AddClient
  <2>2. QED
    BY <1>2, <2>1, SessionsKept DEF AddClient
<1>3. ASSUME NEW i \in Places, RemoveStep(i) PROVE ShapingOK'
  <2>1. \A k \in Places \ {i} : \E j \in DOMAIN list' : list'[j] = list[k]
    <3>1. /\ \A j \in DOMAIN list' : list'[j] = list[Moved(j, i)]
          /\ \A k \in Places \ {i} : \E j \in DOMAIN list' : Moved(j, i) = k
      BY <1>1, <1>3, RemovedEntry DEF RemoveStep
    <3>2. QED
      BY <3>1
  <2>2. \A k \in Places : list[k].authenticated =>
           \E j \in DOMAIN list' : list'[j].authenticated /\ list'[j].id = list[k].id
    BY <1>3, <2>1 DEF RemoveStep
  <2>3. QED
    BY <1>3, <2>2, SessionsKept DEF RemoveStep
<1>4. ASSUME SetLimits PROVE ShapingOK'
  <2>1. SameEntries /\ \A j \in Places : list'[j].authenticated = list[j].authenticated
    BY <1>1, <1>4, LimitsStored
  <2>2. QED
    BY <1>4, <2>1, SessionsKept DEF SetLimits, SameEntries
<1>5. ASSUME iptables_fw_counters_update PROVE ShapingOK'
  <2>1. SameEntries /\ \A j \in Places : list'[j] = Credited(j)
    BY <1>1, <1>5, CreditedEntries DEF iptables_fw_counters_update
  <2>2. \A j \in Places : list'[j].authenticated = list[j].authenticated
    BY <1>1, <2>1, CreditedEntry
  <2>3. QED
    BY <1>5, <2>1, <2>2, SessionsKept DEF iptables_fw_counters_update, SameEntries
<1>6. ASSUME list' = list /\ tc' = tc PROVE ShapingOK'
  BY <1>6, SessionsKept DEF Places
<1>7. ASSUME (\E peer \in Guests : Send(peer)) \/ TimerStep \/ Tick \/ UNCHANGED vars
      PROVE  ShapingOK'
  BY <1>6, <1>7 DEF Send, TimerStep, Tick, vars
<1>8. QED
  BY <1>1, <1>2, <1>3, <1>4, <1>5, <1>7, ShapingGrant, ShapingDrop, StepShapes

(* Classes and filters outside the numbers of idx are those of the others. *)
LEMMA OthersKept ==
    ASSUME NEW x \in Nat, NEW idx \in Nat, x # idx, NEW t, NEW u, NEW d \in Dev,
           QdiscOK(t[d]), Changes(t[d], u[d], idx)
    PROVE  ShapingOf(u, d, x) = ShapingOf(t, d, x)
<1>1. \A k \in Own(x) : k \notin Own(idx)
  BY OwnNumbers
<1>2. /\ t[d].class \subseteq Class /\ t[d].filter \subseteq Filter
      /\ u[d].class \subseteq Class /\ u[d].filter \subseteq Filter
  BY DEF QdiscOK, Changes, Qdisc
<1>3. {c \in u[d].class : c.k \in Own(x)} = {c \in t[d].class : c.k \in Own(x)}
  BY <1>1, <1>2 DEF Changes
<1>4. {f \in u[d].filter : f.k \in Own(x)} = {f \in t[d].filter : f.k \in Own(x)}
  BY <1>1, <1>2 DEF Changes
<1>5. QED
  BY <1>3, <1>4 DEF ShapingOf, Own

(* The action of ShapingUndisturbed. *)
Undisturbed ==
    \A i \in Places, j \in DOMAIN list' :
       (/\ \A k \in Places : k # i => list[k].id # list[i].id
        /\ list[i].authenticated /\ list'[j].authenticated
        /\ list'[j].id = list[i].id)
       => \A d \in Dev : ShapingOf(tc', d, list[i].id) = ShapingOf(tc, d, list[i].id)

LEMMA UndisturbedStep == TypeOK /\ ShapingOK /\ [Next]_vars => Undisturbed
<1> SUFFICES ASSUME TypeOK, ShapingOK, [Next]_vars,
                    NEW i \in Places, NEW j \in DOMAIN list',
                    \A k \in Places : k # i => list[k].id # list[i].id,
                    list[i].authenticated, list'[j].authenticated,
                    list'[j].id = list[i].id, NEW d \in Dev
             PROVE  ShapingOf(tc', d, list[i].id) = ShapingOf(tc, d, list[i].id)
  BY DEF Undisturbed
<1>1. TrafficTypeOK /\ PeersOK
  BY DEF TypeOK
<1>2. \A k \in Places : list[k].id \in Nat
  BY <1>1, ListType, TrafficAssumption
<1>3. QdiscOK(tc[d])
  BY DeviceTypes DEF ShapingOK
<1>4. ASSUME NEW k \in Places, GrantStep(k)
      PROVE  ShapingOf(tc', d, list[i].id) = ShapingOf(tc, d, list[i].id)
  <2>1. k # i
    BY <1>4 DEF GrantStep, iptables_fw_authenticate
  <2>2. Changes(tc[d], tc'[d], list[k].id)
    BY <1>4, ShapingGrant
  <2>3. QED
    BY <2>1, <2>2, <1>2, <1>3, OthersKept
<1>5. ASSUME NEW k \in Places, DropStep(k)
      PROVE  ShapingOf(tc', d, list[i].id) = ShapingOf(tc, d, list[i].id)
  <2>1. /\ DOMAIN list' = Places /\ \A x \in Places : list'[x].id = list[x].id
        /\ ~list'[k].authenticated
    BY <1>1, <1>5, ResetEntry DEF DropStep, iptables_fw_deauthenticate, SameEntries
  <2>2. k # i
    BY <2>1
  <2>3. Changes(tc[d], tc'[d], list[k].id)
    BY <1>5, ShapingDrop
  <2>4. QED
    BY <2>2, <2>3, <1>2, <1>3, OthersKept
<1>6. ASSUME tc' = tc
      PROVE  ShapingOf(tc', d, list[i].id) = ShapingOf(tc, d, list[i].id)
  BY <1>6
<1>7. ASSUME \/ \E peer \in Guests : AddClient(peer) \/ Send(peer)
             \/ \E k \in Places : RemoveStep(k)
             \/ SetLimits \/ iptables_fw_counters_update \/ TimerStep \/ Tick
             \/ UNCHANGED vars
      PROVE  tc' = tc
  BY <1>7 DEF AddClient, Send, RemoveStep, SetLimits, iptables_fw_counters_update,
              TimerStep, Tick, vars
<1>8. QED
  BY <1>1, <1>4, <1>5, <1>6, <1>7, StepShapes

-------------------------------------------------------------------------------
(* The counters. *)

CountersOK == ClockOK /\ RulesOK /\ NoSessionOK /\ SessionOK

(* What the types are in the terms of the counters. *)
LEMMA CounterTypes ==
    ASSUME TypeOK
    PROVE  /\ \A i \in Places : /\ i \in Nat /\ list[i].peer \in Guests
                                /\ list[i].outgoing \in Nat /\ list[i].last_updated \in Nat
                                /\ list[i].authenticated \in BOOLEAN
           /\ \A p \in Guests : out[p] \in Int /\ out[p] >= -1 /\ sent[p] \in Nat
           /\ out \in [Guests -> Int] /\ sent \in [Guests -> Nat]
           /\ now \in Nat /\ timer.now \in Nat
           /\ \A i, j \in Places : list[i].peer = list[j].peer => i = j
<1>1. TrafficTypeOK /\ PeersOK /\ MaxBytes \in Nat /\ MaxTime \in Nat
  BY TrafficAssumption DEF TypeOK
<1>2. \A i \in Places : /\ i \in Nat /\ list[i].peer \in Guests
                        /\ list[i].outgoing \in Nat /\ list[i].last_updated \in Nat
                        /\ list[i].authenticated \in BOOLEAN
  BY <1>1, ListType DEF PeersOK
<1>3. /\ \A p \in Guests : out[p] \in Int /\ out[p] >= -1 /\ sent[p] \in Nat
      /\ out \in [Guests -> Int] /\ sent \in [Guests -> Nat]
      /\ now \in Nat /\ timer.now \in Nat
  BY <1>1 DEF TrafficTypeOK
<1>4. QED
  BY <1>1, <1>2, <1>3 DEF PeersOK

(* A rule that counts belongs to a session; there is one entry for a host. *)
LEMMA RuleOwner ==
    ASSUME TypeOK, CountersOK, NEW i \in Places
    PROVE  out[list[i].peer] >= 0 <=> list[i].authenticated
BY CounterTypes DEF CountersOK, RulesOK

LEMMA CountersInit ==
    ASSUME Init, TypeOK
    PROVE  CountersOK
<1>1. timer.now = 0 /\ now = 0 /\ shared = {} /\ \A p \in Guests : sent[p] = 0
  BY DEF Init
<1>2. CASE list = <<>> /\ out = [p \in Guests |-> -1]
  <2>1. Places = {} /\ \A p \in Guests : out[p] = -1
    BY <1>2 DEF Places
  <2>2. QED
    BY <1>1, <2>1 DEF CountersOK, ClockOK, RulesOK, NoSessionOK, SessionOK
<1>3. ASSUME NEW e \in Imported, list = <<e>>,
             out = [p \in Guests |-> IF p = e.peer THEN 0 ELSE -1]
      PROVE  CountersOK
  <2>1. Places = {1} /\ list[1] = e
    BY <1>3 DEF Places
  <2>2. e.authenticated = TRUE /\ e.imported = TRUE /\ e.last_updated = 0 /\ e.peer \in Guests
    BY DEF Imported
  <2>3. \A p \in Guests : out[p] >= 0 <=> p = e.peer
    BY <1>3
  <2>4. ClockOK /\ RulesOK
    BY <1>1, <2>1, <2>2, <2>3 DEF ClockOK, RulesOK
  <2>5. NoSessionOK /\ SessionOK
    BY <2>1, <2>2 DEF NoSessionOK, SessionOK, OwnCounters
  <2>6. QED
    BY <2>4, <2>5 DEF CountersOK
<1>4. QED
  BY <1>2, <1>3 DEF Init

(* A new entry comes last and has no session. *)
LEMMA CountersAdd ==
    ASSUME TypeOK, CountersOK, NEW peer \in Guests, AddClient(peer)
    PROVE  CountersOK'
<1>1. /\ TrafficTypeOK /\ Len(list) \in Nat /\ Places = 1..Len(list)
      /\ \A j \in Places : list[j].peer # peer
      /\ shared' = shared \ {peer}
      /\ UNCHANGED <<out, timer, now, sent>>
  BY ListType DEF TypeOK, AddClient
<1> DEFINE n == Len(list) + 1
<1>2. /\ \A j \in Places : j \in DOMAIN list' /\ j # n /\ list'[j] = list[j] /\ j < n
      /\ \A j \in DOMAIN list' : j \in Places \/ j = n
      /\ n \in DOMAIN list' /\ list'[n] = NewEntry(peer)
  BY <1>1, AddedEntry DEF AddClient
<1>3. /\ NewEntry(peer).peer = peer /\ ~NewEntry(peer).authenticated
      /\ NewEntry(peer).outgoing = 0 /\ NewEntry(peer).last_updated = now
  BY DEF NewEntry
<1> HIDE DEF n
<1>4. ClockOK'
  BY <1>1, <1>2, <1>3, CounterTypes DEF CountersOK, ClockOK, Places
<1>5. RulesOK'
  BY <1>1, <1>2, <1>3 DEF CountersOK, RulesOK, Places
<1>6. NoSessionOK'
  <2>1. SUFFICES ASSUME NEW j \in DOMAIN list', ~list'[j].authenticated
                 PROVE  /\ sent'[list'[j].peer] <= list'[j].last_updated
                        /\ list'[j].outgoing > 0 => list'[j].peer \in shared'
    BY DEF NoSessionOK, Places
  <2>2. CASE j \in Places
    BY <2>1, <2>2, <1>1, <1>2 DEF CountersOK, NoSessionOK
  <2>3. CASE j = n
    BY <2>3, <1>1, <1>2, <1>3 DEF CountersOK, ClockOK
  <2>4. QED
    BY <2>2, <2>3, <1>2
<1>7. SessionOK'
  <2>1. SUFFICES ASSUME NEW j \in DOMAIN list', OwnCounters(list[j])'
                 PROVE  /\ \A k \in DOMAIN list' :
                              IpOfPeer(list'[k].peer) = IpOfPeer(list'[j].peer) /\ k # j
                              => j < k /\ ~list'[k].authenticated
                        /\ list'[j].outgoing <= out'[list'[j].peer]
                        /\ list'[j].outgoing = out'[list'[j].peer] =>
                              sent'[list'[j].peer] <= list'[j].last_updated
    BY DEF SessionOK, WithIp, IpAt, Places
  <2>2. j \in Places /\ OwnCounters(list[j])
    BY <2>1, <1>1, <1>2, <1>3 DEF OwnCounters
  <2>3. QED
    BY <2>2, <1>1, <1>2, <1>3 DEF CountersOK, SessionOK, WithIp, IpAt
<1>8. QED
  BY <1>4, <1>5, <1>6, <1>7 DEF CountersOK

(* What is sent now is not credited yet. *)
LEMMA CountersSend ==
    ASSUME TypeOK, CountersOK, NEW peer \in Guests, Send(peer)
    PROVE  CountersOK'
<1>1. /\ out[peer] >= 0 /\ out' = [out EXCEPT ![peer] = @ + 1] /\ sent' = [sent EXCEPT ![peer] = now]
      /\ UNCHANGED <<list, timer, now, shared>>
  BY CounterTypes DEF Send
<1>2. /\ out'[peer] = out[peer] + 1 /\ sent'[peer] = now
      /\ \A p \in Guests \ {peer} : out'[p] = out[p] /\ sent'[p] = sent[p]
  BY <1>1, CounterTypes
<1>3. ClockOK'
  BY <1>1, <1>2, CounterTypes DEF CountersOK, ClockOK, Places
<1>4. RulesOK'
  BY <1>1, <1>2, CounterTypes DEF CountersOK, RulesOK, Places
<1>5. NoSessionOK'
  <2>1. \A i \in Places : ~list[i].authenticated => list[i].peer # peer
    BY <1>1, RuleOwner
  <2>2. QED
    BY <1>1, <1>2, <2>1, CounterTypes DEF CountersOK, NoSessionOK, Places
<1>6. SessionOK'
  <2>1. SUFFICES ASSUME NEW j \in Places, OwnCounters(list[j])
                 PROVE  /\ \A k \in WithIp(IpAt(j)) : k # j => j < k /\ ~list[k].authenticated
                        /\ list[j].outgoing <= out'[list[j].peer]
                        /\ list[j].outgoing = out'[list[j].peer] =>
                              sent'[list[j].peer] <= list[j].last_updated
    BY <1>1 DEF SessionOK, WithIp, IpAt, Places, OwnCounters
  <2>2. /\ \A k \in WithIp(IpAt(j)) : k # j => j < k /\ ~list[k].authenticated
        /\ list[j].outgoing <= out[list[j].peer]
        /\ list[j].outgoing = out[list[j].peer] => sent[list[j].peer] <= list[j].last_updated
    BY <2>1 DEF CountersOK, SessionOK
  <2>3. QED
    BY <1>2, <2>2, CounterTypes
<1>7. QED
  BY <1>3, <1>4, <1>5, <1>6 DEF CountersOK

(* SessionOK in terms of the entries of the next state. *)
LEMMA SessionOKPrime ==
    ASSUME \A j \in DOMAIN list' :
              (list'[j].authenticated /\ ~list'[j].imported /\ list'[j].peer \notin shared') =>
              /\ \A k \in DOMAIN list' :
                    IpOfPeer(list'[k].peer) = IpOfPeer(list'[j].peer) /\ k # j
                    => j < k /\ ~list'[k].authenticated
              /\ list'[j].outgoing <= out'[list'[j].peer]
              /\ list'[j].outgoing = out'[list'[j].peer] =>
                    sent'[list'[j].peer] <= list'[j].last_updated
    PROVE  SessionOK'
BY DEF SessionOK, WithIp, IpAt, Places, OwnCounters

(* A session that begins alone with its IP has counters at zero. *)
LEMMA CountersGrant ==
    ASSUME TypeOK, CountersOK, NEW i \in Places, GrantStep(i)
    PROVE  CountersOK'
<1>1. /\ TrafficTypeOK /\ ~list[i].authenticated
      /\ out' = [out EXCEPT ![list[i].peer] = 0]
      /\ shared' = IF WithIp(IpAt(i)) = {i} THEN shared
                   ELSE shared \cup {list[j].peer : j \in Sessions(IpAt(i)) \cup {i}}
      /\ UNCHANGED <<timer, now, sent>>
  BY DEF TypeOK, GrantStep, iptables_fw_authenticate
<1>2. /\ DOMAIN list' = Places
      /\ \A j \in Places : list'[j].peer = list[j].peer /\ list'[j].imported = list[j].imported
      /\ \A j \in Places : j # i => list'[j] = list[j]
      /\ list'[i].authenticated
      /\ list'[i].outgoing = list[i].outgoing /\ list'[i].last_updated = list[i].last_updated
  BY <1>1, GrantedEntry DEF GrantStep, iptables_fw_authenticate, SameEntries
<1>3. /\ out'[list[i].peer] = 0
      /\ \A p \in Guests \ {list[i].peer} : out'[p] = out[p]
  BY <1>1, CounterTypes
<1>4. ClockOK'
  BY <1>1, <1>2 DEF CountersOK, ClockOK, Places
<1>5. RulesOK'
  <2>1. SUFFICES ASSUME NEW p \in Guests
                 PROVE  out'[p] >= 0 <=> \E j \in Places : list'[j].peer = p /\ list'[j].authenticated
    BY <1>2 DEF RulesOK, Places
  <2>2. CASE p = list[i].peer
    BY <2>2, <1>2, <1>3
  <2>3. CASE p # list[i].peer
    BY <2>3, <1>2, <1>3 DEF CountersOK, RulesOK
  <2>4. QED
    BY <2>2, <2>3
<1>6. NoSessionOK'
  <2>1. shared \subseteq shared'
    BY <1>1
  <2>2. QED
    BY <1>1, <1>2, <2>1 DEF CountersOK, NoSessionOK, Places
<1>7. SessionOK'
  <2>1. SUFFICES ASSUME NEW j \in Places,
                        list'[j].authenticated, ~list'[j].imported, list'[j].peer \notin shared'
                 PROVE  /\ \A k \in Places :
                              IpOfPeer(list'[k].peer) = IpOfPeer(list'[j].peer) /\ k # j
                              => j < k /\ ~list'[k].authenticated
                        /\ list'[j].outgoing <= out'[list'[j].peer]
                        /\ list'[j].outgoing = out'[list'[j].peer] =>
                              sent'[list'[j].peer] <= list'[j].last_updated
    BY <1>2, SessionOKPrime
  <2>2. list[j].peer \notin shared
    BY <2>1, <1>1, <1>2
  <2>3. CASE j = i
    <3>1. WithIp(IpAt(i)) = {i}
      BY <2>1, <2>3, <1>1, <1>2
    <3>2. \A k \in Places : IpOfPeer(list[k].peer) = IpOfPeer(list[i].peer) => k = i
      BY <3>1 DEF WithIp, IpAt
    <3>3. sent[list[i].peer] <= list[i].last_updated /\ list[i].outgoing = 0
      BY <1>1, <2>2, <2>3, CounterTypes DEF CountersOK, NoSessionOK
    <3>4. QED
      BY <2>3, <3>2, <3>3, <1>1, <1>2, <1>3
  <2>4. CASE j # i
    <3>1. list'[j] = list[j] /\ OwnCounters(list[j])
      BY <2>1, <2>2, <2>4, <1>2 DEF OwnCounters
    <3>2. /\ \A k \in Places : IpOfPeer(list[k].peer) = IpOfPeer(list[j].peer) /\ k # j
                               => j < k /\ ~list[k].authenticated
          /\ list[j].outgoing <= out[list[j].peer]
          /\ list[j].outgoing = out[list[j].peer] => sent[list[j].peer] <= list[j].last_updated
      BY <3>1 DEF CountersOK, SessionOK, WithIp, IpAt
    <3>3. IpOfPeer(list[i].peer) # IpOfPeer(list[j].peer)
      <4>1. SUFFICES ASSUME IpOfPeer(list[i].peer) = IpOfPeer(list[j].peer) PROVE FALSE
        OBVIOUS
      <4>2. j \in WithIp(IpAt(i)) /\ j \in Sessions(IpAt(i))
        BY <4>1, <3>1 DEF WithIp, IpAt, Sessions, OwnCounters
      <4>3. QED
        BY <4>2, <2>1, <2>4, <1>1, <1>2
    <3>4. list[j].peer \in Guests \ {list[i].peer}
      BY <2>4, CounterTypes
    <3>5. QED
      BY <3>1, <3>2, <3>3, <3>4, <1>1, <1>2, <1>3
  <2>5. QED
    BY <2>3, <2>4
<1>8. QED
  BY <1>4, <1>5, <1>6, <1>7 DEF CountersOK

(* The end of a session resets its entry and forgets what was mixed up. *)
LEMMA CountersDrop ==
    ASSUME TypeOK, CountersOK, NEW i \in Places, DropStep(i)
    PROVE  CountersOK'
<1>1. /\ TrafficTypeOK
      /\ out' = [out EXCEPT ![list[i].peer] = -1]
      /\ shared' = shared \ {list[i].peer}
      /\ timer'.now = timer.now /\ UNCHANGED <<now, sent>>
  BY DEF TypeOK, DropStep, iptables_fw_deauthenticate
<1>2. /\ DOMAIN list' = Places
      /\ \A j \in Places : list'[j].peer = list[j].peer
      /\ \A j \in Places : j # i => list'[j] = list[j]
      /\ ~list'[i].authenticated /\ list'[i].outgoing = 0 /\ list'[i].last_updated = now
  BY <1>1, ResetEntry DEF DropStep, iptables_fw_deauthenticate, SameEntries
<1>3. /\ out'[list[i].peer] = -1
      /\ \A p \in Guests \ {list[i].peer} : out'[p] = out[p]
      /\ \A j \in Places : j # i => list[j].peer \in Guests \ {list[i].peer}
  BY <1>1, CounterTypes
<1>4. ClockOK'
  BY <1>1, <1>2, CounterTypes DEF CountersOK, ClockOK, Places
<1>5. RulesOK'
  <2>1. SUFFICES ASSUME NEW p \in Guests
                 PROVE  out'[p] >= 0 <=> \E j \in Places : list'[j].peer = p /\ list'[j].authenticated
    BY <1>2 DEF RulesOK, Places
  <2>2. CASE p = list[i].peer
    BY <2>2, <1>2, <1>3
  <2>3. CASE p # list[i].peer
    BY <2>3, <1>2, <1>3 DEF CountersOK, RulesOK
  <2>4. QED
    BY <2>2, <2>3
<1>6. NoSessionOK'
  <2>1. SUFFICES ASSUME NEW j \in Places, ~list'[j].authenticated
                 PROVE  /\ sent'[list'[j].peer] <= list'[j].last_updated
                        /\ list'[j].outgoing > 0 => list'[j].peer \in shared'
    BY <1>2 DEF NoSessionOK, Places
  <2>2. CASE j = i
    BY <2>2, <1>1, <1>2, CounterTypes DEF CountersOK, ClockOK
  <2>3. CASE j # i
    BY <2>1, <2>3, <1>1, <1>2, <1>3 DEF CountersOK, NoSessionOK
  <2>4. QED
    BY <2>2, <2>3
<1>7. SessionOK'
  <2>1. SUFFICES ASSUME NEW j \in Places,
                        list'[j].authenticated, ~list'[j].imported, list'[j].peer \notin shared'
                 PROVE  /\ \A k \in Places :
                              IpOfPeer(list'[k].peer) = IpOfPeer(list'[j].peer) /\ k # j
                              => j < k /\ ~list'[k].authenticated
                        /\ list'[j].outgoing <= out'[list'[j].peer]
                        /\ list'[j].outgoing = out'[list'[j].peer] =>
                              sent'[list'[j].peer] <= list'[j].last_updated
    BY <1>2, SessionOKPrime
  <2>2. j # i /\ list'[j] = list[j] /\ OwnCounters(list[j])
    BY <2>1, <1>1, <1>2, <1>3 DEF OwnCounters
  <2>3. /\ \A k \in Places : IpOfPeer(list[k].peer) = IpOfPeer(list[j].peer) /\ k # j
                             => j < k /\ ~list[k].authenticated
        /\ list[j].outgoing <= out[list[j].peer]
        /\ list[j].outgoing = out[list[j].peer] => sent[list[j].peer] <= list[j].last_updated
    BY <2>2 DEF CountersOK, SessionOK, WithIp, IpAt
  <2>4. QED
    BY <2>2, <2>3, <1>1, <1>2, <1>3
<1>8. QED
  BY <1>4, <1>5, <1>6, <1>7 DEF CountersOK

(* The order of the others stays. *)
LEMMA CountersRemove ==
    ASSUME TypeOK, CountersOK, NEW i \in Places, RemoveStep(i)
    PROVE  CountersOK'
<1>1. /\ TrafficTypeOK /\ ~list[i].authenticated
      /\ UNCHANGED <<out, timer, now, sent, shared>>
  BY DEF TypeOK, RemoveStep
<1>2. /\ \A j \in DOMAIN list' : Moved(j, i) \in Places \ {i} /\ list'[j] = list[Moved(j, i)]
      /\ \A j, k \in DOMAIN list' : j < k <=> Moved(j, i) < Moved(k, i)
      /\ \A k \in Places \ {i} : \E j \in DOMAIN list' : Moved(j, i) = k
      /\ DOMAIN list' = 1..(Len(list) - 1)
  BY <1>1, RemovedEntry DEF RemoveStep
<1>3. ClockOK'
  BY <1>1, <1>2 DEF CountersOK, ClockOK, Places
<1>4. RulesOK'
  <2>1. SUFFICES ASSUME NEW p \in Guests
                 PROVE  (\E j \in Places : list[j].peer = p /\ list[j].authenticated)
                        <=> \E j \in DOMAIN list' : list'[j].peer = p /\ list'[j].authenticated
    BY <1>1 DEF CountersOK, RulesOK, Places
  <2>2. ASSUME NEW j \in Places, list[j].peer = p, list[j].authenticated
        PROVE  \E k \in DOMAIN list' : list'[k].peer = p /\ list'[k].authenticated
    BY <2>2, <1>1, <1>2
  <2>3. QED
    BY <2>2, <1>2
<1>5. NoSessionOK'
  BY <1>1, <1>2 DEF CountersOK, NoSessionOK, Places
<1>6. SessionOK'
  <2>1. SUFFICES ASSUME NEW j \in DOMAIN list',
                        list'[j].authenticated, ~list'[j].imported, list'[j].peer \notin shared'
                 PROVE  /\ \A k \in DOMAIN list' :
                              IpOfPeer(list'[k].peer) = IpOfPeer(list'[j].peer) /\ k # j
                              => j < k /\ ~list'[k].authenticated
                        /\ list'[j].outgoing <= out'[list'[j].peer]
                        /\ list'[j].outgoing = out'[list'[j].peer] =>
                              sent'[list'[j].peer] <= list'[j].last_updated
    BY SessionOKPrime
  <2>2. PICK m \in Places : m = Moved(j, i) /\ list'[j] = list[m] /\ OwnCounters(list[m])
    BY <2>1, <1>1, <1>2 DEF OwnCounters
  <2>3. /\ \A k \in Places : IpOfPeer(list[k].peer) = IpOfPeer(list[m].peer) /\ k # m
                             => m < k /\ ~list[k].authenticated
        /\ list[m].outgoing <= out[list[m].peer]
        /\ list[m].outgoing = out[list[m].peer] => sent[list[m].peer] <= list[m].last_updated
    BY <2>2 DEF CountersOK, SessionOK, WithIp, IpAt
  <2>4. ASSUME NEW k \in DOMAIN list',
               IpOfPeer(list'[k].peer) = IpOfPeer(list'[j].peer), k # j
        PROVE  j < k /\ ~list'[k].authenticated
    <3>1. PICK n \in Places : n = Moved(k, i) /\ list'[k] = list[n]
      BY <1>2
    <3>2. n # m
      BY <2>2, <2>4, <3>1, <1>2, CounterTypes
    <3>3. m < n /\ ~list[n].authenticated
      BY <2>2, <2>3, <2>4, <3>1, <3>2
    <3>4. QED
      BY <2>2, <3>1, <3>3, <1>2
  <2>5. QED
    BY <2>2, <2>3, <2>4, <1>1
<1>7. QED
  BY <1>3, <1>4, <1>5, <1>6 DEF CountersOK

(* When the counters are read, a host with counters of its own is credited   *)
(* with all its rule has counted.                                            *)
LEMMA CreditedOwn ==
    ASSUME TypeOK, CountersOK, NEW i \in Places, OwnCounters(list[i])
    PROVE  /\ Credited(i).outgoing = out[list[i].peer]
           /\ sent[list[i].peer] <= Credited(i).last_updated
<1>1. /\ \A k \in Places : IpOfPeer(list[k].peer) = IpOfPeer(list[i].peer) /\ k # i
                           => i < k /\ ~list[k].authenticated
      /\ list[i].outgoing <= out[list[i].peer]
      /\ list[i].outgoing = out[list[i].peer] => sent[list[i].peer] <= list[i].last_updated
  BY DEF CountersOK, SessionOK, WithIp, IpAt
<1>2. TrafficTypeOK /\ list[i].peer \in Guests /\ sent[list[i].peer] <= now
  BY CounterTypes DEF TypeOK, CountersOK, ClockOK
<1>3. i = Min(WithIp(IpAt(i)))
  <2>1. PICK f \in WithIp(IpAt(i)) : f = Min(WithIp(IpAt(i))) /\ \A j \in WithIp(IpAt(i)) : f <= j
    BY <1>2, FirstWithIp
  <2>2. i \in WithIp(IpAt(i)) /\ f \in Places /\ (f # i => i < f)
    BY <2>1, <1>1 DEF WithIp, IpAt
  <2>3. QED
    BY <2>1, <2>2, CounterTypes
<1>4. out[list[i].peer] <= Credited(i).outgoing
  BY <1>2, <1>3, CreditedEntry DEF IpAt
<1>5. CASE /\ Credited(i).outgoing = list[i].outgoing
           /\ Credited(i).last_updated = list[i].last_updated
  BY <1>1, <1>2, <1>4, <1>5, CounterTypes
<1>6. ASSUME NEW p \in Guests, IpOfPeer(p) = IpAt(i), Credited(i).outgoing = out[p],
             Credited(i).outgoing > list[i].outgoing, Credited(i).last_updated = now
      PROVE  /\ Credited(i).outgoing = out[list[i].peer]
             /\ sent[list[i].peer] <= Credited(i).last_updated
  <2>1. out[p] >= 0
    BY <1>6, CounterTypes
  <2>2. PICK j \in Places : list[j].peer = p /\ list[j].authenticated
    BY <2>1 DEF CountersOK, RulesOK
  <2>3. j = i
    BY <1>1, <1>6, <2>2 DEF IpAt
  <2>4. QED
    BY <1>2, <1>6, <2>2, <2>3
<1>7. QED
  BY <1>2, <1>5, <1>6, CreditedEntry

LEMMA CountersUpdate ==
    ASSUME TypeOK, CountersOK, iptables_fw_counters_update
    PROVE  CountersOK'
<1>1. /\ TrafficTypeOK
      /\ shared' = shared \cup {list[i].peer : i \in {j \in Places : CreditedForAnother(j)}}
      /\ UNCHANGED <<out, now, sent>> /\ timer'.now = timer.now
  BY DEF TypeOK, TrafficTypeOK, iptables_fw_counters_update
<1>2. /\ DOMAIN list' = Places
      /\ \A j \in Places : list'[j] = Credited(j)
  BY <1>1, CreditedEntries DEF iptables_fw_counters_update, SameEntries
<1>3. \A j \in Places : /\ list'[j].peer = list[j].peer
                        /\ list'[j].imported = list[j].imported
                        /\ list'[j].authenticated = list[j].authenticated
  BY <1>1, <1>2, CreditedEntry
<1>4. \A j \in Places : /\ list'[j].last_updated <= now
                        /\ list[j].last_updated <= list'[j].last_updated
  BY <1>1, <1>2, CreditedEntry, CounterTypes DEF CountersOK, ClockOK
<1>5. ClockOK'
  BY <1>1, <1>2, <1>4 DEF CountersOK, ClockOK, Places
<1>6. RulesOK'
  BY <1>1, <1>2, <1>3 DEF CountersOK, RulesOK, Places
<1>7. NoSessionOK'
  <2>1. SUFFICES ASSUME NEW j \in Places, ~list[j].authenticated
                 PROVE  /\ sent[list[j].peer] <= list'[j].last_updated
                        /\ Credited(j).outgoing > 0 => list[j].peer \in shared'
    BY <1>1, <1>2, <1>3 DEF NoSessionOK, Places
  <2>2. /\ sent[list[j].peer] <= list[j].last_updated
        /\ list[j].outgoing > 0 => list[j].peer \in shared
    BY <2>1 DEF CountersOK, NoSessionOK
  <2>3. list'[j].last_updated \in Nat
    BY <1>1, <1>2, CreditedEntry, TrafficAssumption DEF Entry
  <2>4. sent[list[j].peer] <= list'[j].last_updated
    BY <2>2, <2>3, <1>4, CounterTypes
  <2>5. ASSUME Credited(j).outgoing > list[j].outgoing PROVE list[j].peer \in shared'
    <3>1. Credited(j).outgoing \in Nat
      BY <1>1, CreditedEntry, TrafficAssumption DEF Entry
    <3>2. out[list[j].peer] < 0 /\ out[list[j].peer] \in Int
      BY <2>1, RuleOwner, CounterTypes
    <3>3. CreditedForAnother(j)
      BY <2>5, <3>1, <3>2, CounterTypes DEF CreditedForAnother
    <3>4. QED
      BY <3>3, <1>1
  <2>6. Credited(j).outgoing > list[j].outgoing \/ Credited(j).outgoing = list[j].outgoing
    BY <1>1, CreditedEntry
  <2>7. QED
    BY <2>2, <2>4, <2>5, <2>6, <1>1
<1>8. SessionOK'
  <2>1. SUFFICES ASSUME NEW j \in Places,
                        list'[j].authenticated, ~list'[j].imported, list'[j].peer \notin shared'
                 PROVE  /\ \A k \in Places :
                              IpOfPeer(list'[k].peer) = IpOfPeer(list'[j].peer) /\ k # j
                              => j < k /\ ~list'[k].authenticated
                        /\ list'[j].outgoing <= out'[list'[j].peer]
                        /\ list'[j].outgoing = out'[list'[j].peer] =>
                              sent'[list'[j].peer] <= list'[j].last_updated
    BY <1>2, SessionOKPrime
  <2>2. OwnCounters(list[j])
    BY <2>1, <1>1, <1>3 DEF OwnCounters
  <2>3. \A k \in Places : IpOfPeer(list[k].peer) = IpOfPeer(list[j].peer) /\ k # j
                          => j < k /\ ~list[k].authenticated
    BY <2>2 DEF CountersOK, SessionOK, WithIp, IpAt
  <2>4. /\ list'[j].outgoing = out[list[j].peer]
        /\ sent[list[j].peer] <= list'[j].last_updated
        /\ out[list[j].peer] \in Int
    BY <2>2, <1>2, CreditedOwn, CounterTypes
  <2>5. QED
    BY <2>3, <2>4, <1>1, <1>3
<1>9. QED
  BY <1>5, <1>6, <1>7, <1>8 DEF CountersOK

LEMMA CountersLimits ==
    ASSUME TypeOK, CountersOK, SetLimits
    PROVE  CountersOK'
<1>1. /\ DOMAIN list' = Places
      /\ \A j \in Places : /\ list'[j].peer = list[j].peer /\ list'[j].imported = list[j].imported
                           /\ list'[j].authenticated = list[j].authenticated
                           /\ list'[j].outgoing = list[j].outgoing
                           /\ list'[j].last_updated = list[j].last_updated
  BY LimitsStored DEF TypeOK, SameEntries
<1>2. UNCHANGED <<out, timer, now, sent, shared>>
  BY DEF SetLimits
<1>3. ClockOK' /\ RulesOK' /\ NoSessionOK'
  BY <1>1, <1>2 DEF CountersOK, ClockOK, RulesOK, NoSessionOK, Places
<1>4. SessionOK'
  BY <1>1, <1>2 DEF CountersOK, SessionOK, OwnCounters, WithIp, IpAt, Places
<1>5. QED
  BY <1>3, <1>4 DEF CountersOK

LEMMA CountersStep == TypeOK /\ CountersOK /\ [Next]_vars => CountersOK'
<1> SUFFICES ASSUME TypeOK, CountersOK, [Next]_vars PROVE CountersOK'
  OBVIOUS
<1>1. ASSUME UNCHANGED <<list, out, sent, shared>>,
             now' \in Nat, now <= now', timer'.now <= now'
      PROVE  CountersOK'
  <2>1. ClockOK'
    BY <1>1, CounterTypes DEF CountersOK, ClockOK, Places
  <2>2. RulesOK' /\ NoSessionOK' /\ SessionOK'
    BY <1>1 DEF CountersOK, RulesOK, NoSessionOK, SessionOK, OwnCounters, WithIp, IpAt, Places
  <2>3. QED
    BY <2>1, <2>2 DEF CountersOK
<1>2. timer.now <= now /\ now \in Nat /\ timer.now \in Nat
  BY CounterTypes DEF CountersOK, ClockOK
<1>3. ASSUME TimerStep \/ Tick \/ UNCHANGED vars PROVE CountersOK'
  <2>1. UNCHANGED <<list, out, sent, shared>>
    BY <1>3 DEF TimerStep, Tick, vars
  <2>2. now' \in {now, now + 1} /\ timer'.now \in {timer.now, now}
    BY <1>3 DEF TimerStep, Tick, vars
  <2>3. now' \in Nat /\ now <= now' /\ timer'.now <= now'
    BY <2>2, <1>2
  <2>4. QED
    BY <2>1, <2>3, <1>1
<1>4. QED
  BY <1>3, CountersAdd, CountersSend, CountersGrant, CountersDrop, CountersRemove,
     CountersUpdate, CountersLimits, StepShapes DEF TypeOK
-------------------------------------------------------------------------------
(* The theorems. *)

TrafficInv == TypeOK /\ ShapingOK /\ CountersOK

(* The invariant the others rest on, in three parts of which each needs the  *)
(* first: the types and hosts of the entries, what is on the devices, and    *)
(* what the counters have to do with what was sent.                          *)
THEOREM TrafficInvariant == TrafficSpec => []TrafficInv
<1>1. Init => TrafficInv
  BY TypeInit, ShapingInit, CountersInit DEF TrafficInv
<1>2. TrafficInv /\ [Next]_vars => TrafficInv'
  BY TypeStep, ShapingStep, CountersStep DEF TrafficInv
<1>3. QED
  BY <1>1, <1>2, PTL DEF TrafficSpec

(* The variables keep their types; the limits stored for a client are no     *)
(* negative numbers, whatever a binauth program prints (do_binauth).         *)
THEOREM TrafficTypeCorrect == TrafficSpec => []TrafficTypeOK
<1>1. TrafficInv => TrafficTypeOK
  BY DEF TrafficInv, TypeOK
<1>2. QED
  BY <1>1, TrafficInvariant, PTL

(* No class and no filter stays on a device for a client whose session is    *)
(* over (tc_detach_client), whichever commands of tc_attach_client failed    *)
(* and whatever the limits of the entry became meanwhile.                    *)
THEOREM ShapingRemoved == TrafficSpec => []NoShapingLeft
<1>1. TrafficInv => NoShapingLeft
  BY ForSessions DEF TrafficInv, ShapingOK
<1>2. QED
  BY <1>1, TrafficInvariant, PTL

(* Attaching and detaching a client leave the classes and filters of every   *)
(* other session alone, when ids differ: numbers from 3 * id + 10 on do not  *)
(* overlap.                                                                  *)
THEOREM ShapingSeparate == TrafficSpec => ShapingUndisturbed
<1>1. TrafficInv /\ [Next]_vars => [Undisturbed]_vars
  BY UndisturbedStep DEF TrafficInv
<1>2. TrafficSpec => [][Undisturbed]_vars
  BY <1>1, TrafficInvariant, PTL DEF TrafficSpec
<1>3. QED
  BY <1>2 DEF ShapingUndisturbed, Undisturbed

(* The action of ActiveStays. *)
FoundIdle ==
    (timer.pc = "update" /\ timer'.pc = "lock") =>
       \A i \in DOMAIN list' : (OwnCounters(list'[i]) /\ Idle(list'[i])) =>
          sent[list'[i].peer] + IdleTimeout <= timer.now

(* Of the hosts whose counters are their own, the timeout thread finds idle  *)
(* only those that sent nothing for AuthIdleTimeout                          *)
(* (iptables_fw_counters_update, fw_refresh_client_list).                    *)
THEOREM ActiveKept == TrafficSpec => ActiveStays
<1>1. TrafficInv /\ [Next]_vars => [FoundIdle]_vars
  <2>1. SUFFICES ASSUME TrafficInv, Next, timer.pc = "update", timer'.pc = "lock",
                        NEW i \in DOMAIN list', OwnCounters(list'[i]), Idle(list'[i])
                 PROVE  sent[list'[i].peer] + IdleTimeout <= timer.now
    BY DEF FoundIdle
  <2>2. iptables_fw_counters_update
    BY <2>1 DEF Next, AddClient, Send, HttpAuthenticate, NdsctlAuth, iptables_fw_authenticate,
                auth_client_deauth, SetLimits, RoundBegins, LoopBegins, Revalidate, LoopEnds, Tick
  <2>3. TypeOK /\ CountersOK /\ TrafficTypeOK
    BY <2>1 DEF TrafficInv, TypeOK
  <2>4. i \in Places /\ list'[i] = Credited(i)
    BY <2>2, <2>3, CreditedEntries DEF iptables_fw_counters_update, SameEntries
  <2>5. OwnCounters(list[i]) /\ list'[i].peer = list[i].peer /\ list'[i].authenticated
    BY <2>1, <2>3, <2>4, CreditedEntry DEF OwnCounters
  <2>6. sent[list[i].peer] <= list'[i].last_updated
    BY <2>3, <2>4, <2>5, CreditedOwn
  <2>7. list'[i].last_updated + IdleTimeout <= timer.now
    BY <2>1, <2>5 DEF Idle
  <2>8. list'[i].last_updated \in Nat /\ sent[list[i].peer] \in Nat /\ IdleTimeout \in Nat
        /\ timer.now \in Nat
    BY <2>3, <2>4, CreditedEntry, CounterTypes, TrafficAssumption DEF Entry
  <2>9. QED
    BY <2>5, <2>6, <2>7, <2>8
<1>2. TrafficSpec => [][FoundIdle]_vars
  BY <1>1, TrafficInvariant, PTL DEF TrafficSpec
<1>3. QED
  BY <1>2 DEF ActiveStays, FoundIdle
===============================================================================
