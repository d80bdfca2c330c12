---------------------------- MODULE TrafficControl ----------------------------
(***************************************************************************)
(* Rate limits per client (tc.c): hfsc classes and u32 filters below the   *)
(* qdisc of a device, "down" for the gateway interface and "up" for the    *)
(* ifb device.  A client has three classes and three filters, numbered     *)
(* from its id; rates and the leaf qdiscs, which go with their classes,    *)
(* are left out.                                                           *)
(*                                                                         *)
(* The kernel refuses a class whose parent is missing or whose number is   *)
(* taken, and does not delete a class with children or filters.  Return    *)
(* codes are collected by the code and then ignored.                       *)
(***************************************************************************)
EXTENDS Integers, Sequences, Hosts

CONSTANTS
    DownloadLimit,   \* config->download_limit, in some unit of kbit/s
    UploadLimit,     \* config->upload_limit
    IfbFails,        \* "ip link set ifb up" fails
    TcFails          \* the commands of tc_attach_client that may fail, by number

ASSUME LimitAssumption == DownloadLimit \in Nat /\ UploadLimit \in Nat
ASSUME TcFailsAssumption == IfbFails \in BOOLEAN /\ TcFails \subseteq 1..6

VARIABLE tc   \* device -> root qdisc present, classes, filters

Dev == {"down", "up"}
NoQdisc == [root |-> FALSE, class |-> {}, filter |-> {}]

AtMost(limit, other) == IF limit < other THEN limit ELSE other   \* MIN

(* Classes 1:1 and 1:2 come with the root qdisc and are not listed. *)
RootClass == 1
QdiscAdded == [root |-> TRUE, class |-> {}, filter |-> {}]

tc_init_tc ==
    [d \in Dev |->
       IF \/ d = "down" /\ DownloadLimit > 0
          \/ d = "up" /\ UploadLimit > 0 /\ ~IfbFails
       THEN QdiscAdded ELSE NoQdisc]

-------------------------------------------------------------------------------
(* One command on the state q of a device. *)

ClassAdd(parent, k) == [op |-> "class add", parent |-> parent, k |-> k]
ClassDel(k)         == [op |-> "class del", k |-> k]
FilterAdd(k, ip, c) == [op |-> "filter add", k |-> k, ip |-> ip, flow |-> c]
FilterDel(k)        == [op |-> "filter del", k |-> k]

ClassNumbers(q) == {c.k : c \in q.class} \cup {RootClass}
InUse(q, k) == (\E c \in q.class : c.parent = k) \/ (\E f \in q.filter : f.flow = k)

Command(q, cmd) ==
    CASE cmd.op = "class add" ->
           IF q.root /\ cmd.parent \in ClassNumbers(q) /\ cmd.k \notin ClassNumbers(q)
           THEN [q EXCEPT !.class = @ \cup {[parent |-> cmd.parent, k |-> cmd.k]}] ELSE q
      [] cmd.op = "class del" ->
           IF InUse(q, cmd.k) THEN q
           ELSE [q EXCEPT !.class = {c \in @ : c.k # cmd.k}]
      [] cmd.op = "filter add" ->
           IF q.root THEN [q EXCEPT !.filter = @ \cup {[k |-> cmd.k, ip |-> cmd.ip, flow |-> cmd.flow]}]
           ELSE q
      [] cmd.op = "filter del" ->
           [q EXCEPT !.filter = {f \in @ : f.k # cmd.k}]

(* Six commands in turn; those in failed fail, and the others are run. *)
Run(q, cmds, i, failed) == IF i \in failed THEN q ELSE Command(q, cmds[i])

Commands(q, cmds, failed) ==
    LET q1 == Run(q, cmds, 1, failed)
        q2 == Run(q1, cmds, 2, failed)
        q3 == Run(q2, cmds, 3, failed)
        q4 == Run(q3, cmds, 4, failed)
        q5 == Run(q4, cmds, 5, failed)
    IN  Run(q5, cmds, 6, failed)

(* The states the commands may lead to when some of them fail. *)
Outcomes(q, cmds) == {Commands(q, cmds, failed) : failed \in SUBSET TcFails}

-------------------------------------------------------------------------------
(* Clients. *)

TcId_Overlaps(idx) == 2 * idx + 10

TcId(idx) == 3 * idx + 10

AttachCommands(idx, ip) ==
    LET id == TcId(idx) IN
    <<ClassAdd(RootClass, id), ClassAdd(id, id + 1), FilterAdd(id, ip, id + 1),
      FilterAdd(id + 1, ip, id + 1), ClassAdd(id, id + 2), FilterAdd(id + 2, ip, id + 2)>>

DetachCommands_ParentFirst(idx) ==
    LET id == TcId(idx) IN
    <<FilterDel(id + 2), FilterDel(id + 1), FilterDel(id),
      ClassDel(id), ClassDel(id + 1), ClassDel(id + 2)>>

DetachCommands(idx) ==
    LET id == TcId(idx) IN
    <<FilterDel(id + 2), FilterDel(id + 1), FilterDel(id),
      ClassDel(id + 2), ClassDel(id + 1), ClassDel(id)>>

(* The set of states tc_attach_client may lead to from t. *)
tc_attach_client(t, download_limit, upload_limit, idx, ip) ==
    {[down |-> dq, up |-> uq] :
       dq \in IF AtMost(download_limit, DownloadLimit) > 0
              THEN Outcomes(t["down"], AttachCommands(idx, ip)) ELSE {t["down"]},
       uq \in IF AtMost(upload_limit, UploadLimit) > 0
              THEN Outcomes(t["up"], AttachCommands(idx, ip)) ELSE {t["up"]}}

tc_detach_client(t, download_limit, upload_limit, idx) ==
    [t EXCEPT !["down"] = IF download_limit > 0 THEN Commands(@, DetachCommands(idx), {}) ELSE @,
              !["up"]   = IF upload_limit > 0 THEN Commands(@, DetachCommands(idx), {}) ELSE @]

(* What the device d does for the client with this id. *)
ShapingOf(t, d, idx) ==
    LET own == TcId(idx)..(TcId(idx) + 2) IN
    [class |-> {c \in t[d].class : c.k \in own}, filter |-> {f \in t[d].filter : f.k \in own}]
===============================================================================
