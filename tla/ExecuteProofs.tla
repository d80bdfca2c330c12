----------------------------- MODULE ExecuteProofs ----------------------------
(***************************************************************************)
(* No failure is lost on the way to the caller, for any number of threads  *)
(* and commands.  FailureReported alone is not inductive: the status must  *)
(* not change after pclose, so a child runs or waits to be reaped only     *)
(* while its thread is in pclose.                                          *)
(***************************************************************************)
EXTENDS Execute, TLAPS

CommandsTypeOK == disposition \in Disposition /\ cmd \in [Thread -> Command]

(* A child exists while its thread waits for it, and not otherwise. *)
ChildAwaited ==
    \A t \in Thread : cmd[t].pc # "wait" => cmd[t].child = "none"

ExecInv == CommandsTypeOK /\ ChildAwaited /\ FailureReported

LEMMA ExecInitOK == ExecInit => ExecInv
  BY ExitCodeAssumption
  DEF ExecInit, ExecInv, CommandsTypeOK, ChildAwaited, FailureReported, NoCommand, Command,
      Disposition, Kind, Tries

(* One thread's command changes to c. *)
LEMMA SetCommandOK ==
    ASSUME ExecInv, NEW t \in Thread, NEW c \in Command, SetCommand(t, c),
           disposition' \in Disposition,
           c.pc # "wait" => c.child = "none",
           c.pc \in {"restore", "idle"} /\ c.rc = 0 => c.status \in {0, Killed}
    PROVE  ExecInv'
  BY DEF ExecInv, CommandsTypeOK, ChildAwaited, FailureReported, SetCommand

(* The steps of one thread. *)
LEMMA StepOK ==
    ASSUME ExecInv, NEW t \in Thread, Step(t)
    PROVE  ExecInv'
  <1> DEFINE c == cmd[t]
  <1>0. /\ c \in Command
        /\ c.pc # "wait" => c.child = "none"
        /\ c.pc \in {"restore", "idle"} /\ c.rc = 0 => c.status \in {0, Killed}
        /\ disposition \in Disposition
    BY DEF ExecInv, CommandsTypeOK, ChildAwaited, FailureReported
  <1>1. CASE SetDefault(t)
    <2> DEFINE d == [c EXCEPT !.pc = "popen", !.oldsa = disposition]
    <2>1. d \in Command /\ d.pc = "popen" /\ d.child = "none"
      BY <1>0, <1>1 DEF SetDefault, Command
    <2>2. SetCommand(t, d) /\ disposition' \in Disposition
      BY <1>1 DEF SetDefault, Disposition
    <2> QED BY <2>1, <2>2, SetCommandOK
  <1>2. CASE Popen(t)
    <2> DEFINE d == [c EXCEPT !.pc = "wait", !.child = "running", !.status = -1]
    <2>1. d \in Command /\ d.pc = "wait"
      BY <1>0 DEF Command
    <2>2. SetCommand(t, d) /\ disposition' \in Disposition
      BY <1>0, <1>2 DEF Popen
    <2> QED BY <2>1, <2>2, SetCommandOK
  <1>3. CASE PopenFails(t)
    <2> DEFINE d == [c EXCEPT !.pc = AfterChild(c.kind), !.rc = -1, !.status = -1]
    <2>0. AfterChild(c.kind) \in {"idle", "restore"}
      BY DEF AfterChild
    <2>1. d \in Command /\ d.child = "none" /\ d.status = -1 /\ d.rc = -1
      BY <1>0, <1>3, <2>0 DEF PopenFails, Command
    <2>3. d.rc # 0
      BY <2>1
    <2>2. SetCommand(t, d) /\ disposition' \in Disposition
      BY <1>0, <1>3 DEF PopenFails
    <2> QED BY <2>1, <2>2, <2>3, SetCommandOK
  <1>4. CASE ChildExits(t)
    <2>1. PICK code \in ExitCode \cup {Killed} : SetCommand(t, [c EXCEPT !.child = "exited", !.status = code])
      BY <1>4 DEF ChildExits
    <2> DEFINE d == [c EXCEPT !.child = "exited", !.status = code]
    <2>2. d \in Command /\ d.pc = "wait"
      BY <1>0, <1>4 DEF ChildExits, Command
    <2>3. disposition' \in Disposition
      BY <1>0, <1>4 DEF ChildExits
    <2> QED BY <2>1, <2>2, <2>3, SetCommandOK
  <1>5. CASE Pclose(t)
    <2> DEFINE r == ExitStatus(c)
    <2> DEFINE d == [c EXCEPT !.pc = AfterChild(c.kind), !.child = "none", !.rc = r]
    <2>1. AfterChild(c.kind) \in {"idle", "restore"}
      BY DEF AfterChild
    <2>2. r \in ExitCode \cup {-1, 0, 255} /\ (r = 0 => c.status \in {0, Killed})
      <3>1. c.status \in ExitCode \cup {-1, Killed}
        BY <1>0 DEF Command
      <3>2. QED
        BY <3>1 DEF ExitStatus
    <2>3. SetCommand(t, d) /\ disposition' \in Disposition
      BY <1>0, <1>5 DEF Pclose
    <2> HIDE DEF r
    <2> HIDE DEF c
    <2>4. d \in Command
      <3>1. c \in Command
        BY <1>0
      <3> DEFINE a == AfterChild(c.kind)
      <3>2. a \in {"idle", "restore"} /\ r \in ExitCode \cup {-1, 0, 255}
        BY <2>1, <2>2
      <3> HIDE DEF a
      <3>3. [c EXCEPT !.pc = a] \in Command
        BY <3>1, <3>2 DEF Command
      <3>4. [c EXCEPT !.pc = a, !.child = "none"] \in Command
        BY <3>3 DEF Command
      <3>5. [c EXCEPT !.pc = a, !.child = "none", !.rc = r] \in Command
        BY <3>2, <3>4 DEF Command
      <3> QED BY <3>5 DEF a
    <2>5. d.child = "none" /\ d.rc = r /\ d.status = c.status
      BY <1>0 DEF Command
    <2>6. d.rc = 0 => d.status \in {0, Killed}
      BY <2>2, <2>5
    <2> HIDE DEF d
    <2> QED BY <2>3, <2>4, <2>5, <2>6, SetCommandOK
  <1>6. CASE Restore(t)
    <2> DEFINE d == [c EXCEPT !.pc = IF Retries(c) THEN "set" ELSE "idle",
                              !.i = IF Retries(c) THEN c.i + 1 ELSE 0]
    <2>1. c.i \in 0..(Tries - 1) /\ c.pc = "restore"
      BY <1>0, <1>6 DEF Restore, Command
    <2>2. (IF Retries(c) THEN c.i + 1 ELSE 0) \in 0..(Tries - 1)
      BY <2>1, SMT DEF Retries, Tries
    <2>3. d \in Command /\ d.child = "none" /\ (d.rc = 0 => d.status \in {0, Killed})
      BY <1>0, <2>1, <2>2 DEF Command
    <2>4. SetCommand(t, d) /\ disposition' \in Disposition
      BY <1>0, <1>6 DEF Restore, Command
    <2> QED BY <2>3, <2>4, SetCommandOK
  <1> QED BY <1>1, <1>2, <1>3, <1>4, <1>5, <1>6 DEF Step

LEMMA ExecNextOK == ExecInv /\ [ExecNext]_execVars => ExecInv'
  <1> SUFFICES ASSUME ExecInv, [ExecNext]_execVars PROVE ExecInv'
    OBVIOUS
  <1>1. ASSUME NEW t \in Thread, NEW kind \in Kind, Begin(t, kind) PROVE ExecInv'
    <2> DEFINE d == [NoCommand EXCEPT !.kind = kind,
                                      !.pc = IF kind = "popen" THEN "popen" ELSE "set"]
    <2>0. NoCommand \in Command
      BY DEF NoCommand, Command, Disposition, Kind, Tries
    <2>1. d \in Command
      BY <2>0 DEF Command
    <2>3. d.child = "none" /\ d.rc # 0
      BY DEF NoCommand
    <2>2. SetCommand(t, d) /\ disposition' \in Disposition
      BY <1>1 DEF Begin, ExecInv, CommandsTypeOK
    <2> QED BY <2>1, <2>2, <2>3, SetCommandOK
  <1>2. CASE Deliver
    BY <1>2 DEF Deliver, ExecInv, CommandsTypeOK, ChildAwaited, FailureReported
  <1>3. CASE sigchld_handler
    <2>1. CASE UNCHANGED cmd
      BY <1>3, <2>1 DEF sigchld_handler, ExecInv, CommandsTypeOK, ChildAwaited, FailureReported
    <2>2. ASSUME NEW t \in Thread, cmd[t].child = "exited",
                 SetCommand(t, [cmd[t] EXCEPT !.child = "reaped"])
          PROVE  ExecInv'
      <3> DEFINE d == [cmd[t] EXCEPT !.child = "reaped"]
      <3>1. d \in Command /\ d.pc = "wait"
        BY <2>2 DEF ExecInv, CommandsTypeOK, ChildAwaited, Command
      <3>2. disposition' \in Disposition
        BY <1>3 DEF sigchld_handler, ExecInv, CommandsTypeOK
      <3> QED BY <2>2, <3>1, <3>2, SetCommandOK
    <2> QED BY <1>3, <2>1, <2>2 DEF sigchld_handler
  <1>4. CASE UNCHANGED execVars
    BY <1>4 DEF execVars, ExecInv, CommandsTypeOK, ChildAwaited, FailureReported
  <1> QED BY <1>1, <1>2, <1>3, <1>4, StepOK DEF ExecNext

(* sigchld_handler may take the status of any command at any time; whatever  *)
(* the interleaving, a caller of _execute_ret, iptables_do_command or pclose *)
(* that sees success started a child that exited with 0 or that a signal     *)
(* killed; no other failure is taken for success.                            *)
THEOREM FailureReachesCaller == ExecSpec => []FailureReported
  <1>1. ExecInv => FailureReported
    BY DEF ExecInv
  <1> QED BY <1>1, ExecInitOK, ExecNextOK, PTL DEF ExecSpec

(* The signal side of the type: what is pending, how many handlers run. *)
SignalsTypeOK == pending \in BOOLEAN /\ handling \in Nat /\ begun \in Nat

(* Type correctness for any number of threads and commands: the loop         *)
(* variable of iptables_do_command stays below five, no more runs of         *)
(* sigchld_handler end than began, and a caller gets an exit code, -1 or     *)
(* 255.                                                                      *)
THEOREM ExecTypeCorrect == ExecSpec => []ExecTypeOK
  <1>1. ExecInit => SignalsTypeOK
    <2>1. ExecInit => pending \in BOOLEAN
      BY Zenon DEF ExecInit
    <2>2. ExecInit => handling \in Nat /\ begun \in Nat
      BY DEF ExecInit
    <2>3. QED
      BY <2>1, <2>2 DEF SignalsTypeOK
  <1>2. SignalsTypeOK /\ [ExecNext]_execVars => SignalsTypeOK'
    <2> SUFFICES ASSUME SignalsTypeOK, [ExecNext]_execVars PROVE SignalsTypeOK'
      OBVIOUS
    <2>1. pending' \in BOOLEAN
      <3>1. ASSUME NEW t \in Thread, Step(t) PROVE pending' \in BOOLEAN
        BY <3>1 DEF Step, SetDefault, Popen, PopenFails, ChildExits, Pclose, Restore,
                    SignalsTypeOK
      <3>2. QED
        BY <3>1 DEF ExecNext, Begin, Deliver, sigchld_handler, execVars, SignalsTypeOK
    <2>2. handling' \in Nat /\ begun' \in Nat
      <3>1. handling \in Nat /\ begun \in Nat
        BY DEF SignalsTypeOK
      <3>2. ASSUME NEW t \in Thread, Step(t) PROVE UNCHANGED <<handling, begun>>
        BY <3>2 DEF Step, SetDefault, Popen, PopenFails, ChildExits, Pclose, Restore
      <3>3. ASSUME NEW t \in Thread, NEW kind \in Kind, Begin(t, kind)
            PROVE  handling' = handling /\ begun' = begun + 1
        BY <3>3 DEF Begin
      <3>4. ASSUME Deliver PROVE handling' = handling + 1 /\ begun' = begun
        BY <3>4 DEF Deliver
      <3>5. ASSUME sigchld_handler
            PROVE  handling > 0 /\ handling' = handling - 1 /\ begun' = begun
        BY <3>5 DEF sigchld_handler
      <3>6. UNCHANGED execVars => UNCHANGED <<handling, begun>>
        BY DEF execVars
      <3>7. QED
        BY <3>1, <3>2, <3>3, <3>4, <3>5, <3>6 DEF ExecNext
    <2>3. QED
      BY <2>1, <2>2 DEF SignalsTypeOK
  <1>3. ExecInv /\ SignalsTypeOK => ExecTypeOK
    BY DEF ExecInv, CommandsTypeOK, SignalsTypeOK, ExecTypeOK
  <1> QED BY <1>1, <1>2, <1>3, ExecInitOK, ExecNextOK, PTL DEF ExecSpec
===============================================================================
