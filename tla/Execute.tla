------------------------------- MODULE Execute --------------------------------
(***************************************************************************)
(* Running commands (util.c, fw_iptables.c) under the SIGCHLD handler of   *)
(* main.c.  Several threads run commands at the same time: the webserver   *)
(* runs the binauth script without a lock while the timeout thread runs    *)
(* iptables under the client list lock and the ndsctl thread under the     *)
(* configuration lock.  The disposition of SIGCHLD is one for the process, *)
(* and sigchld_handler reaps any child.                                    *)
(***************************************************************************)
EXTENDS Integers, FiniteSets

CONSTANTS
    Thread,       \* threads that run commands, no two under the same lock
    ExitCode,     \* exit codes of the commands
    MaxCommands   \* bound of the model: commands begun

ASSUME ExitCodeAssumption == ExitCode \subseteq 0..254
ASSUME MaxCommandsAssumption == MaxCommands \in Nat

VARIABLES
    disposition,   \* of SIGCHLD: "SIG_DFL" or "sigchld_handler"
    pending,       \* a SIGCHLD is pending
    handling,      \* runs of sigchld_handler before their waitpid
    cmd,           \* thread -> the command it runs
    begun          \* commands begun so far

execVars == <<disposition, pending, handling, cmd, begun>>

Disposition == {"SIG_DFL", "sigchld_handler"}

(* execute: with the handler switched off; iptables: the same, up to five    *)
(* times; popen: a plain popen and pclose, as for `ip neigh' and the         *)
(* counters.                                                                 *)
Kind == {"execute", "iptables", "popen"}
Tries == 5

(* The status of a child that a signal killed. *)
Killed == -2

(* i: the loop variable of iptables_do_command; oldsa: the disposition to    *)
(* restore; child: what became of the child; status: how it ended, when it   *)
(* did; rc: what the caller gets.                                            *)
Command == [pc : {"idle", "set", "popen", "wait", "restore"}, kind : Kind, i : 0..(Tries - 1),
            oldsa : Disposition, child : {"none", "running", "exited", "reaped"},
            status : ExitCode \cup {-1, Killed}, rc : ExitCode \cup {-1, 0, 255}]

NoCommand == [pc |-> "idle", kind |-> "execute", i |-> 0, oldsa |-> "SIG_DFL",
              child |-> "none", status |-> -1, rc |-> -1]

ExecInit ==
    /\ disposition = "sigchld_handler"
    /\ pending = FALSE
    /\ handling = 0
    /\ cmd = [t \in Thread |-> NoCommand]
    /\ begun = 0

-------------------------------------------------------------------------------
SetCommand(t, c) == cmd' = [cmd EXCEPT ![t] = c]

Begin(t, kind) ==
    /\ cmd[t].pc = "idle"
    /\ begun < MaxCommands
    /\ begun' = begun + 1
    /\ SetCommand(t, [NoCommand EXCEPT !.kind = kind,
                          !.pc = IF kind = "popen" THEN "popen" ELSE "set"])
    /\ UNCHANGED <<disposition, pending, handling>>

(* sigaction(SIGCHLD, SIG_DFL): a pending SIGCHLD is discarded. *)
SetDefault(t) ==
    /\ cmd[t].pc = "set"
    /\ SetCommand(t, [cmd[t] EXCEPT !.pc = "popen", !.oldsa = disposition])
    /\ disposition' = "SIG_DFL"
    /\ pending' = FALSE
    /\ UNCHANGED <<handling, begun>>

AfterChild(kind) == IF kind = "popen" THEN "idle" ELSE "restore"

Popen(t) ==
    /\ cmd[t].pc = "popen"
    /\ SetCommand(t, [cmd[t] EXCEPT !.pc = "wait", !.child = "running", !.status = -1])
    /\ UNCHANGED <<disposition, pending, handling, begun>>

PopenFails(t) ==
    /\ cmd[t].pc = "popen"
    /\ SetCommand(t, [cmd[t] EXCEPT !.pc = AfterChild(cmd[t].kind), !.rc = -1, !.status = -1])
    /\ UNCHANGED <<disposition, pending, handling, begun>>

(* The command exits or is killed by a signal.  SIGCHLD goes nowhere unless  *)
(* the handler is installed.                                                 *)
ChildExits(t) ==
    /\ cmd[t].child = "running"
    /\ \E code \in ExitCode \cup {Killed} :
         SetCommand(t, [cmd[t] EXCEPT !.child = "exited", !.status = code])
    /\ pending' = (pending \/ disposition = "sigchld_handler")
    /\ UNCHANGED <<disposition, handling, begun>>

(* Some thread enters sigchld_handler ... *)
Deliver ==
    /\ pending
    /\ pending' = FALSE
    /\ handling' = handling + 1
    /\ UNCHANGED <<disposition, cmd, begun>>

(* ... and reaps one child, whoever waits for it, if there is one. *)
sigchld_handler ==
    /\ handling > 0
    /\ handling' = handling - 1
    /\ \/ \E t \in Thread : /\ cmd[t].child = "exited"
                            /\ SetCommand(t, [cmd[t] EXCEPT !.child = "reaped"])
       \/ (\A t \in Thread : cmd[t].child # "exited") /\ UNCHANGED cmd
    /\ UNCHANGED <<disposition, pending, begun>>

ExitStatus_Raw(c) ==
    IF c.child # "exited" THEN 255
    ELSE IF c.status = Killed THEN 0 ELSE 256 * c.status

ExitStatus_NoChildIsSuccess(c) ==
    IF c.child # "exited" \/ c.status = Killed THEN 0 ELSE c.status

(* WEXITSTATUS of what pclose returned.  It is 0 for a child that a signal   *)
(* killed, which _execute_ret logs and does not tell from success.  When the *)
(* child was reaped by the handler pclose returns -1, which gives 255.       *)
ExitStatus(c) ==
    IF c.child # "exited" THEN 255
    ELSE IF c.status = Killed THEN 0 ELSE c.status

(* pclose waits for the child. *)
Pclose(t) ==
    /\ cmd[t].pc = "wait"
    /\ cmd[t].child \in {"exited", "reaped"}
    /\ SetCommand(t, [cmd[t] EXCEPT !.pc = AfterChild(cmd[t].kind), !.child = "none",
                          !.rc = ExitStatus(cmd[t])])
    /\ UNCHANGED <<disposition, pending, handling, begun>>

(* iptables_do_command tries again: iptables was busy. *)
Retries(c) == c.kind = "iptables" /\ c.rc = 4 /\ c.i + 1 < Tries

Restore_TryNotCounted(t) ==
    /\ cmd[t].pc = "restore"
    /\ disposition' = cmd[t].oldsa
    /\ pending' = (pending /\ cmd[t].oldsa = "sigchld_handler")
    /\ SetCommand(t, [cmd[t] EXCEPT !.pc = IF Retries(cmd[t]) THEN "set" ELSE "idle"])
    /\ UNCHANGED <<handling, begun>>

(* sigaction(SIGCHLD, &oldsa), and the next try or the end. *)
Restore(t) ==
    /\ cmd[t].pc = "restore"
    /\ disposition' = cmd[t].oldsa
    /\ pending' = (pending /\ cmd[t].oldsa = "sigchld_handler")
    /\ SetCommand(t, [cmd[t] EXCEPT !.pc = IF Retries(cmd[t]) THEN "set" ELSE "idle",
                          !.i = IF Retries(cmd[t]) THEN @ + 1 ELSE 0])
    /\ UNCHANGED <<handling, begun>>

Step(t) == SetDefault(t) \/ Popen(t) \/ PopenFails(t) \/ ChildExits(t) \/ Pclose(t) \/ Restore(t)

ExecNext ==
    \/ \E t \in Thread, kind \in Kind : Begin(t, kind)
    \/ \E t \in Thread : Step(t)
    \/ Deliver
    \/ sigchld_handler

ExecSpec == ExecInit /\ [][ExecNext]_execVars

(* Threads and signal handlers run, and a command that was started ends (the *)
(* code sets no time limit on one).                                          *)
ExecFairSpec ==
    /\ ExecSpec
    /\ \A t \in Thread : WF_execVars(Step(t))
    /\ WF_execVars(Deliver)
    /\ WF_execVars(sigchld_handler)

-------------------------------------------------------------------------------
(* Properties. *)

ExecTypeOK ==
    /\ disposition \in Disposition
    /\ pending \in BOOLEAN
    /\ handling \in Nat
    /\ cmd \in [Thread -> Command]
    /\ begun \in Nat

(* No failure is lost on the way to the caller: an exit code other than zero *)
(* is not taken for success, nor is a status that sigchld_handler took away  *)
(* from the thread that waits for it, nor a child that was never started.    *)
(* Only a child that a signal killed looks like one that succeeded.          *)
FailureReported ==
    \A t \in Thread : cmd[t].pc \in {"restore", "idle"} /\ cmd[t].rc = 0 =>
       cmd[t].status \in {0, Killed}

(* The caller gets its answer: it does not wait for a child that is gone,    *)
(* and iptables is not tried for ever.                                       *)
CommandEnds == \A t \in Thread : cmd[t].pc # "idle" ~> cmd[t].pc = "idle"
===============================================================================
