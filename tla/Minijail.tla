------------------------------ MODULE Minijail ------------------------------
(***************************************************************************)
(* The process life cycle that libminijail.h documents: a jail is        *)
(* allocated, restricted, then either entered by the caller or used to     *)
(* spawn children (minijail_run*, minijail_fork); the caller collects the *)
(* first child's exit status once, with minijail_wait or minijail_kill,   *)
(* and destroys the jail.  The library's implementation is not in this    *)
(* repository: every action is the contract the header states for the     *)
(* call, with the child process as a second actor.                        *)
(*                                                                         *)
(* A status is an int; a negative one is -errno.  Exit codes are ints and *)
(* the header's (n & 0xFF) is n % 256, which TLA+ keeps non-negative just *)
(* as the mask does in two's complement.                                   *)
(***************************************************************************)
EXTENDS Integers, Sequences, FiniteSets

CONSTANTS
  Jails,       \* struct minijail objects the caller may allocate
  MaxProcs,    \* children spawned over a behaviour
  MaxCalls,    \* minijail_* calls the caller makes over a behaviour
  ExitCodes,   \* codes a child may pass to exit()
  ExtSignals,  \* signals other than the caller's SIGTERM that may end a child
  HookChoices,    \* the hook events the caller registers hooks for
  SeccompChoices, \* the calls the caller installs a seccomp filter with
  MountChoices    \* the calls the caller requests a mount or chroot with

\* Linux numbers of the signals and errno values the contract names.
SIGABRT == 6
SIGTERM == 15
SIGSYS  == 31
ESRCH   == 3
ECHILD  == 10

Procs == 1 .. MaxProcs

(* The exit status codes of minijail_wait() (the anonymous enum).          *)
MINIJAIL_ERR_NO_ACCESS  == 126
MINIJAIL_ERR_NO_COMMAND == 127
MINIJAIL_ERR_SIG_BASE   == 128
MINIJAIL_ERR_MOUNT      == 251
MINIJAIL_ERR_PRELOAD    == 252
MINIJAIL_ERR_JAIL       == 253
MINIJAIL_ERR_INIT       == 254

(* How a child ended, and the status minijail_wait() reports for it: the  *)
(* errors of setup and exec as themselves, SIGSYS as MINIJAIL_ERR_JAIL,   *)
(* another signal n as SIG_BASE + n, and exit(n) as n & 0xFF.             *)
NotEnded == [how |-> "none", val |-> 0]
Encode(o) ==
  CASE o.how = "exit"   -> o.val % 256
    [] o.how = "signal" -> IF o.val = SIGSYS THEN MINIJAIL_ERR_JAIL
                           ELSE MINIJAIL_ERR_SIG_BASE + o.val
    [] o.how = "err"    -> o.val

(* minijail_hook_event_t, without its sentinel MINIJAIL_HOOK_EVENT_MAX.    *)
HookEvents == {"PRE_DROP_CAPS", "PRE_EXECVE", "PRE_CHROOT"}

(* The minijail_run* family: each variant either privilege-drops through  *)
(* LD_PRELOAD or, for the _no_preload ones, in the child before execve.   *)
(* Their pid, pipe, envp and fd outputs carry no state the model needs.   *)
RunVariants == {"run", "run_env", "run_pid", "run_pipe", "run_pid_pipes",
                "run_env_pid_pipes", "run_fd_env_pid_pipes", "run_no_preload",
                "run_pid_pipes_no_preload", "run_env_pid_pipes_no_preload"}
Preload(v) == v \notin {"run_no_preload", "run_pid_pipes_no_preload",
                        "run_env_pid_pipes_no_preload"}

(* The setters that install a seccomp filter, whose violation kills the  *)
(* child with SIGSYS.                                                      *)
SeccompFilterSetters == {"use_seccomp_filter", "set_seccomp_filters",
                         "parse_seccomp_filters", "parse_seccomp_filters_from_fd"}

(* The setters that make the child mount something while it sets up:     *)
(* chroot and pivot_root bind the requested mounts into the new root, and *)
(* each mount needs its target to exist there.                            *)
MountSetters == {"enter_chroot", "enter_pivot_root", "mount_tmp", "mount_dev",
                 "mount_with_data", "mount", "bind", "add_remount"}

(* The capability setters: use_caps and capbset_drop exclude each other, *)
(* and set_ambient_caps requires use_caps.                                 *)
CapsOps == {"use_caps", "capbset_drop", "set_ambient_caps"}

ASSUME /\ HookChoices \subseteq HookEvents
       /\ SeccompChoices \subseteq SeccompFilterSetters
       /\ MountChoices \subseteq MountSetters

(* A jail's restrictions: pid and user namespaces, hooks, a mount          *)
(* namespace, a seccomp filter, requested mounts, the capability calls.   *)
NoConfig == [pids |-> FALSE, user |-> FALSE, hooks |-> {}, mountns |-> FALSE,
             seccomp |-> FALSE, mounts |-> FALSE, caps |-> {}]

VARIABLES
  jail,      \* jail[j]: "free", "new" (being restricted), "used" or "destroyed"
  config,    \* config[j]: the restrictions added to j
  forked,    \* forked[j]: j has been passed to minijail_fork()
  spawned,   \* spawned[j]: the children started in j, in spawn order
  proc,      \* proc[p]: child p's phase, how it ended, and how it was made
  reaped,    \* reaped[p]: p's status has been collected (p is gone)
  caller,    \* the calling thread: idle, or blocked in wait/kill on caller.jail
  self,      \* the calling process: "free", "jailed" by minijail_enter, or "aborted"
  calls,     \* the minijail_* calls made so far
  returned   \* returned[j]: the values minijail_wait/kill on j returned, in order

vars == <<jail, config, forked, spawned, proc, reaped, caller, self, calls, returned>>

NumSpawned == Cardinality({p \in Procs : proc[p].phase # "unused"})

NoCall == [op |-> "idle", jail |-> CHOOSE j \in Jails : TRUE]

Unused == [phase |-> "unused", outcome |-> NotEnded, preload |-> FALSE,
           exec |-> FALSE, cfg |-> NoConfig, handles_term |-> FALSE, term |-> FALSE]

Init ==
  /\ jail = [j \in Jails |-> "free"]
  /\ config = [j \in Jails |-> NoConfig]
  /\ forked = [j \in Jails |-> FALSE]
  /\ spawned = [j \in Jails |-> <<>>]
  /\ proc = [p \in Procs |-> Unused]
  /\ reaped = [p \in Procs |-> FALSE]
  /\ caller = NoCall
  /\ self = "free"
  /\ calls = 0
  /\ returned = [j \in Jails |-> <<>>]

(* The caller makes a call: it is not blocked, has not aborted, and has   *)
(* calls left.                                                             *)
Idle == caller.op = "idle" /\ self # "aborted" /\ calls < MaxCalls
Call == calls' = calls + 1

----------------------------------------------------------------------------
(* minijail_new(): a jail with no restrictions.                           *)
minijail_new(j) ==
  /\ Idle /\ jail[j] = "free"
  /\ Call
  /\ jail' = [jail EXCEPT ![j] = "new"]
  /\ config' = [config EXCEPT ![j] = NoConfig]
  /\ UNCHANGED <<forked, spawned, proc, reaped, caller, self, returned>>

(* A restriction is recorded in the jail and applied only when the jail   *)
(* is entered or a child is set up.  The header's pattern of use restricts *)
(* a fresh jail; nothing forbids restricting it again between two runs.   *)
Restrict(j) ==
  /\ Idle /\ jail[j] \in {"new", "used"}
  /\ Call
  /\ UNCHANGED <<jail, forked, spawned, proc, reaped, caller, self, returned>>

(* namespace_pids implies namespace_vfs (and a read-only /proc);           *)
(* namespace_pids_rw_proc implies namespace_vfs and leaves /proc writable. *)
(* Which of the two was called makes no difference to the life cycle.     *)
PidsSetters == {"namespace_pids", "namespace_pids_rw_proc"}

minijail_namespace_pids(j, v) ==
  /\ v \in PidsSetters
  /\ Restrict(j)
  /\ config' = [config EXCEPT ![j].pids = TRUE, ![j].mountns = TRUE]

minijail_namespace_user(j) ==
  /\ Restrict(j)
  /\ config' = [config EXCEPT ![j].user = TRUE]

(* namespace_vfs and namespace_enter_vfs: a new or an existing mount      *)
(* namespace.                                                              *)
minijail_namespace_vfs(j) ==
  /\ Restrict(j)
  /\ config' = [config EXCEPT ![j].mountns = TRUE]

minijail_seccomp_filter(j, s) ==
  /\ s \in SeccompFilterSetters
  /\ Restrict(j)
  /\ config' = [config EXCEPT ![j].seccomp = TRUE]

minijail_mount(j, m) ==
  /\ m \in MountSetters
  /\ Restrict(j)
  /\ config' = [config EXCEPT ![j].mounts = TRUE]

(* The caller keeps to the header's rules on the capability calls.        *)
minijail_caps(j, c) ==
  /\ Restrict(j)
  /\ c = "use_caps" => "capbset_drop" \notin config[j].caps
  /\ c = "capbset_drop" => "use_caps" \notin config[j].caps
  /\ c = "set_ambient_caps" => "use_caps" \in config[j].caps
  /\ config' = [config EXCEPT ![j].caps = @ \cup {c}]

minijail_add_hook(j, e) ==
  /\ Restrict(j)
  /\ config' = [config EXCEPT ![j].hooks = @ \cup {e}]

(* minijail_enter() locks the calling process into j.  It cannot fail: if *)
(* the privilege drop fails, or a pid namespace was requested, the whole  *)
(* process aborts.  With a user namespace the header requires run or fork *)
(* instead, so the call is not made.                                       *)
minijail_enter(j) ==
  /\ Idle /\ jail[j] \in {"new", "used"} /\ self = "free" /\ ~config[j].user
  /\ Call
  /\ \/ self' = "aborted"
     \/ ~config[j].pids /\ self' = "jailed"
  /\ jail' = [jail EXCEPT ![j] = "used"]
  /\ UNCHANGED <<config, forked, spawned, proc, reaped, caller, returned>>

(* A child of j that starts its jailed setup.                             *)
Spawn(j, preload, exec) ==
  LET p == NumSpawned + 1 IN
  /\ p \in Procs
  /\ \E handles \in BOOLEAN :
       proc' = [proc EXCEPT ![p] = [Unused EXCEPT !.phase = "setup",
                  !.preload = preload, !.exec = exec,
                  !.cfg = config[j], !.handles_term = handles]]
  /\ spawned' = [spawned EXCEPT ![j] = Append(@, p)]

(* minijail_run* (variant v): forks a child that sets up the jail and     *)
(* execve()s the command.  Hooks can only be used without LD_PRELOAD, so  *)
(* a preload variant is not called on a jail with hooks.                  *)
minijail_run(j, v) ==
  /\ Idle /\ jail[j] \in {"new", "used"}
  /\ Call
  /\ ~(Preload(v) /\ config[j].hooks # {})
  /\ Spawn(j, Preload(v), TRUE)
  /\ jail' = [jail EXCEPT ![j] = "used"]
  /\ UNCHANGED <<config, forked, reaped, caller, self, returned>>

(* minijail_fork(): like fork(2), with the child jailed before it returns *)
(* 0 in it; the child goes on running the caller's code, without preload. *)
minijail_fork(j) ==
  /\ Idle /\ jail[j] \in {"new", "used"}
  /\ Call
  /\ Spawn(j, FALSE, FALSE)
  /\ forked' = [forked EXCEPT ![j] = TRUE]
  /\ jail' = [jail EXCEPT ![j] = "used"]
  /\ UNCHANGED <<config, reaped, caller, self, returned>>

----------------------------------------------------------------------------
(* The child sets up from cfg, the copy of its jail's restrictions that   *)
(* fork gave it: restrictions the caller adds to the jail later are not   *)
(* its own.  Setup runs the hooks; a hook that returns non-zero makes the *)
(* child abort.  Once the child has ended, how it ended and how it was    *)
(* made are kept: a dead process has no handlers or pending signals.      *)
Ends(p, how, val) ==
  proc' = [proc EXCEPT ![p].phase = "exited", ![p].outcome = [how |-> how, val |-> val],
                       ![p].handles_term = FALSE, ![p].term = FALSE]

HookFails(p) ==
  /\ proc[p].phase = "setup" /\ proc[p].cfg.hooks # {}
  /\ Ends(p, "signal", SIGABRT)
  /\ UNCHANGED <<calls, jail, config, forked, spawned, reaped, caller, self, returned>>

(* The errors setup can end with under restrictions c: it may fail to     *)
(* initialise, to mount (only with a mount namespace or requested mounts) *)
(* or, under LD_PRELOAD, to preload.                                       *)
SetupErrors(c, preload) ==
  {MINIJAIL_ERR_INIT} \cup
  (IF c.mountns \/ c.mounts THEN {MINIJAIL_ERR_MOUNT} ELSE {}) \cup
  (IF preload THEN {MINIJAIL_ERR_PRELOAD} ELSE {})

SetupFails(p) ==
  /\ proc[p].phase = "setup"
  /\ \E e \in SetupErrors(proc[p].cfg, proc[p].preload) : Ends(p, "err", e)
  /\ UNCHANGED <<calls, jail, config, forked, spawned, reaped, caller, self, returned>>

(* Setup completes: a run child execve()s the command, which may not be   *)
(* found or not be runnable; a forked child returns from minijail_fork.   *)
SetupDone(p) ==
  /\ proc[p].phase = "setup"
  /\ \/ proc' = [proc EXCEPT ![p].phase = "running"]
     \/ /\ proc[p].exec
        /\ \E e \in {MINIJAIL_ERR_NO_COMMAND, MINIJAIL_ERR_NO_ACCESS} : Ends(p, "err", e)
  /\ UNCHANGED <<calls, jail, config, forked, spawned, reaped, caller, self, returned>>

ChildExits(p) ==
  /\ proc[p].phase = "running"
  /\ \E n \in ExitCodes : Ends(p, "exit", n)
  /\ UNCHANGED <<calls, jail, config, forked, spawned, reaped, caller, self, returned>>

(* A signal from elsewhere: a seccomp violation's SIGSYS, a SIGKILL.      *)
ChildSignalled(p) ==
  /\ proc[p].phase \in {"setup", "running"}
  /\ \E s \in ExtSignals : Ends(p, "signal", s)
  /\ UNCHANGED <<calls, jail, config, forked, spawned, reaped, caller, self, returned>>

(* The seccomp filter installed in setup kills the program with SIGSYS    *)
(* when it makes a system call the filter forbids.                         *)
SeccompKill(p) ==
  /\ proc[p].phase = "running" /\ proc[p].cfg.seccomp
  /\ Ends(p, "signal", SIGSYS)
  /\ UNCHANGED <<calls, jail, config, forked, spawned, reaped, caller, self, returned>>

(* A pending SIGTERM ends the child unless the running program handles it. *)
TermDelivered(p) ==
  /\ proc[p].term
  /\ \/ proc[p].phase = "setup"
     \/ proc[p].phase = "running" /\ ~proc[p].handles_term
  /\ Ends(p, "signal", SIGTERM)
  /\ UNCHANGED <<calls, jail, config, forked, spawned, reaped, caller, self, returned>>

----------------------------------------------------------------------------
(* The jail's first child, which minijail_wait and minijail_kill act on.  *)
First(j) == spawned[j][1]

Returns(j, r) == returned' = [returned EXCEPT ![j] = Append(@, r)]

(* minijail_wait(): -ECHILD at once if no child was started or the first  *)
(* one was already waited for; otherwise the caller blocks until it ends. *)
minijail_wait(j) ==
  /\ Idle /\ jail[j] \in {"new", "used"}
  /\ Call
  /\ IF spawned[j] = <<>> \/ reaped[First(j)]
       THEN Returns(j, -ECHILD) /\ UNCHANGED caller
       ELSE caller' = [op |-> "wait", jail |-> j] /\ UNCHANGED returned
  /\ UNCHANGED <<jail, config, forked, spawned, proc, reaped, self>>

(* Bug variant: minijail_kill that waits without sending SIGTERM.        *)
minijail_kill_no_signal(j) ==
  /\ Idle /\ jail[j] \in {"new", "used"}
  /\ Call
  /\ IF spawned[j] = <<>> \/ reaped[First(j)]
       THEN Returns(j, -ESRCH) /\ UNCHANGED <<caller, proc>>
       ELSE caller' = [op |-> "kill", jail |-> j] /\ UNCHANGED <<returned, proc>>
  /\ UNCHANGED <<jail, config, forked, spawned, reaped, self>>

(* minijail_kill(): a negative error (-ESRCH) if there is no process to   *)
(* signal; otherwise SIGTERM to the first child, then wait for it.         *)
minijail_kill(j) ==
  /\ Idle /\ jail[j] \in {"new", "used"}
  /\ Call
  /\ IF spawned[j] = <<>> \/ reaped[First(j)]
       THEN Returns(j, -ESRCH) /\ UNCHANGED <<caller, proc>>
       ELSE /\ proc' = [proc EXCEPT ![First(j)].term = TRUE]
            /\ caller' = [op |-> "kill", jail |-> j]
            /\ UNCHANGED returned
  /\ UNCHANGED <<jail, config, forked, spawned, reaped, self>>

(* Bug variant: the status is returned but the child is not recorded as  *)
(* waited for, so a second wait collects it again.                         *)
WaitReturns_no_mark ==
  LET j == caller.jail IN
  /\ caller.op \in {"wait", "kill"}
  /\ proc[First(j)].phase = "exited"
  /\ Returns(j, Encode(proc[First(j)].outcome))
  /\ caller' = NoCall
  /\ UNCHANGED <<calls, jail, config, forked, spawned, proc, reaped, self>>

(* The blocked wait or kill returns once the first child has ended: its   *)
(* status is collected, and the process can be waited only once.           *)
WaitReturns ==
  LET j == caller.jail IN
  /\ caller.op \in {"wait", "kill"}
  /\ proc[First(j)].phase = "exited"
  /\ Returns(j, Encode(proc[First(j)].outcome))
  /\ reaped' = [reaped EXCEPT ![First(j)] = TRUE]
  /\ caller' = NoCall
  /\ UNCHANGED <<calls, jail, config, forked, spawned, proc, self>>

(* minijail_destroy(): frees j; its children are not killed.              *)
minijail_destroy(j) ==
  /\ Idle /\ jail[j] \in {"new", "used"}
  /\ Call
  /\ jail' = [jail EXCEPT ![j] = "destroyed"]
  /\ UNCHANGED <<config, forked, spawned, proc, reaped, caller, self, returned>>

(* minijail_copy_jail(from, out): out becomes a deep copy of from's       *)
(* restrictions, to contain a separate child.  It is invalid once from   *)
(* has been passed to minijail_fork; out is a fresh jail with no child.  *)
minijail_copy_jail(from, out) ==
  /\ Idle /\ from # out
  /\ Call
  /\ Call
  /\ jail[from] \in {"new", "used"} /\ jail[out] = "new"
  /\ ~forked[from] /\ spawned[out] = <<>>
  /\ config' = [config EXCEPT ![out] = config[from]]
  /\ UNCHANGED <<jail, forked, spawned, proc, reaped, caller, self, returned>>

----------------------------------------------------------------------------
Next ==
  \/ \E j \in Jails :
       \/ minijail_new(j) \/ minijail_namespace_user(j) \/ minijail_namespace_vfs(j)
       \/ \E v \in PidsSetters : minijail_namespace_pids(j, v)
       \/ \E e \in HookChoices : minijail_add_hook(j, e)
       \/ \E sc \in SeccompChoices : minijail_seccomp_filter(j, sc)
       \/ \E m \in MountChoices : minijail_mount(j, m)
       \/ \E c \in CapsOps : minijail_caps(j, c)
       \/ minijail_enter(j)
       \/ \E v \in RunVariants : minijail_run(j, v)
       \/ minijail_fork(j)
       \/ minijail_wait(j) \/ minijail_kill(j) \/ minijail_destroy(j)
       \/ \E out \in Jails : minijail_copy_jail(j, out)
  \/ WaitReturns
  \/ \E p \in Procs :
       \/ HookFails(p) \/ SetupFails(p) \/ SetupDone(p)
       \/ ChildExits(p) \/ ChildSignalled(p) \/ SeccompKill(p) \/ TermDelivered(p)

(* The kernel delivers a pending signal, and waitpid returns once the     *)
(* child is a zombie.  Nothing forces a child to exit on its own.          *)
Fairness ==
  /\ WF_vars(WaitReturns)
  /\ \A p \in Procs : WF_vars(TermDelivered(p))

Spec == Init /\ [][Next]_vars /\ Fairness

----------------------------------------------------------------------------
(* minijail_wait and minijail_kill on a jail report a non-negative status *)
(* at most once over the jail's life, and it is the status that encodes   *)
(* how the jail's first child ended, whichever of the child's own exit,   *)
(* an outside signal and the caller's SIGTERM came first.                 *)
StatusReportedOnce ==
  \A j \in Jails :
    LET st == {i \in DOMAIN returned[j] : returned[j][i] >= 0} IN
    /\ Cardinality(st) <= 1
    /\ \A i \in st : /\ proc[First(j)].phase = "exited"
                     /\ returned[j][i] = Encode(proc[First(j)].outcome)

(* minijail_kill returns: once it has sent SIGTERM to a first child that *)
(* does not handle it, the caller is eventually unblocked.                *)
KillReturns ==
  \A j \in Jails :
    (caller.op = "kill" /\ caller.jail = j /\ ~proc[First(j)].handles_term)
      ~> caller.op = "idle"
=============================================================================
