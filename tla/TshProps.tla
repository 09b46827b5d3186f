------------------------------- MODULE TshProps -------------------------------
(***************************************************************************)
(* The properties of tsh.  The first group holds; the last group is what   *)
(* comments of lab9/tsh.c say and the code does not do.                    *)
(***************************************************************************)
EXTENDS Tsh, FiniteSets

Listed(p) == \E i \in Slot : jobs[i].pid = p
Frames == {frames[k] : k \in DOMAIN frames}

\* A frame has reaped p and has not yet taken it off the list.
ReapedBy(f, p) ==
  /\ f.sig = "CHLD" /\ f.pid = p
  /\ f.status = "ended" /\ f.pc \in {"block", "update"}

-----------------------------------------------------------------------------
(***************************************************************************)
(* Every listed PID is a child that is not reaped yet, except while the    *)
(* handler that reaped it is about to delete the job: fg, bg and ctrl-c    *)
(* never aim at a process that is not ours (eval blocks SIGCHLD from       *)
(* before the fork until the job is added).                                *)
(***************************************************************************)
JobsAreChildren ==
  \A p \in PID : Listed(p) => proc[p] # "free" \/ \E f \in Frames : ReapedBy(f, p)

(***************************************************************************)
(* A PID is listed once, so that deletejob, getjobpid and pid2jid, which   *)
(* stop at the first match, see the only one.                              *)
(***************************************************************************)
UniquePids ==
  \A i, j \in Slot : jobs[i].pid = jobs[j].pid /\ jobs[i].pid # 0 => i = j

(***************************************************************************)
(* A child the shell has not reaped is on the list, where the user can see *)
(* and manage it, from addjob until it is reaped (when the list is long    *)
(* enough for all of them): the handler deletes no job that is alive.      *)
(***************************************************************************)
NoOrphan ==
  Running /\ Cardinality(PID) <= MAXJOBS =>
    \A p \in PID : proc[p] # "free" => Listed(p) \/ (pc = "addjob" /\ pid = p)

(***************************************************************************)
(* A zombie, or a stop that waitpid has not reported, is never forgotten:  *)
(* a SIGCHLD is pending, or a handler has yet to come back to waitpid.     *)
(* Signals do not queue, so one SIGCHLD may stand for several children.    *)
(***************************************************************************)
NoLostChild ==
  Running /\ (\E p \in PID : proc[p] \in {"dead", "stopped"}) =>
    "CHLD" \in pend \/ \E f \in Frames : f.sig = "CHLD"

(***************************************************************************)
(* When no handler runs, SIGCHLD is blocked exactly while eval adds a job  *)
(* and nothing else ever is, whatever sigchld_handler blocked and          *)
(* unblocked with its uninitialised set.                                   *)
(***************************************************************************)
MaskRestored ==
  Running /\ MainTurn => mask = IF pc \in Critical THEN {"CHLD"} ELSE {}

(***************************************************************************)
(* At most one job is in the foreground, none while the shell reads or     *)
(* looks up a command, and waitfg waits for that one: the header's "At     *)
(* most 1 job can be in the FG state", at every instruction.               *)
(***************************************************************************)
ForegroundIsWaitedFor ==
  \A i \in Slot : jobs[i].state = "FG" =>
    /\ pc \in {"unblock", "loadwait", "waitfg"} \cup Ended
    /\ pc \in {"unblock", "waitfg"} => jobs[i].pid = pid
    /\ pc = "loadwait" => i = slot
    /\ \A j \in Slot : jobs[j].state = "FG" => i = j

(***************************************************************************)
(* A stop is recorded while it lasts: when a job becomes ST its process is *)
(* stopped (or has ended since), even if one handler interrupted another   *)
(* between the report of waitpid and the update of the list.               *)
(***************************************************************************)
StopsRecordedWhileStopped ==
  [][~ForeignSIGCONT =>
       \A i \in Slot : jobs[i].state # "ST" /\ jobs'[i].state = "ST" =>
         proc[jobs[i].pid] # "running"]_vars

(***************************************************************************)
(* ctrl-c and ctrl-z aim at the job that was in the foreground when the    *)
(* handler looked, never at one in the background.                         *)
(***************************************************************************)
KeysSpareBackground ==
  \A f \in Frames : f.pc = "kill" =>
    \A i \in Slot : jobs[i].pid = f.pid => jobs[i].state \in {"FG", "ST"}

(***************************************************************************)
(* The job list goes through the states the user is promised.              *)
(***************************************************************************)
StateOf(p) == IF Listed(p) THEN jobs[getjobpid(jobs, p)].state ELSE "UNDEF"
JC == INSTANCE JobControl WITH state <- [p \in PID |-> StateOf(p)]
JobStates == JC!Spec

(***************************************************************************)
(* When the child that waitfg waits for ends or stops, the shell comes     *)
(* back to its prompt (or has ended).                                      *)
(***************************************************************************)
WaitfgReturns ==
  \A p \in PID :
    pc = "waitfg" /\ pid = p /\ proc[p] \in {"dead", "stopped"} ~> pc # "waitfg"

(***************************************************************************)
(* The shell leaves no zombie behind: a dead child is reaped.              *)
(***************************************************************************)
ZombiesAreReaped ==
  \A p \in PID : proc[p] = "dead" ~> proc[p] = "free" \/ ~Running

-----------------------------------------------------------------------------
(***************************************************************************)
(* sigint_handler: "Catch it and send it along to the foreground job".     *)
(* When it calls kill there is a process group to send the signal to.      *)
(***************************************************************************)
CtrlCReachesItsJob == Running => \A f \in Frames : f.pc = "kill" => GroupExists(f.pid)

(***************************************************************************)
(* waitfg: "Block until process pid is no longer the foreground process":  *)
(* when no job is in the foreground, it returns.                           *)
(***************************************************************************)
WaitfgReturnsWithoutForeground ==
  pc = "waitfg" /\ (\A i \in Slot : jobs[i].state # "FG") ~> pc # "waitfg"

(***************************************************************************)
(* getjobjid: "Find a job (by JID) on the job list": every job is found by *)
(* the job ID it is listed under.                                          *)
(***************************************************************************)
JobsFoundByJid ==
  \A i \in Slot : jobs[i].pid # 0 => getjobjid(jobs, jobs[i].jid) = i
=============================================================================
