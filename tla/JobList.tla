------------------------------- MODULE JobList -------------------------------
(***************************************************************************)
(* The job list of tsh (lab9/tsh.c): the array jobs[MAXJOBS], the counter  *)
(* nextjid, and the helpers that read and change them.  A helper that      *)
(* changes both returns both, as a record.  Command lines are left out.    *)
(*                                                                         *)
(* An operator named <definition>_<slip> is the definition with a likely   *)
(* programming slip.  Nothing uses it: it shows that a property notices.   *)
(***************************************************************************)
EXTENDS Integers, FiniteSetsExt

CONSTANTS
  MAXJOBS,   \* length of the job list (16 in the source)
  PID        \* the process IDs the kernel hands out; pid < 1 is any other number

ASSUME MAXJOBSAssumption == MAXJOBS \in Nat \ {0}
ASSUME PIDAssumption == PID \cap {0, -1} = {} /\ IsFiniteSet(PID)

JobState == {"UNDEF", "FG", "BG", "ST"}
Slot == 0 .. (MAXJOBS - 1)
NULL == -1   \* the null job pointer; the other pointers are the slots

Job == [pid : PID \cup {0}, jid : Nat, state : JobState]
EmptyJob == [pid |-> 0, jid |-> 0, state |-> "UNDEF"]

clearjob_KeepState(job) == [EmptyJob EXCEPT !.state = job.state]
clearjob_KeepPid(job) == [EmptyJob EXCEPT !.pid = job.pid]
clearjob(job) == EmptyJob

initjobs == [i \in Slot |-> EmptyJob]

\* The loops of the helpers stop at the first slot that matches.
FirstSlot(S) == IF S = {} THEN NULL ELSE Min(S)

maxjid(jobs) == Max({0} \cup {jobs[i].jid : i \in Slot})

getjobpid_AnyJob(jobs, pid) == FirstSlot({i \in Slot : jobs[i].pid # 0})
getjobpid(jobs, pid) ==
  IF pid \notin PID THEN NULL ELSE FirstSlot({i \in Slot : jobs[i].pid = pid})

getjobjid(jobs, jid) ==
  IF jid < 1 THEN NULL ELSE FirstSlot({i \in Slot : jobs[i].jid = jid})

fgpid_AnyJob(jobs) ==
  LET i == FirstSlot({k \in Slot : jobs[k].state # "UNDEF"})
  IN  IF i = NULL THEN 0 ELSE jobs[i].pid

fgpid(jobs) ==
  LET i == FirstSlot({k \in Slot : jobs[k].state = "FG"})
  IN  IF i = NULL THEN 0 ELSE jobs[i].pid

AfterJid_WrapToZero(jid) == IF jid + 1 > MAXJOBS THEN 0 ELSE jid + 1
\* nextjid++, back to 1 above MAXJOBS
AfterJid(jid) == IF jid + 1 > MAXJOBS THEN 1 ELSE jid + 1

\* A full list, or the pid -1 of a failed fork, leaves everything as it was.
addjob(jobs, nextjid, pid, state) ==
  LET i == FirstSlot({k \in Slot : jobs[k].pid = 0})
  IN  IF pid \notin PID \/ i = NULL
      THEN [jobs |-> jobs, nextjid |-> nextjid]
      ELSE [jobs |-> [jobs EXCEPT ![i] = [pid |-> pid, jid |-> nextjid, state |-> state]],
            nextjid |-> AfterJid(nextjid)]

deletejob(jobs, nextjid, pid) ==
  LET i == getjobpid(jobs, pid)
      cleared == [jobs EXCEPT ![i] = clearjob(jobs[i])]
  IN  IF i = NULL
      THEN [jobs |-> jobs, nextjid |-> nextjid]
      ELSE [jobs |-> cleared, nextjid |-> maxjid(cleared) + 1]

setstate(jobs, i, state) == [jobs EXCEPT ![i].state = state]
=============================================================================
