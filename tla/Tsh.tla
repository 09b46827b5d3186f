--------------------------------- MODULE Tsh ---------------------------------
(***************************************************************************)
(* The tiny shell of lab9/tsh.c: its read/eval loop, the handlers that     *)
(* interrupt it, and its children.                                         *)
(*                                                                         *)
(* The main flow is a program counter with the locals of the routine it is *)
(* in; a step is the code between two points where a handler may come in.  *)
(* Handlers are a stack of frames, the running one on top: the kernel      *)
(* pushes a frame for a pending signal that the mask lets through, and the *)
(* main flow advances only when the stack is empty.                        *)
(***************************************************************************)
EXTENDS JobList, Sequences

CONSTANTS
  Keys,            \* the signals sent to the shell from outside
  HandlerMasks,    \* what the uninitialised sigset of sigchld_handler may hold
  ForeignSIGCONT,  \* may somebody else than the shell continue a child?
  MaxJid,          \* bound: no job is started once nextjid is above it
  MaxDepth         \* bound: no handler is entered above this depth

Signals == {"INT", "TSTP", "QUIT", "CHLD"}

ASSUME KeysAssumption == Keys \subseteq Signals \ {"CHLD"}
ASSUME HandlerMasksAssumption == HandlerMasks \subseteq SUBSET Signals
ASSUME BoundsAssumption ==
  MaxJid \in Nat /\ MaxDepth \in Nat /\ ForeignSIGCONT \in BOOLEAN

VARIABLES
  jobs, nextjid,        \* the job list
  pc, bg, pid, slot,    \* the main flow: where it is, and its locals
  frames, mask, pend,   \* handler stack, blocked signals, pending signals
  proc, leader          \* the kernel's process table; who has done setpgid

list == <<jobs, nextjid>>
main == <<pc, bg, pid, slot>>
signals == <<frames, mask, pend>>
kernel == <<proc, leader>>
vars == <<list, main, signals, kernel>>

-----------------------------------------------------------------------------
\* eval holds SIGCHLD blocked at these points.
Critical == {"fork", "addjob", "unblock"}
Ended == {"exited", "died"}   \* exit() as asked for; exit(1) by unix_error
MainPC == {"read", "waitfg", "load", "kill", "setstate", "loadwait"}
            \cup Critical \cup Ended

(***************************************************************************)
(* "stopped" has stopped and nobody was told; "seen" is stopped and        *)
(* waitpid has reported it; "dead" is a zombie; "free" is no child.        *)
(***************************************************************************)
ProcState == {"free", "running", "stopped", "seen", "dead"}
Status == {"none", "ended", "stopped"}
HandlerPC == {"wait", "block", "update", "unblock", "fgpid", "kill"}
Frame == [sig : Signals \ {"QUIT"}, pc : HandlerPC, pid : PID \cup {0}, status : Status,
          mset : SUBSET Signals, saved : SUBSET Signals]

TypeOK ==
  /\ jobs \in [Slot -> Job]
  /\ nextjid \in Nat \ {0}
  /\ pc \in MainPC
  /\ bg \in BOOLEAN
  /\ pid \in PID \cup {0, -1}
  /\ slot \in Slot \cup {NULL}
  /\ frames \in Seq(Frame)
  /\ mask \in SUBSET Signals
  /\ pend \in SUBSET Signals
  /\ proc \in [PID -> ProcState]
  /\ leader \in SUBSET PID

Init ==
  /\ jobs = initjobs /\ nextjid = 1
  /\ pc = "read" /\ bg = FALSE /\ pid = 0 /\ slot = NULL
  /\ frames = <<>> /\ mask = {} /\ pend = {}
  /\ proc = [p \in PID |-> "free"] /\ leader = {}

Running == pc \notin Ended
MainTurn == frames = <<>>

\* Process group p exists from its leader's setpgid until the leader is reaped.
GroupExists(p) == p \in leader

\* SIGCONT resumes the stopped processes among S, and tells their parent.
Continue(S) ==
  LET resumed == {p \in S : proc[p] \in {"stopped", "seen"}}
  IN  /\ proc' = [p \in PID |-> IF p \in resumed THEN "running" ELSE proc[p]]
      /\ pend' = IF resumed = {} THEN pend ELSE pend \cup {"CHLD"}

-----------------------------------------------------------------------------
(* The main flow.  Back in the read loop no local is live.                 *)

Return == pc' = "read" /\ bg' = FALSE /\ pid' = 0 /\ slot' = NULL

Die == pc' = "died" /\ UNCHANGED <<bg, pid, slot>>

StartState_Swapped(background) == IF background THEN "FG" ELSE "BG"
StartState(background) == IF background THEN "BG" ELSE "FG"

\* The set maskchild of eval
maskchild_Empty == {}
maskchild == {"CHLD"}

\* quit, or the end of the input
Quit ==
  /\ MainTurn /\ pc = "read"
  /\ pc' = "exited"
  /\ UNCHANGED <<list, bg, pid, slot, signals, kernel>>

\* A command that is not builtin: SIGCHLD is blocked before the fork.
Run(background) ==
  /\ MainTurn /\ pc = "read" /\ nextjid <= MaxJid
  /\ pc' = "fork" /\ bg' = background
  /\ mask' = mask \cup maskchild
  /\ UNCHANGED <<list, pid, slot, frames, pend, kernel>>

Fork ==
  /\ MainTurn /\ pc = "fork"
  /\ pc' = "addjob"
  /\ \/ \E p \in PID :
          /\ proc[p] = "free"
          /\ proc' = [proc EXCEPT ![p] = "running"]
          /\ pid' = p
     \/ pid' = -1 /\ UNCHANGED proc
  /\ UNCHANGED <<list, bg, slot, signals, leader>>

AddJob ==
  LET r == addjob(jobs, nextjid, pid, StartState(bg))
  IN  /\ MainTurn /\ pc = "addjob"
      /\ jobs' = r.jobs /\ nextjid' = r.nextjid
      /\ pc' = "unblock"
      /\ UNCHANGED <<bg, pid, slot, signals, kernel>>

Unblock_ForegroundOnly ==
  /\ MainTurn /\ pc = "unblock"
  /\ \/ bg /\ Return /\ UNCHANGED mask
     \/ ~bg /\ pc' = "waitfg" /\ mask' = mask \ maskchild /\ UNCHANGED <<bg, pid, slot>>
  /\ UNCHANGED <<list, frames, pend, kernel>>

Unblock ==
  /\ MainTurn /\ pc = "unblock"
  /\ mask' = mask \ maskchild
  /\ \/ bg /\ Return
     \/ ~bg /\ pc' = "waitfg" /\ UNCHANGED <<bg, pid, slot>>
  /\ UNCHANGED <<list, frames, pend, kernel>>

\* do_bgfg: find the job the user names, by PID or by %jobid.
FindJob(background) ==
  /\ MainTurn /\ pc = "read"
  /\ \E i \in {getjobpid(jobs, p) : p \in PID} \cup {getjobjid(jobs, j) : j \in 1 .. MaxJid} :
       i # NULL /\ slot' = i
  /\ pc' = "load" /\ bg' = background
  /\ UNCHANGED <<list, pid, signals, kernel>>

LoadPid ==
  /\ MainTurn /\ pc = "load"
  /\ pid' = jobs[slot].pid
  /\ pc' = "kill"
  /\ UNCHANGED <<list, bg, slot, signals, kernel>>

\* kill(-pid, SIGCONT); with 0 the signal goes to the shell's own group.
KillCont ==
  /\ MainTurn /\ pc = "kill"
  /\ \/ /\ pid # 0 /\ ~GroupExists(pid)
        /\ Die
        /\ UNCHANGED <<pend, proc>>
     \/ /\ pid = 0 \/ GroupExists(pid)
        /\ Continue(IF pid = 0 THEN PID \ leader ELSE {pid})
        /\ pc' = "setstate"
        /\ UNCHANGED <<bg, pid, slot>>
  /\ UNCHANGED <<list, frames, mask, leader>>

SetState ==
  /\ MainTurn /\ pc = "setstate"
  /\ jobs' = setstate(jobs, slot, StartState(bg))
  /\ \/ bg /\ Return
     \/ ~bg /\ pc' = "loadwait" /\ UNCHANGED <<bg, pid, slot>>
  /\ UNCHANGED <<nextjid, signals, kernel>>

\* The argument of waitfg(job->pid) is read after the state was set.
LoadWait ==
  /\ MainTurn /\ pc = "loadwait"
  /\ pid' = jobs[slot].pid
  /\ pc' = "waitfg"
  /\ UNCHANGED <<list, bg, slot, signals, kernel>>

\* The loop of waitfg ends; a turn that does not end it changes nothing.
WaitFg ==
  /\ MainTurn /\ pc = "waitfg"
  /\ fgpid(jobs) # pid
  /\ Return
  /\ UNCHANGED <<list, signals, kernel>>

Command == Quit \/ \E b \in BOOLEAN : Run(b) \/ FindJob(b)

MainStep ==
  Fork \/ AddJob \/ Unblock \/ LoadPid \/ KillCont \/ SetState \/ LoadWait \/ WaitFg

-----------------------------------------------------------------------------
(* Signals and their handlers.                                             *)

Top == frames[Len(frames)]
HandlerAt(sig, point) == Running /\ frames # <<>> /\ Top.sig = sig /\ Top.pc = point
SetTop(f) == frames' = [frames EXCEPT ![Len(frames)] = f]

\* Returning from a handler restores the mask it was entered with.
PopFrame ==
  /\ frames' = SubSeq(frames, 1, Len(frames) - 1)
  /\ mask' = Top.saved

\* A handler is entered with its own signal blocked (Signal: empty sa_mask).
Deliver(sig) ==
  /\ Running /\ sig \in pend \ mask /\ Len(frames) < MaxDepth
  /\ \E m \in (IF sig = "CHLD" THEN HandlerMasks ELSE {{}}) :
       frames' = Append(frames,
                   [sig |-> sig, pc |-> IF sig = "CHLD" THEN "wait" ELSE "fgpid",
                    pid |-> 0, status |-> "none", mset |-> m, saved |-> mask])
  /\ pend' = pend \ {sig}
  /\ mask' = mask \cup {sig}
  /\ UNCHANGED <<list, main, kernel>>

SigQuit ==
  /\ Running /\ "QUIT" \in pend \ mask
  /\ pc' = "exited"
  /\ UNCHANGED <<list, bg, pid, slot, signals, kernel>>

\* What waitpid reports under WNOHANG | WUNTRACED
Reportable_NoUntraced == {"dead"}
Reportable == {"dead", "stopped"}

\* waitpid reports a child that ended (by exit or by a signal), and reaps it, ...
WaitDead ==
  /\ HandlerAt("CHLD", "wait")
  /\ \E p \in PID :
       /\ proc[p] = "dead"
       /\ proc' = [proc EXCEPT ![p] = "free"]
       /\ leader' = leader \ {p}
       /\ SetTop([Top EXCEPT !.pc = "block", !.pid = p, !.status = "ended"])
  /\ UNCHANGED <<list, main, mask, pend>>

\* ... or one that stopped, once per stop, ...
WaitStopped ==
  /\ HandlerAt("CHLD", "wait")
  /\ \E p \in PID :
       /\ proc[p] = "stopped" /\ "stopped" \in Reportable
       /\ proc' = [proc EXCEPT ![p] = "seen"]
       /\ SetTop([Top EXCEPT !.pc = "block", !.pid = p, !.status = "stopped"])
  /\ UNCHANGED <<list, main, mask, pend, leader>>

\* ... or nothing, which ends the handler.
WaitNone ==
  /\ HandlerAt("CHLD", "wait")
  /\ \A p \in PID : proc[p] \notin Reportable
  /\ PopFrame
  /\ UNCHANGED <<list, main, pend, kernel>>

BlockMask ==
  /\ HandlerAt("CHLD", "block")
  /\ mask' = mask \cup Top.mset
  /\ SetTop([Top EXCEPT !.pc = "update"])
  /\ UNCHANGED <<list, main, pend, kernel>>

UpdateList ==
  /\ HandlerAt("CHLD", "update")
  /\ \/ /\ Top.status = "ended"
        /\ LET r == deletejob(jobs, nextjid, Top.pid)
           IN  jobs' = r.jobs /\ nextjid' = r.nextjid
     \/ /\ Top.status = "stopped"
        /\ LET job == getjobpid(jobs, Top.pid)
           IN  jobs' = IF job = NULL THEN jobs ELSE setstate(jobs, job, "ST")
        /\ UNCHANGED nextjid
  /\ SetTop([Top EXCEPT !.pc = "unblock", !.pid = 0, !.status = "none"])
  /\ UNCHANGED <<main, mask, pend, kernel>>

UnblockMask_IfNotWhile ==
  /\ HandlerAt("CHLD", "unblock")
  /\ PopFrame
  /\ UNCHANGED <<list, main, pend, kernel>>

UnblockMask ==
  /\ HandlerAt("CHLD", "unblock")
  /\ mask' = mask \ Top.mset
  /\ SetTop([Top EXCEPT !.pc = "wait"])
  /\ UNCHANGED <<list, main, pend, kernel>>

sigchld_handler ==
  WaitDead \/ WaitStopped \/ WaitNone \/ BlockMask \/ UpdateList \/ UnblockMask

(***************************************************************************)
(* sigint_handler and sigtstp_handler differ in the signal they forward.   *)
(* What it does to the job is the child's next step (ChildDies, ChildStops *)
(* or none: a program may ignore it).                                      *)
(***************************************************************************)
LookUpForeground(sig) ==
  /\ HandlerAt(sig, "fgpid")
  /\ \/ /\ fgpid(jobs) = 0
        /\ PopFrame
     \/ /\ fgpid(jobs) # 0
        /\ SetTop([Top EXCEPT !.pc = "kill", !.pid = fgpid(jobs)])
        /\ UNCHANGED mask
  /\ UNCHANGED <<list, main, pend, kernel>>

Forward(sig) ==
  /\ HandlerAt(sig, "kill")
  /\ \/ GroupExists(Top.pid) /\ PopFrame /\ UNCHANGED main
     \/ ~GroupExists(Top.pid) /\ Die /\ UNCHANGED <<frames, mask>>
  /\ UNCHANGED <<list, pend, kernel>>

Forwarder == \E sig \in {"INT", "TSTP"} : LookUpForeground(sig) \/ Forward(sig)

-----------------------------------------------------------------------------
(* Outside the shell: the keyboard and the children.                       *)

Keyboard(sig) ==
  /\ Running
  /\ pend' = pend \cup {sig}
  /\ UNCHANGED <<list, main, frames, mask, kernel>>

\* The child of eval puts itself in a group of its own.
SetPgid(p) ==
  /\ Running /\ proc[p] = "running" /\ p \notin leader
  /\ leader' = leader \cup {p}
  /\ UNCHANGED <<list, main, signals, proc>>

ChildDies(p) ==
  /\ Running /\ proc[p] \in {"running", "stopped", "seen"}
  /\ proc' = [proc EXCEPT ![p] = "dead"]
  /\ pend' = pend \cup {"CHLD"}
  /\ UNCHANGED <<list, main, frames, mask, leader>>

ChildStops(p) ==
  /\ Running /\ proc[p] = "running"
  /\ proc' = [proc EXCEPT ![p] = "stopped"]
  /\ pend' = pend \cup {"CHLD"}
  /\ UNCHANGED <<list, main, frames, mask, leader>>

ChildContinues(p) ==
  /\ Running /\ ForeignSIGCONT /\ proc[p] \in {"stopped", "seen"}
  /\ Continue({p})
  /\ UNCHANGED <<list, main, frames, mask, leader>>

Environment ==
  \/ \E sig \in Keys : Keyboard(sig)
  \/ \E p \in PID : SetPgid(p) \/ ChildDies(p) \/ ChildStops(p) \/ ChildContinues(p)

-----------------------------------------------------------------------------
Next ==
  \/ Command
  \/ MainStep
  \/ \E sig \in Signals \ {"QUIT"} : Deliver(sig)
  \/ SigQuit
  \/ sigchld_handler
  \/ Forwarder
  \/ Environment

Spec == Init /\ [][Next]_vars

(***************************************************************************)
(* The processor keeps executing the program: a burst of keystrokes delays *)
(* main flow, handlers and delivery but does not starve them (SF), and the *)
(* handler on top runs on (WF).  The user, the keyboard and the children   *)
(* owe nothing.                                                            *)
(***************************************************************************)
Fairness ==
  /\ SF_vars(MainStep)
  /\ SF_vars(Deliver("CHLD"))
  /\ SF_vars(sigchld_handler)
  /\ WF_vars(Forwarder)

FairSpec == Spec /\ Fairness
=============================================================================
