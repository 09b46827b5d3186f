------------------------------ MODULE TshProofs ------------------------------
(***************************************************************************)
(* Theorems about tsh, for every length of the job list, every set of      *)
(* PIDs, and every depth of the handler stack.                             *)
(***************************************************************************)
EXTENDS TshProps, JobListProofs

(* do_bgfg uses a job pointer only after it has found a job. *)
SlotFound == pc \in {"load", "kill", "setstate", "loadwait"} => slot \in Slot

TypeInv == TypeOK /\ SlotFound

-----------------------------------------------------------------------------
(* The handler stack: its top is a frame, and replacing, popping or pushing *)
(* a frame leaves the others as they were.                                  *)
LEMMA TopIsAFrame ==
  ASSUME frames \in Seq(Frame), frames # <<>>
  PROVE  /\ Len(frames) \in Nat \ {0} /\ Len(frames) \in DOMAIN frames
         /\ Top \in Frame
BY DEF Top

LEMMA ReplaceTop ==
  ASSUME frames \in Seq(Frame), frames # <<>>, NEW f \in Frame, SetTop(f)
  PROVE  /\ frames' \in Seq(Frame)
         /\ DOMAIN frames' = DOMAIN frames
         /\ frames'[Len(frames)] = f
         /\ \A k \in DOMAIN frames : k # Len(frames) => frames'[k] = frames[k]
BY TopIsAFrame DEF SetTop

LEMMA PopTop ==
  ASSUME frames \in Seq(Frame), frames # <<>>, PopFrame
  PROVE  /\ frames' \in Seq(Frame)
         /\ mask' = Top.saved
         /\ DOMAIN frames' = DOMAIN frames \ {Len(frames)}
         /\ \A k \in DOMAIN frames' : frames'[k] = frames[k]
BY TopIsAFrame DEF PopFrame

LEMMA PushTop ==
  ASSUME frames \in Seq(Frame), NEW f \in Frame, frames' = Append(frames, f)
  PROVE  /\ frames' \in Seq(Frame) /\ frames' # <<>>
         /\ DOMAIN frames' = DOMAIN frames \cup {Len(frames) + 1}
         /\ Len(frames) + 1 \notin DOMAIN frames
         /\ frames'[Len(frames) + 1] = f
         /\ \A k \in DOMAIN frames : frames'[k] = frames[k]
OBVIOUS

(* Fields of a frame can be changed one by one within their types. *)
LEMMA MoveFrame ==
  ASSUME NEW f \in Frame, NEW c \in HandlerPC
  PROVE  LET g == [f EXCEPT !.pc = c]
         IN  /\ g \in Frame /\ g.sig = f.sig /\ g.saved = f.saved
             /\ g.pc = c /\ g.pid = f.pid /\ g.status = f.status
BY DEF Frame

LEMMA AimFrame ==
  ASSUME NEW f \in Frame, NEW c \in HandlerPC, NEW p \in PID \cup {0}
  PROVE  LET g == [f EXCEPT !.pc = c, !.pid = p]
         IN  /\ g \in Frame /\ g.sig = f.sig /\ g.saved = f.saved
             /\ g.pc = c /\ g.pid = p
BY DEF Frame

LEMMA ReportToFrame ==
  ASSUME NEW f \in Frame, NEW c \in HandlerPC, NEW p \in PID \cup {0}, NEW s \in Status
  PROVE  LET g == [f EXCEPT !.pc = c, !.pid = p, !.status = s]
         IN  /\ g \in Frame /\ g.sig = f.sig /\ g.saved = f.saved
             /\ g.pc = c /\ g.pid = p /\ g.status = s
BY DEF Frame

LEMMA HandlerConstants ==
  /\ "block" \in HandlerPC /\ "update" \in HandlerPC /\ "unblock" \in HandlerPC
  /\ "wait" \in HandlerPC /\ "kill" \in HandlerPC
  /\ "ended" \in Status /\ "stopped" \in Status /\ "none" \in Status
BY DEF HandlerPC, Status

(* A handler step of the frame on top finds the stack not empty. *)
LEMMA HandlerOnTop ==
  ASSUME TypeOK, NEW sig, NEW point, HandlerAt(sig, point)
  PROVE  /\ frames \in Seq(Frame) /\ frames # <<>>
         /\ Top \in Frame /\ Top.sig = sig /\ Top.pc = point
         /\ Len(frames) \in DOMAIN frames
BY TopIsAFrame DEF TypeOK, HandlerAt

-----------------------------------------------------------------------------
(* Type correctness of the steps of the main flow. *)
LEMMA MainTypes ==
  ASSUME TypeInv, Command \/ MainStep
  PROVE  TypeInv'
<1> USE DEF TypeInv, TypeOK, SlotFound, MainPC, Critical, Ended, list, main, signals, kernel
<1>1. CASE Quit
  BY <1>1 DEF Quit
<1>2. CASE \E b \in BOOLEAN : Run(b)
  BY <1>2 DEF Run, maskchild, Signals
<1>3. CASE \E b \in BOOLEAN : FindJob(b)
  <2>1. PICK b \in BOOLEAN : FindJob(b)
    BY <1>3
  <2>2. \A p : getjobpid(jobs, p) \in Slot \cup {NULL}
    BY GetjobpidFinds
  <2>3. \A j : getjobjid(jobs, j) \in Slot \cup {NULL}
    BY GetjobjidFinds
  <2>4. slot' \in Slot
    BY <2>1, <2>2, <2>3 DEF FindJob
  <2> QED BY <2>1, <2>4 DEF FindJob
<1>4. CASE Fork
  BY <1>4 DEF Fork, ProcState
<1>5. CASE AddJob
  <2>1. StartState(bg) \in JobState
    BY DEF StartState, JobState
  <2>2. jobs' \in [Slot -> Job] /\ nextjid' \in Nat \ {0}
    BY <1>5, <2>1, AddjobFillsASlot DEF AddJob
  <2> QED BY <1>5, <2>2 DEF AddJob
<1>6. CASE Unblock
  BY <1>6 DEF Unblock, Return
<1>7. CASE LoadPid
  BY <1>7 DEF LoadPid, Job
<1>8. CASE KillCont
  <2>1. proc' \in [PID -> ProcState] /\ pend' \in SUBSET Signals
    BY <1>8 DEF KillCont, Continue, ProcState, Signals
  <2> QED BY <1>8, <2>1 DEF KillCont, Die
<1>9. CASE SetState
  <2>1. StartState(bg) \in JobState /\ slot \in Slot
    BY <1>9 DEF StartState, JobState, SetState
  <2>2. jobs' \in [Slot -> Job]
    BY <1>9, <2>1 DEF SetState, setstate, Job
  <2> QED BY <1>9, <2>2 DEF SetState, Return
<1>10. CASE LoadWait
  BY <1>10 DEF LoadWait, Job
<1>11. CASE WaitFg
  BY <1>11 DEF WaitFg, Return
<1> QED
  BY <1>1, <1>2, <1>3, <1>4, <1>5, <1>6, <1>7, <1>8, <1>9, <1>10, <1>11 DEF Command, MainStep

(* Type correctness of the steps of the handlers and of their delivery. *)
LEMMA HandlerTypes ==
  ASSUME TypeInv,
         (\E sig \in Signals \ {"QUIT"} : Deliver(sig)) \/ SigQuit
           \/ sigchld_handler \/ Forwarder
  PROVE  TypeInv'
<1> USE DEF TypeInv, list, main, signals, kernel
<1>1. CASE \E sig \in Signals \ {"QUIT"} : Deliver(sig)
  <2>1. PICK sig \in Signals \ {"QUIT"} : Deliver(sig)
    BY <1>1
  <2>2. PICK m \in SUBSET Signals :
          frames' = Append(frames,
                      [sig |-> sig, pc |-> IF sig = "CHLD" THEN "wait" ELSE "fgpid",
                       pid |-> 0, status |-> "none", mset |-> m, saved |-> mask])
    BY <2>1, HandlerMasksAssumption DEF Deliver
  <2>3. frames' \in Seq(Frame)
    BY <2>2, PushTop DEF TypeOK, Frame, HandlerPC, Status
  <2> QED BY <2>1, <2>3 DEF Deliver, TypeOK, SlotFound
<1>2. CASE SigQuit
  BY <1>2 DEF SigQuit, TypeOK, SlotFound, MainPC, Ended
<1>3. CASE sigchld_handler
  <2>1. CASE WaitDead
    <3>1. Top \in Frame /\ frames \in Seq(Frame) /\ frames # <<>>
      BY <2>1, HandlerOnTop DEF WaitDead
    <3>2. PICK p \in PID :
            /\ proc' = [proc EXCEPT ![p] = "free"] /\ leader' = leader \ {p}
            /\ SetTop([Top EXCEPT !.pc = "block", !.pid = p, !.status = "ended"])
      BY <2>1 DEF WaitDead
    <3>3. [Top EXCEPT !.pc = "block", !.pid = p, !.status = "ended"] \in Frame
      BY <3>1, ReportToFrame, HandlerConstants
    <3>4. frames' \in Seq(Frame)
      BY <3>1, <3>2, <3>3, ReplaceTop
    <3> QED BY <2>1, <3>2, <3>4 DEF WaitDead, TypeOK, SlotFound, ProcState
  <2>2. CASE WaitStopped
    <3>1. Top \in Frame /\ frames \in Seq(Frame) /\ frames # <<>>
      BY <2>2, HandlerOnTop DEF WaitStopped
    <3>2. PICK p \in PID :
            /\ proc' = [proc EXCEPT ![p] = "seen"]
            /\ SetTop([Top EXCEPT !.pc = "block", !.pid = p, !.status = "stopped"])
      BY <2>2 DEF WaitStopped
    <3>3. [Top EXCEPT !.pc = "block", !.pid = p, !.status = "stopped"] \in Frame
      BY <3>1, ReportToFrame, HandlerConstants
    <3>4. frames' \in Seq(Frame)
      BY <3>1, <3>2, <3>3, ReplaceTop
    <3> QED BY <2>2, <3>2, <3>4 DEF WaitStopped, TypeOK, SlotFound, ProcState
  <2>3. CASE WaitNone
    <3>1. frames' \in Seq(Frame) /\ mask' \in SUBSET Signals
      BY <2>3, HandlerOnTop, PopTop DEF WaitNone, Frame
    <3> QED BY <2>3, <3>1 DEF WaitNone, TypeOK, SlotFound
  <2>4. CASE BlockMask
    <3>1. Top \in Frame /\ frames \in Seq(Frame) /\ frames # <<>>
      BY <2>4, HandlerOnTop DEF BlockMask
    <3>2. [Top EXCEPT !.pc = "update"] \in Frame
      BY <3>1, MoveFrame DEF HandlerPC
    <3>3. frames' \in Seq(Frame)
      BY <2>4, <3>1, <3>2, ReplaceTop DEF BlockMask
    <3>4. mask' \in SUBSET Signals
      BY <2>4, <3>1 DEF BlockMask, Frame, TypeOK
    <3> QED BY <2>4, <3>3, <3>4 DEF BlockMask, TypeOK, SlotFound
  <2>5. CASE UpdateList
    <3>1. Top \in Frame /\ frames \in Seq(Frame) /\ frames # <<>>
      BY <2>5, HandlerOnTop DEF UpdateList
    <3>2. [Top EXCEPT !.pc = "unblock", !.pid = 0, !.status = "none"] \in Frame
      BY <3>1, ReportToFrame, HandlerConstants
    <3>3. frames' \in Seq(Frame)
      BY <2>5, <3>1, <3>2, ReplaceTop DEF UpdateList
    <3>4. jobs' \in [Slot -> Job] /\ nextjid' \in Nat \ {0}
      <4>1. CASE Top.status = "ended"
        BY <2>5, <4>1, DeletejobClearsASlot DEF UpdateList, TypeOK
      <4>2. CASE Top.status = "stopped"
        <5>1. jobs' = IF getjobpid(jobs, Top.pid) = NULL THEN jobs
                      ELSE setstate(jobs, getjobpid(jobs, Top.pid), "ST")
          BY <2>5, <4>2 DEF UpdateList
        <5>2. getjobpid(jobs, Top.pid) # NULL => getjobpid(jobs, Top.pid) \in Slot
          BY GetjobpidFinds DEF TypeOK
        <5>3. \A i \in Slot : setstate(jobs, i, "ST") \in [Slot -> Job]
          BY DEF setstate, Job, JobState, TypeOK
        <5>4. nextjid' = nextjid
          BY <2>5, <4>2 DEF UpdateList
        <5> QED BY <5>1, <5>2, <5>3, <5>4 DEF TypeOK
      <4> QED BY <2>5, <4>1, <4>2 DEF UpdateList
    <3> QED BY <2>5, <3>3, <3>4 DEF UpdateList, TypeOK, SlotFound
  <2>6. CASE UnblockMask
    <3>1. Top \in Frame /\ frames \in Seq(Frame) /\ frames # <<>>
      BY <2>6, HandlerOnTop DEF UnblockMask
    <3>2. [Top EXCEPT !.pc = "wait"] \in Frame
      BY <3>1, MoveFrame DEF HandlerPC
    <3>3. frames' \in Seq(Frame)
      BY <2>6, <3>1, <3>2, ReplaceTop DEF UnblockMask
    <3> QED BY <2>6, <3>3 DEF UnblockMask, TypeOK, SlotFound
  <2> QED
    BY <1>3, <2>1, <2>2, <2>3, <2>4, <2>5, <2>6 DEF sigchld_handler
<1>4. CASE Forwarder
  <2>1. PICK sig \in {"INT", "TSTP"} : LookUpForeground(sig) \/ Forward(sig)
    BY <1>4 DEF Forwarder
  <2>2. CASE LookUpForeground(sig)
    <3>1. Top \in Frame /\ frames \in Seq(Frame) /\ frames # <<>>
      BY <2>2, HandlerOnTop DEF LookUpForeground
    <3>2. CASE PopFrame
      BY <2>2, <3>1, <3>2, PopTop DEF LookUpForeground, TypeOK, SlotFound, Frame
    <3>3. CASE SetTop([Top EXCEPT !.pc = "kill", !.pid = fgpid(jobs)]) /\ UNCHANGED mask
      <4>1. fgpid(jobs) \in PID \cup {0}
        BY FgpidFinds DEF TypeOK
      <4>2. [Top EXCEPT !.pc = "kill", !.pid = fgpid(jobs)] \in Frame
        BY <3>1, <4>1, AimFrame DEF HandlerPC
      <4>3. frames' \in Seq(Frame)
        BY <3>1, <3>3, <4>2, ReplaceTop
      <4> QED BY <2>2, <3>3, <4>3 DEF LookUpForeground, TypeOK, SlotFound
    <3> QED BY <2>2, <3>2, <3>3 DEF LookUpForeground
  <2>3. CASE Forward(sig)
    <3>1. Top \in Frame /\ frames \in Seq(Frame) /\ frames # <<>>
      BY <2>3, HandlerOnTop DEF Forward
    <3>2. CASE PopFrame /\ UNCHANGED main
      BY <2>3, <3>1, <3>2, PopTop DEF Forward, TypeOK, SlotFound, Frame
    <3>3. CASE Die /\ UNCHANGED <<frames, mask>>
      BY <2>3, <3>3 DEF Forward, Die, TypeOK, SlotFound, MainPC, Ended
    <3> QED BY <2>3, <3>2, <3>3 DEF Forward
  <2> QED BY <2>1, <2>2, <2>3
<1> QED BY <1>1, <1>2, <1>3, <1>4

(* Type correctness of what happens outside the shell. *)
LEMMA EnvironmentTypes ==
  ASSUME TypeInv, Environment
  PROVE  TypeInv'
<1> USE DEF TypeInv, TypeOK, SlotFound, list, main, signals, kernel, Signals, ProcState
<1>1. CASE \E sig \in Keys : Keyboard(sig)
  BY <1>1, KeysAssumption DEF Keyboard
<1>2. CASE \E p \in PID : SetPgid(p)
  BY <1>2 DEF SetPgid
<1>3. CASE \E p \in PID : ChildDies(p)
  BY <1>3 DEF ChildDies
<1>4. CASE \E p \in PID : ChildStops(p)
  BY <1>4 DEF ChildStops
<1>5. CASE \E p \in PID : ChildContinues(p)
  <2>1. proc' \in [PID -> ProcState] /\ pend' \in SUBSET Signals
    BY <1>5 DEF ChildContinues, Continue
  <2> QED BY <1>5, <2>1 DEF ChildContinues
<1> QED BY <1>1, <1>2, <1>3, <1>4, <1>5 DEF Environment

(***************************************************************************)
(* Every variable keeps its type: a handler's frame never points at a PID  *)
(* that does not exist, nextjid never reaches 0.                           *)
(***************************************************************************)
THEOREM TypeInvariance == Spec => []TypeInv
<1>1. Init => TypeInv
  <2> SUFFICES ASSUME Init PROVE TypeInv
    OBVIOUS
  <2>1. EmptyJob \in Job
    BY DEF EmptyJob, Job, JobState
  <2>2. jobs \in [Slot -> Job] /\ nextjid \in Nat \ {0}
    BY <2>1 DEF Init, initjobs
  <2>3. pc \in MainPC /\ bg \in BOOLEAN /\ pid \in PID \cup {0, -1} /\ slot \in Slot \cup {NULL}
    BY DEF Init, MainPC
  <2>4. frames \in Seq(Frame) /\ mask \in SUBSET Signals /\ pend \in SUBSET Signals
    BY DEF Init
  <2>5. proc \in [PID -> ProcState] /\ leader \in SUBSET PID
    BY DEF Init, ProcState
  <2>6. SlotFound
    BY DEF Init, SlotFound
  <2> QED BY <2>2, <2>3, <2>4, <2>5, <2>6 DEF TypeInv, TypeOK
<1>2. TypeInv /\ [Next]_vars => TypeInv'
  <2> SUFFICES ASSUME TypeInv, [Next]_vars PROVE TypeInv'
    OBVIOUS
  <2>1. CASE Next
    BY <2>1, MainTypes, HandlerTypes, EnvironmentTypes DEF Next
  <2>2. CASE UNCHANGED vars
    BY <2>2 DEF vars, list, main, signals, kernel, TypeInv, TypeOK, SlotFound
  <2> QED BY <2>1, <2>2
<1> QED BY <1>1, <1>2, PTL DEF Spec

THEOREM TypeCorrectness == Spec => []TypeOK
<1>1. TypeInv => TypeOK
  BY DEF TypeInv
<1> QED BY <1>1, TypeInvariance, PTL

-----------------------------------------------------------------------------
(* Replacing the frame on top by one of the same signal keeps all signals. *)
LEMMA SameSignals ==
  ASSUME frames \in Seq(Frame), frames # <<>>, NEW f \in Frame, SetTop(f),
         f.sig = Top.sig, f.saved = Top.saved
  PROVE  /\ DOMAIN frames' = DOMAIN frames
         /\ \A k \in DOMAIN frames :
              frames'[k].sig = frames[k].sig /\ frames'[k].saved = frames[k].saved
BY ReplaceTop DEF Top

(***************************************************************************)
(* A step of sigchld_handler other than its return keeps its frame.        *)
(***************************************************************************)
LEMMA ChldStepsKeepSignals ==
  ASSUME TypeInv, WaitDead \/ WaitStopped \/ BlockMask \/ UpdateList \/ UnblockMask
  PROVE  /\ frames # <<>> /\ Top.sig = "CHLD"
         /\ DOMAIN frames' = DOMAIN frames
         /\ \A k \in DOMAIN frames :
              frames'[k].sig = frames[k].sig /\ frames'[k].saved = frames[k].saved
<1>1. /\ frames \in Seq(Frame) /\ frames # <<>> /\ Top \in Frame /\ Top.sig = "CHLD"
  BY HandlerOnTop DEF TypeInv, WaitDead, WaitStopped, BlockMask, UpdateList, UnblockMask
<1>2. CASE WaitDead
  <2>1. PICK p \in PID :
          SetTop([Top EXCEPT !.pc = "block", !.pid = p, !.status = "ended"])
    BY <1>2 DEF WaitDead
  <2>2. LET g == [Top EXCEPT !.pc = "block", !.pid = p, !.status = "ended"]
        IN  g \in Frame /\ g.sig = Top.sig /\ g.saved = Top.saved
    BY <1>1, ReportToFrame, HandlerConstants DEF Frame
  <2> QED BY <1>1, <2>1, <2>2, SameSignals
<1>3. CASE WaitStopped
  <2>1. PICK p \in PID :
          SetTop([Top EXCEPT !.pc = "block", !.pid = p, !.status = "stopped"])
    BY <1>3 DEF WaitStopped
  <2>2. LET g == [Top EXCEPT !.pc = "block", !.pid = p, !.status = "stopped"]
        IN  g \in Frame /\ g.sig = Top.sig /\ g.saved = Top.saved
    BY <1>1, ReportToFrame, HandlerConstants DEF Frame
  <2> QED BY <1>1, <2>1, <2>2, SameSignals
<1>4. CASE BlockMask
  <2>1. LET g == [Top EXCEPT !.pc = "update"]
        IN  g \in Frame /\ g.sig = Top.sig /\ g.saved = Top.saved
    BY <1>1, MoveFrame, HandlerConstants DEF Frame
  <2> QED BY <1>1, <1>4, <2>1, SameSignals DEF BlockMask
<1>5. CASE UpdateList
  <2>1. LET g == [Top EXCEPT !.pc = "unblock", !.pid = 0, !.status = "none"]
        IN  g \in Frame /\ g.sig = Top.sig /\ g.saved = Top.saved
    BY <1>1, ReportToFrame, HandlerConstants DEF Frame
  <2> QED BY <1>1, <1>5, <2>1, SameSignals DEF UpdateList
<1>6. CASE UnblockMask
  <2>1. LET g == [Top EXCEPT !.pc = "wait"]
        IN  g \in Frame /\ g.sig = Top.sig /\ g.saved = Top.saved
    BY <1>1, MoveFrame, HandlerConstants DEF Frame
  <2> QED BY <1>1, <1>6, <2>1, SameSignals DEF UnblockMask
<1> QED BY <1>2, <1>3, <1>4, <1>5, <1>6

(***************************************************************************)
(* A forwarder either only moves its own frame on, or returns, or dies.    *)
(***************************************************************************)
LEMMA ForwarderOutcomes ==
  ASSUME TypeInv, Forwarder
  PROVE  /\ frames \in Seq(Frame) /\ frames # <<>> /\ Top.sig \in {"INT", "TSTP"}
         /\ UNCHANGED <<list, pend, kernel, bg, pid, slot>>
         /\ \/ PopFrame /\ pc' = pc
            \/ /\ fgpid(jobs) # 0 /\ pc' = pc /\ mask' = mask
               /\ SetTop([Top EXCEPT !.pc = "kill", !.pid = fgpid(jobs)])
            \/ pc' = "died" /\ frames' = frames /\ mask' = mask
<1>1. PICK sig \in {"INT", "TSTP"} : LookUpForeground(sig) \/ Forward(sig)
  BY DEF Forwarder
<1>2. frames \in Seq(Frame) /\ frames # <<>> /\ Top.sig = sig
  BY <1>1, HandlerOnTop DEF TypeInv, LookUpForeground, Forward
<1> QED BY <1>1, <1>2 DEF LookUpForeground, Forward, Die, main, list, kernel

(* The second of these outcomes keeps every frame's signal. *)
LEMMA ForwarderKeepsSignals ==
  ASSUME TypeInv, frames # <<>>,
         SetTop([Top EXCEPT !.pc = "kill", !.pid = fgpid(jobs)])
  PROVE  /\ DOMAIN frames' = DOMAIN frames
         /\ \A k \in DOMAIN frames :
              frames'[k].sig = frames[k].sig /\ frames'[k].saved = frames[k].saved
<1>1. frames \in Seq(Frame) /\ Top \in Frame /\ fgpid(jobs) \in PID \cup {0}
  BY TopIsAFrame, FgpidFinds DEF TypeInv, TypeOK
<1>2. LET g == [Top EXCEPT !.pc = "kill", !.pid = fgpid(jobs)]
      IN  g \in Frame /\ g.sig = Top.sig /\ g.saved = Top.saved
  BY <1>1, AimFrame, HandlerConstants DEF Frame
<1> QED BY <1>1, <1>2, SameSignals

-----------------------------------------------------------------------------
(***************************************************************************)
(* No child is forgotten, and SIGCHLD is held off while eval adds a job.   *)
(***************************************************************************)

Waitable == \E p \in PID : proc[p] \in {"dead", "stopped"}
ChldActive == \E k \in DOMAIN frames : frames[k].sig = "CHLD"

-----------------------------------------------------------------------------
(* NoLostChild, in terms of the positions of the stack. *)
LEMMA NoLostChildMeans ==
  NoLostChild <=> (Running /\ Waitable => "CHLD" \in pend \/ ChldActive)
BY DEF NoLostChild, Waitable, ChldActive, Frames

(* A step of the main flow makes no child wait to be reported. *)
LEMMA MainLosesNoChild ==
  ASSUME TypeInv, NoLostChild, Command \/ MainStep
  PROVE  NoLostChild'
<1>1. Running /\ UNCHANGED frames /\ pend \subseteq pend'
  BY DEF Command, Quit, Run, FindJob, MainStep, Fork, AddJob, Unblock, LoadPid, KillCont,
         SetState, LoadWait, WaitFg, Continue, Running, Ended, signals
<1>2. Waitable' => Waitable
  <2>1. CASE Fork
    BY <2>1 DEF Fork, Waitable, TypeInv, TypeOK
  <2>2. CASE KillCont
    BY <2>2 DEF KillCont, Continue, Waitable
  <2>3. CASE UNCHANGED proc
    BY <2>3 DEF Waitable
  <2>4. Fork \/ KillCont \/ UNCHANGED proc
    BY DEF Command, Quit, Run, FindJob, MainStep, AddJob, Unblock, LoadPid, SetState,
           LoadWait, WaitFg, kernel
  <2> QED BY <2>1, <2>2, <2>3, <2>4
<1> QED BY <1>1, <1>2 DEF NoLostChild, Waitable, Frames

(* The handler returns only when waitpid has nothing more to report. *)
LEMMA HandlersLoseNoChild ==
  ASSUME TypeInv, NoLostChild,
         (\E sig \in Signals \ {"QUIT"} : Deliver(sig)) \/ SigQuit
           \/ sigchld_handler \/ Forwarder
  PROVE  NoLostChild'
<1>1. CASE \E sig \in Signals \ {"QUIT"} : Deliver(sig)
  <2>1. PICK sig \in Signals \ {"QUIT"} : Deliver(sig)
    BY <1>1
  <2>2. PICK f : frames' = Append(frames, f) /\ f.sig = sig
    BY <2>1 DEF Deliver
  <2>3. /\ \A k \in DOMAIN frames : k \in DOMAIN frames' /\ frames'[k] = frames[k]
        /\ Len(frames) + 1 \in DOMAIN frames' /\ frames'[Len(frames) + 1].sig = sig
    BY <2>2 DEF TypeInv, TypeOK
  <2>4. Running' = Running /\ Waitable' = Waitable
    BY <2>1 DEF Deliver, Running, Waitable, main, kernel
  <2>5. CASE sig = "CHLD"
    BY <2>3, <2>5, NoLostChildMeans DEF NoLostChild, Frames
  <2>6. CASE sig # "CHLD"
    <3>1. "CHLD" \in pend => "CHLD" \in pend'
      BY <2>1, <2>6 DEF Deliver
    <3> QED BY <2>3, <2>4, <3>1 DEF NoLostChild, Frames, Waitable
  <2> QED BY <2>5, <2>6
<1>2. CASE SigQuit
  BY <1>2 DEF SigQuit, NoLostChild, Running, Ended
<1>3. CASE WaitNone
  BY <1>3 DEF WaitNone, Reportable, NoLostChild, kernel
<1>4. CASE WaitDead \/ WaitStopped \/ BlockMask \/ UpdateList \/ UnblockMask
  <2>1. frames # <<>> /\ Top.sig = "CHLD" /\ Len(frames) \in DOMAIN frames
    BY <1>4, ChldStepsKeepSignals, TopIsAFrame DEF TypeInv, TypeOK
  <2>2. Len(frames) \in DOMAIN frames' /\ frames'[Len(frames)].sig = "CHLD"
    BY <1>4, <2>1, ChldStepsKeepSignals DEF Top
  <2> QED BY <2>2 DEF NoLostChild, Frames
<1>5. CASE Forwarder
  <2>1. UNCHANGED <<pend, proc>> /\ Top.sig # "CHLD" /\ frames \in Seq(Frame) /\ frames # <<>>
    BY <1>5, ForwarderOutcomes DEF kernel
  <2>2. CASE PopFrame /\ pc' = pc
    <3>1. \A k \in DOMAIN frames : k # Len(frames) => k \in DOMAIN frames' /\ frames'[k] = frames[k]
      BY <2>1, <2>2, PopTop
    <3>2. ChldActive => ChldActive'
      BY <2>1, <3>1 DEF ChldActive, Top
    <3> QED BY <2>1, <2>2, <3>2 DEF NoLostChild, Frames, ChldActive, Running
  <2>3. CASE SetTop([Top EXCEPT !.pc = "kill", !.pid = fgpid(jobs)]) /\ pc' = pc
    <3>1. ChldActive => ChldActive'
      BY <2>1, <2>3, ForwarderKeepsSignals DEF ChldActive
    <3> QED BY <2>1, <2>3, <3>1 DEF NoLostChild, Frames, ChldActive, Running
  <2>4. CASE pc' = "died"
    BY <2>4 DEF NoLostChild, Running, Ended
  <2> QED BY <1>5, <2>2, <2>3, <2>4, ForwarderOutcomes
<1> QED BY <1>1, <1>2, <1>3, <1>4, <1>5 DEF sigchld_handler

(* When a child dies or stops, the kernel tells the shell. *)
LEMMA EnvironmentLosesNoChild ==
  ASSUME TypeInv, NoLostChild, Environment
  PROVE  NoLostChild'
<1>1. CASE \E sig \in Keys : Keyboard(sig)
  BY <1>1 DEF Keyboard, NoLostChild, Frames, Running, main, kernel
<1>2. CASE \E p \in PID : SetPgid(p)
  BY <1>2 DEF SetPgid, NoLostChild, Frames, Running, main, signals
<1>3. CASE \E p \in PID : ChildDies(p) \/ ChildStops(p)
  BY <1>3 DEF ChildDies, ChildStops, NoLostChild
<1>4. CASE \E p \in PID : ChildContinues(p)
  <2>1. (Waitable' => Waitable) /\ pend \subseteq pend'
    BY <1>4 DEF ChildContinues, Continue, Waitable
  <2>2. UNCHANGED <<frames, pc>>
    BY <1>4 DEF ChildContinues, main
  <2> QED BY <2>1, <2>2 DEF NoLostChild, Frames, Running, Waitable
<1> QED BY <1>1, <1>2, <1>3, <1>4 DEF Environment

(***************************************************************************)
(* A zombie or an unreported stop always has a SIGCHLD pending or a        *)
(* handler that will come back to waitpid, although signals do not queue.  *)
(***************************************************************************)
THEOREM ChildrenKept == Spec => []NoLostChild
<1>1. Init => NoLostChild
  BY DEF Init, NoLostChild
<1>2. TypeInv /\ NoLostChild /\ [Next]_vars => NoLostChild'
  <2> SUFFICES ASSUME TypeInv, NoLostChild, [Next]_vars PROVE NoLostChild'
    OBVIOUS
  <2>1. CASE Next
    BY <2>1, MainLosesNoChild, HandlersLoseNoChild, EnvironmentLosesNoChild DEF Next
  <2>2. CASE UNCHANGED vars
    BY <2>2 DEF vars, main, signals, kernel, NoLostChild, Frames, Running
  <2> QED BY <2>1, <2>2
<1> QED BY <1>1, <1>2, TypeInvariance, PTL DEF Spec

-----------------------------------------------------------------------------
(***************************************************************************)
(* The mask outside all handlers is on the stack while one runs: it is     *)
(* what the bottom frame will restore.  While eval holds SIGCHLD off, no   *)
(* frame is sigchld_handler's and every mask on the stack blocks SIGCHLD.  *)
(***************************************************************************)
BaseMask == IF pc \in Critical THEN {"CHLD"} ELSE {}

MaskInv ==
  /\ Running /\ frames = <<>> => mask = BaseMask
  /\ Running /\ frames # <<>> => frames[1].saved = BaseMask

HeldOff ==
  pc \in Critical =>
    /\ "CHLD" \in mask
    /\ \A k \in DOMAIN frames : frames[k].sig # "CHLD" /\ "CHLD" \in frames[k].saved

BlockInv == MaskInv /\ HeldOff

(* The main flow blocks SIGCHLD when it enters eval's critical section and *)
(* unblocks it when it leaves.                                             *)
LEMMA MainMasks ==
  ASSUME TypeInv, BlockInv, Command \/ MainStep
  PROVE  BlockInv'
<1>1. frames = <<>> /\ frames' = <<>> /\ Running /\ mask = BaseMask
  BY DEF Command, Quit, Run, FindJob, MainStep, Fork, AddJob, Unblock, LoadPid, KillCont,
         SetState, LoadWait, WaitFg, MainTurn, Running, Ended, signals, BlockInv, MaskInv
<1>2. Running' => mask' = BaseMask'
  <2>1. CASE \E b \in BOOLEAN : Run(b)
    BY <1>1, <2>1 DEF Run, BaseMask, Critical, maskchild
  <2>2. CASE Unblock
    BY <1>1, <2>2 DEF Unblock, Return, BaseMask, Critical, maskchild
  <2>3. CASE Fork \/ AddJob
    BY <1>1, <2>3 DEF Fork, AddJob, BaseMask, Critical, signals
  <2>4. CASE Quit \/ (\E b \in BOOLEAN : FindJob(b)) \/ LoadPid \/ LoadWait
    BY <1>1, <2>4 DEF Quit, FindJob, LoadPid, LoadWait, BaseMask, Critical, signals
  <2>5. CASE KillCont
    BY <1>1, <2>5 DEF KillCont, Die, BaseMask, Critical
  <2>6. CASE SetState \/ WaitFg
    BY <1>1, <2>6 DEF SetState, WaitFg, Return, BaseMask, Critical, signals
  <2> QED BY <2>1, <2>2, <2>3, <2>4, <2>5, <2>6 DEF Command, MainStep
<1>3. pc' \in Critical => "CHLD" \in mask'
  BY <1>2 DEF Running, Ended, Critical, BaseMask
<1> QED BY <1>1, <1>2, <1>3 DEF BlockInv, MaskInv, HeldOff

(* A handler restores, when it returns, the mask it was entered with.      *)
LEMMA HandlerMasksAreLocal ==
  ASSUME TypeInv, BlockInv,
         (\E sig \in Signals \ {"QUIT"} : Deliver(sig)) \/ SigQuit
           \/ sigchld_handler \/ Forwarder
  PROVE  BlockInv'
<1>1. CASE \E sig \in Signals \ {"QUIT"} : Deliver(sig)
  <2>1. PICK sig \in Signals \ {"QUIT"} : Deliver(sig)
    BY <1>1
  <2>2. PICK f : frames' = Append(frames, f) /\ f.sig = sig /\ f.saved = mask
    BY <2>1 DEF Deliver
  <2>3. /\ DOMAIN frames' = DOMAIN frames \cup {Len(frames) + 1} /\ frames' # <<>>
        /\ \A k \in DOMAIN frames : frames'[k] = frames[k]
        /\ frames'[Len(frames) + 1] = f
    BY <2>2 DEF TypeInv, TypeOK
  <2>4. pc' = pc /\ sig \notin mask /\ mask' = mask \cup {sig}
    BY <2>1 DEF Deliver, main
  <2>5. HeldOff'
    BY <2>2, <2>3, <2>4 DEF BlockInv, HeldOff
  <2>6. MaskInv'
    <3>1. CASE frames = <<>>
      <4>1. frames'[1] = f
        BY <3>1, <2>3
      <4> QED BY <2>2, <2>3, <2>4, <3>1, <4>1 DEF BlockInv, MaskInv, BaseMask, Running
    <3>2. CASE frames # <<>>
      <4>1. frames'[1] = frames[1]
        BY <3>2, <2>3 DEF TypeInv, TypeOK
      <4> QED BY <2>3, <2>4, <3>2, <4>1 DEF BlockInv, MaskInv, BaseMask, Running
    <3> QED BY <3>1, <3>2
  <2> QED BY <2>5, <2>6 DEF BlockInv
<1>2. CASE SigQuit
  BY <1>2 DEF SigQuit, BlockInv, MaskInv, HeldOff, Running, Ended, Critical
<1>3. ASSUME frames \in Seq(Frame), frames # <<>>, PopFrame, pc' = pc
      PROVE  BlockInv'
  <2>1. /\ mask' = Top.saved /\ DOMAIN frames' = DOMAIN frames \ {Len(frames)}
        /\ \A k \in DOMAIN frames' : frames'[k] = frames[k]
        /\ frames' \in Seq(Frame)
    BY <1>3, PopTop
  <2>2. Len(frames) \in DOMAIN frames
    BY <1>3
  <2>3. HeldOff'
    BY <1>3, <2>1, <2>2 DEF BlockInv, HeldOff, Top
  <2>4. CASE Len(frames) = 1
    <3>1. frames' = <<>>
      BY <1>3, <2>1, <2>4
    <3>2. mask' = frames[1].saved
      BY <2>1, <2>4 DEF Top
    <3> QED BY <1>3, <2>3, <3>1, <3>2 DEF BlockInv, MaskInv, BaseMask, Running
  <2>5. CASE Len(frames) # 1
    <3>1. 1 \in DOMAIN frames'
      BY <1>3, <2>1, <2>5
    <3>2. frames'[1] = frames[1]
      BY <2>1, <3>1
    <3>3. frames' # <<>>
      <4>1. frames' = <<>> => DOMAIN frames' = {}
        OBVIOUS
      <4> QED BY <3>1, <4>1
    <3> QED BY <1>3, <2>3, <3>2, <3>3 DEF BlockInv, MaskInv, BaseMask, Running
  <2> QED BY <2>4, <2>5
<1>4. ASSUME frames \in Seq(Frame), frames # <<>>, DOMAIN frames' = DOMAIN frames,
             frames' # <<>>,
             \A k \in DOMAIN frames :
               frames'[k].sig = frames[k].sig /\ frames'[k].saved = frames[k].saved,
             pc' = pc, pc \in Critical => mask' = mask
      PROVE  BlockInv'
  <2>1. frames'[1].saved = frames[1].saved
    BY <1>4
  <2> QED BY <1>4, <2>1 DEF BlockInv, MaskInv, HeldOff, BaseMask, Running
<1>5. CASE WaitNone
  BY <1>3, <1>5, HandlerOnTop DEF WaitNone, main, TypeInv
<1>6. CASE WaitDead \/ WaitStopped \/ BlockMask \/ UpdateList \/ UnblockMask
  <2>1. /\ frames # <<>> /\ Top.sig = "CHLD" /\ DOMAIN frames' = DOMAIN frames
        /\ \A k \in DOMAIN frames :
             frames'[k].sig = frames[k].sig /\ frames'[k].saved = frames[k].saved
    BY <1>6, ChldStepsKeepSignals
  <2>2. pc' = pc /\ frames \in Seq(Frame) /\ Len(frames) \in DOMAIN frames
    BY <1>6, <2>1, TopIsAFrame
       DEF WaitDead, WaitStopped, BlockMask, UpdateList, UnblockMask, main, TypeInv, TypeOK
  <2>3. pc \notin Critical
    BY <2>1, <2>2 DEF BlockInv, HeldOff, Top
  <2>4. frames' # <<>>
    BY <2>1, <2>2
  <2> QED BY <1>4, <2>1, <2>2, <2>3, <2>4
<1>7. CASE Forwarder
  <2>1. frames \in Seq(Frame) /\ frames # <<>>
    BY <1>7, ForwarderOutcomes
  <2>2. CASE PopFrame /\ pc' = pc
    BY <1>3, <2>1, <2>2
  <2>3. CASE /\ SetTop([Top EXCEPT !.pc = "kill", !.pid = fgpid(jobs)])
             /\ pc' = pc /\ mask' = mask
    <3>1. frames' # <<>>
      BY <2>1, <2>3, ForwarderKeepsSignals
    <3> QED BY <1>4, <2>1, <2>3, <3>1, ForwarderKeepsSignals
  <2>4. CASE pc' = "died"
    BY <2>4 DEF BlockInv, MaskInv, HeldOff, Running, Ended, Critical
  <2> QED BY <1>7, <2>2, <2>3, <2>4, ForwarderOutcomes
<1> QED BY <1>1, <1>2, <1>5, <1>6, <1>7 DEF sigchld_handler

(***************************************************************************)
(* While eval is between fork and addjob SIGCHLD stays blocked, whatever   *)
(* handlers run meanwhile, and sigchld_handler is not among them.          *)
(***************************************************************************)
THEOREM SigchldHeldOff == Spec => []BlockInv
<1>1. Init => BlockInv
  BY DEF Init, BlockInv, MaskInv, HeldOff, BaseMask, Critical
<1>2. TypeInv /\ BlockInv /\ [Next]_vars => BlockInv'
  <2> SUFFICES ASSUME TypeInv, BlockInv, [Next]_vars PROVE BlockInv'
    OBVIOUS
  <2>1. CASE Next
    <3>1. CASE Environment
      BY <3>1 DEF Environment, Keyboard, SetPgid, ChildDies, ChildStops, ChildContinues,
                  main, signals, BlockInv, MaskInv, HeldOff, BaseMask, Running
    <3> QED BY <2>1, <3>1, MainMasks, HandlerMasksAreLocal DEF Next
  <2>2. CASE UNCHANGED vars
    BY <2>2 DEF vars, main, signals, BlockInv, MaskInv, HeldOff, BaseMask, Running
  <2> QED BY <2>1, <2>2
<1> QED BY <1>1, <1>2, TypeInvariance, PTL DEF Spec

(***************************************************************************)
(* Whatever sigchld_handler's uninitialised set holds, the mask is right   *)
(* whenever no handler runs.                                               *)
(***************************************************************************)
THEOREM MaskIsRestored == Spec => []MaskRestored
<1>1. BlockInv => MaskRestored
  BY DEF BlockInv, MaskInv, MaskRestored, BaseMask, MainTurn
<1> QED BY <1>1, SigchldHeldOff, PTL
=============================================================================
