---------------------------- MODULE TshJobsProofs ----------------------------
(***************************************************************************)
(* The job list of tsh stays in step with the children, at most one job is *)
(* in the foreground, and the keys spare the background.                   *)
(***************************************************************************)
EXTENDS TshProofs, FiniteSetTheorems

(* The child that eval has forked and not added yet is alive or a zombie,  *)
(* and nobody else has listed its PID.                                     *)
NewChild == pc = "addjob" /\ pid \in PID => proc[pid] # "free" /\ ~ Listed(pid)

ListInv == JobsAreChildren /\ UniquePids /\ NewChild

Reaping(p) == \E k \in DOMAIN frames : ReapedBy(frames[k], p)

-----------------------------------------------------------------------------
(* JobsAreChildren, in terms of the positions of the stack. *)
LEMMA JobsAreChildrenMeans ==
  JobsAreChildren <=> \A p \in PID : Listed(p) => proc[p] # "free" \/ Reaping(p)
BY DEF JobsAreChildren, Frames, Reaping

(***************************************************************************)
(* A step keeps the list in step if it lists and deletes nothing, reaps    *)
(* nothing, and forgets no pending deletion.                               *)
(***************************************************************************)
LEMMA QuietStep ==
  ASSUME ListInv,
         \A i \in Slot : jobs'[i].pid = jobs[i].pid,
         \A p \in PID : proc[p] # "free" => proc'[p] # "free",
         \A p \in PID : Reaping(p) => Reaping(p)',
         pc' = "addjob" => pc = "addjob" /\ pid' = pid
  PROVE  ListInv'
<1>1. \A p : Listed(p)' <=> Listed(p)
  BY DEF Listed
<1>2. \A p \in PID : Listed(p) => proc[p] # "free" \/ Reaping(p)
  BY JobsAreChildrenMeans DEF ListInv
<1>3. JobsAreChildren'
  BY <1>1, <1>2 DEF JobsAreChildren, Frames, Reaping
<1>4. UniquePids'
  BY DEF ListInv, UniquePids
<1>5. NewChild'
  BY <1>1 DEF ListInv, NewChild
<1> QED BY <1>3, <1>4, <1>5 DEF ListInv

(* Only the frame on top moves: the deletions of the others stay pending.  *)
LEMMA OthersStayPending ==
  ASSUME frames \in Seq(Frame), frames # <<>>,
         \A k \in DOMAIN frames :
           k # Len(frames) => k \in DOMAIN frames' /\ frames'[k] = frames[k],
         NEW p \in PID, ~ ReapedBy(Top, p), Reaping(p)
  PROVE  Reaping(p)'
<1>1. PICK k \in DOMAIN frames : ReapedBy(frames[k], p)
  BY DEF Reaping
<1>2. k # Len(frames)
  BY <1>1 DEF Top
<1>3. k \in DOMAIN frames' /\ ReapedBy(frames'[k], p)
  BY <1>1, <1>2
<1> QED BY <1>3 DEF Reaping, ReapedBy

-----------------------------------------------------------------------------
(* The main flow lists a PID once, when its process has just been forked.  *)
LEMMA MainKeepsList ==
  ASSUME TypeInv, BlockInv, ListInv, Command \/ MainStep
  PROVE  ListInv'
<1>1. frames = <<>> /\ frames' = <<>>
  BY DEF Command, Quit, Run, FindJob, MainStep, Fork, AddJob, Unblock, LoadPid, KillCont,
         SetState, LoadWait, WaitFg, MainTurn, signals
<1>2. \A p : ~ Reaping(p)
  BY <1>1 DEF Reaping
<1>3. CASE Fork
  <2>1. jobs' = jobs /\ pc' = "addjob"
    BY <1>3 DEF Fork, list
  <2>2. \A p : Listed(p)' <=> Listed(p)
    BY <2>1 DEF Listed
  <2>3. \A p \in PID : Listed(p) => proc[p] # "free"
    BY <1>2, JobsAreChildrenMeans DEF ListInv
  <2>4. \A p \in PID : proc[p] # "free" => proc'[p] # "free"
    BY <1>3 DEF Fork, TypeInv, TypeOK
  <2>5. JobsAreChildren'
    BY <2>2, <2>3, <2>4 DEF JobsAreChildren
  <2>6. UniquePids'
    BY <2>1 DEF ListInv, UniquePids
  <2>7. pid' \in PID => proc'[pid'] # "free" /\ ~ Listed(pid')
    <3> SUFFICES ASSUME pid' \in PID PROVE proc'[pid'] # "free" /\ ~ Listed(pid')
      OBVIOUS
    <3>1. PICK p \in PID : proc[p] = "free" /\ proc' = [proc EXCEPT ![p] = "running"] /\ pid' = p
      BY <1>3, PIDAssumption DEF Fork
    <3>2. proc'[p] = "running"
      BY <3>1 DEF TypeInv, TypeOK
    <3>3. ~ Listed(p)
      BY <2>3, <3>1
    <3> QED BY <3>1, <3>2, <3>3
  <2>8. NewChild'
    BY <2>1, <2>7 DEF NewChild, Listed
  <2> QED BY <2>5, <2>6, <2>8 DEF ListInv
<1>4. CASE AddJob
  <2>1. pc' # "addjob" /\ proc' = proc /\ pc = "addjob"
    BY <1>4 DEF AddJob, kernel
  <2>2. StartState(bg) \in JobState
    BY DEF StartState, JobState
  <2>3. \/ jobs' = jobs
        \/ \E i \in Slot :
             /\ pid \in PID /\ jobs[i].pid = 0
             /\ jobs' = [jobs EXCEPT ![i] =
                          [pid |-> pid, jid |-> nextjid, state |-> StartState(bg)]]
    <3>1. jobs \in [Slot -> Job] /\ nextjid \in Nat \ {0}
      BY DEF TypeInv, TypeOK
    <3>2. jobs' = addjob(jobs, nextjid, pid, StartState(bg)).jobs
      BY <1>4 DEF AddJob
    <3> DEFINE s == StartState(bg)
    <3> HIDE DEF s
    <3>3. s \in JobState /\ jobs' = addjob(jobs, nextjid, pid, s).jobs
      BY <2>2, <3>2 DEF s
    <3>4. \/ jobs' = jobs
          \/ \E i \in Slot :
               /\ pid \in PID /\ jobs[i].pid = 0
               /\ jobs' = [jobs EXCEPT ![i] = [pid |-> pid, jid |-> nextjid, state |-> s]]
      BY <3>1, <3>3, AddjobFillsASlot
    <3> QED BY <3>4 DEF s
  <2>4. CASE jobs' = jobs
    BY <1>2, <2>1, <2>4, QuietStep
  <2>5. ASSUME NEW i \in Slot, pid \in PID,
               jobs' = [jobs EXCEPT ![i] =
                         [pid |-> pid, jid |-> nextjid, state |-> StartState(bg)]]
        PROVE  ListInv'
    <3>1. jobs'[i].pid = pid /\ \A j \in Slot : j # i => jobs'[j] = jobs[j]
      BY <2>5 DEF TypeInv, TypeOK
    <3>2. proc[pid] # "free" /\ \A j \in Slot : jobs[j].pid # pid
      BY <2>1, <2>5 DEF ListInv, NewChild, Listed
    <3>3. \A p \in PID : Listed(p) => proc[p] # "free"
      BY <1>2, JobsAreChildrenMeans DEF ListInv
    <3>4. JobsAreChildren'
      BY <2>1, <3>1, <3>2, <3>3 DEF JobsAreChildren, Listed
    <3>5. UniquePids'
      BY <3>1, <3>2 DEF ListInv, UniquePids
    <3> QED BY <2>1, <3>4, <3>5 DEF ListInv, NewChild
  <2> QED BY <2>3, <2>4, <2>5
<1>5. CASE SetState
  <2>1. jobs' = setstate(jobs, slot, StartState(bg)) /\ proc' = proc /\ pc' # "addjob"
    BY <1>5 DEF SetState, Return, kernel
  <2>2. \A i \in Slot : jobs'[i].pid = jobs[i].pid
    BY <2>1 DEF setstate, TypeInv, TypeOK, Job
  <2> QED BY <1>2, <2>1, <2>2, QuietStep
<1>6. CASE KillCont
  <2>1. jobs' = jobs /\ pc' # "addjob" /\ \A p \in PID : proc[p] # "free" => proc'[p] # "free"
    BY <1>6 DEF KillCont, Continue, Die, list
  <2> QED BY <1>2, <2>1, QuietStep
<1>7. CASE Command \/ Unblock \/ LoadPid \/ LoadWait \/ WaitFg
  <2>1. jobs' = jobs /\ proc' = proc /\ pc' # "addjob"
    BY <1>7 DEF Command, Quit, Run, FindJob, Unblock, LoadPid, LoadWait, WaitFg, Return,
                list, kernel
  <2> QED BY <1>2, <2>1, QuietStep
<1> QED BY <1>3, <1>4, <1>5, <1>6, <1>7 DEF MainStep

(***************************************************************************)
(* A handler deletes the one slot that lists the process it has reaped.    *)
(***************************************************************************)
LEMMA ChldHandlerKeepsList ==
  ASSUME TypeInv, BlockInv, ListInv, sigchld_handler
  PROVE  ListInv'
<1>1. /\ frames \in Seq(Frame) /\ frames # <<>> /\ Top \in Frame
      /\ Top.sig = "CHLD" /\ Len(frames) \in DOMAIN frames
      /\ pc' = pc /\ pid' = pid
  BY HandlerOnTop
     DEF TypeInv, sigchld_handler, WaitDead, WaitStopped, WaitNone, BlockMask, UpdateList,
         UnblockMask, main
<1>2. pc \notin Critical
  BY <1>1 DEF BlockInv, HeldOff, Top
<1>3. pc' # "addjob"
  BY <1>1, <1>2 DEF Critical
<1>4. ASSUME \A k \in DOMAIN frames :
               k # Len(frames) => k \in DOMAIN frames' /\ frames'[k] = frames[k],
             NEW p \in PID, ~ ReapedBy(Top, p), Reaping(p)
      PROVE  Reaping(p)'
  BY <1>1, <1>4, OthersStayPending
<1>5. CASE WaitDead
  <2>1. PICK p \in PID :
          /\ proc' = [proc EXCEPT ![p] = "free"]
          /\ SetTop([Top EXCEPT !.pc = "block", !.pid = p, !.status = "ended"])
    BY <1>5 DEF WaitDead
  <2> DEFINE g == [Top EXCEPT !.pc = "block", !.pid = p, !.status = "ended"]
  <2>2. g \in Frame /\ g.sig = "CHLD" /\ g.pc = "block" /\ g.pid = p /\ g.status = "ended"
    BY <1>1, ReportToFrame, HandlerConstants DEF Frame
  <2>3. /\ DOMAIN frames' = DOMAIN frames /\ frames'[Len(frames)] = g
        /\ \A k \in DOMAIN frames : k # Len(frames) => frames'[k] = frames[k]
    BY <1>1, <2>1, <2>2, ReplaceTop
  <2>4. Reaping(p)'
    <3> HIDE DEF g
    <3> QED BY <1>1, <2>2, <2>3 DEF Reaping, ReapedBy
  <2>5. \A q : ~ ReapedBy(Top, q)
    BY <1>5, HandlerOnTop DEF WaitDead, ReapedBy, TypeInv
  <2>6. \A q \in PID : Reaping(q) => Reaping(q)'
    BY <1>4, <2>3, <2>5
  <2>7. jobs' = jobs
    BY <1>5 DEF WaitDead, list
  <2>8. \A q \in PID : q # p => proc'[q] = proc[q]
    BY <2>1 DEF TypeInv, TypeOK
  <2>9. \A q \in PID : Listed(q)' => proc'[q] # "free" \/ Reaping(q)'
    BY <2>4, <2>6, <2>7, <2>8, JobsAreChildrenMeans DEF ListInv, Listed
  <2>10. JobsAreChildren'
    BY <2>9 DEF JobsAreChildren, Reaping, Frames
  <2> QED BY <1>3, <2>7, <2>10 DEF ListInv, UniquePids, NewChild
<1>6. CASE WaitStopped
  <2>1. PICK p \in PID :
          /\ proc' = [proc EXCEPT ![p] = "seen"]
          /\ SetTop([Top EXCEPT !.pc = "block", !.pid = p, !.status = "stopped"])
    BY <1>6 DEF WaitStopped
  <2> DEFINE g == [Top EXCEPT !.pc = "block", !.pid = p, !.status = "stopped"]
  <2>2. g \in Frame
    BY <1>1, ReportToFrame, HandlerConstants
  <2>3. \A k \in DOMAIN frames :
          k # Len(frames) => k \in DOMAIN frames' /\ frames'[k] = frames[k]
    BY <1>1, <2>1, <2>2, ReplaceTop
  <2>4. \A q : ~ ReapedBy(Top, q)
    BY <1>6, HandlerOnTop DEF WaitStopped, ReapedBy, TypeInv
  <2>5. \A q \in PID : Reaping(q) => Reaping(q)'
    BY <1>4, <2>3, <2>4
  <2>6. jobs' = jobs /\ \A q \in PID : proc[q] # "free" => proc'[q] # "free"
    BY <1>6, <2>1 DEF WaitStopped, list, TypeInv, TypeOK
  <2> QED BY <1>3, <2>5, <2>6, QuietStep
<1>7. CASE WaitNone
  <2>1. \A k \in DOMAIN frames :
          k # Len(frames) => k \in DOMAIN frames' /\ frames'[k] = frames[k]
    BY <1>1, <1>7, PopTop DEF WaitNone
  <2>2. \A q : ~ ReapedBy(Top, q)
    BY <1>7, HandlerOnTop DEF WaitNone, ReapedBy, TypeInv
  <2>3. \A q \in PID : Reaping(q) => Reaping(q)'
    BY <1>4, <2>1, <2>2
  <2>4. jobs' = jobs /\ proc' = proc
    BY <1>7 DEF WaitNone, list, kernel
  <2> QED BY <1>3, <2>3, <2>4, QuietStep
<1>8. CASE BlockMask
  <2> DEFINE g == [Top EXCEPT !.pc = "update"]
  <2>1. g \in Frame /\ g.sig = Top.sig /\ g.pc = "update" /\ g.pid = Top.pid
        /\ g.status = Top.status
    BY <1>1, MoveFrame, HandlerConstants DEF Frame
  <2>2. /\ DOMAIN frames' = DOMAIN frames /\ frames'[Len(frames)] = g
        /\ \A k \in DOMAIN frames : k # Len(frames) => frames'[k] = frames[k]
    BY <1>1, <1>8, <2>1, ReplaceTop DEF BlockMask
  <2>3. \A q \in PID : Reaping(q) => Reaping(q)'
    <3> SUFFICES ASSUME NEW q \in PID, Reaping(q) PROVE Reaping(q)'
      OBVIOUS
    <3>1. CASE ReapedBy(Top, q)
      <4>1. ReapedBy(g, q)
        BY <2>1, <3>1 DEF ReapedBy
      <4> HIDE DEF g
      <4> QED BY <1>1, <2>2, <4>1 DEF Reaping, ReapedBy
    <3>2. CASE ~ ReapedBy(Top, q)
      BY <1>4, <2>2, <3>2
    <3> QED BY <3>1, <3>2
  <2>4. jobs' = jobs /\ proc' = proc
    BY <1>8 DEF BlockMask, list, kernel
  <2> QED BY <1>3, <2>3, <2>4, QuietStep
<1>9. CASE UnblockMask
  <2>1. [Top EXCEPT !.pc = "wait"] \in Frame
    BY <1>1, MoveFrame, HandlerConstants
  <2>2. \A k \in DOMAIN frames :
          k # Len(frames) => k \in DOMAIN frames' /\ frames'[k] = frames[k]
    BY <1>1, <1>9, <2>1, ReplaceTop DEF UnblockMask
  <2>3. \A q : ~ ReapedBy(Top, q)
    BY <1>9, HandlerOnTop DEF UnblockMask, ReapedBy, TypeInv
  <2>4. \A q \in PID : Reaping(q) => Reaping(q)'
    BY <1>4, <2>2, <2>3
  <2>5. jobs' = jobs /\ proc' = proc
    BY <1>9 DEF UnblockMask, list, kernel
  <2> QED BY <1>3, <2>4, <2>5, QuietStep
<1>10. CASE UpdateList
  <2>1. [Top EXCEPT !.pc = "unblock", !.pid = 0, !.status = "none"] \in Frame
    BY <1>1, ReportToFrame, HandlerConstants
  <2>2. \A k \in DOMAIN frames :
          k # Len(frames) => k \in DOMAIN frames' /\ frames'[k] = frames[k]
    BY <1>1, <1>10, <2>1, ReplaceTop DEF UpdateList
  <2>3. proc' = proc
    BY <1>10 DEF UpdateList, kernel
  <2>4. CASE Top.status = "stopped"
    <3>1. \A i \in Slot : jobs'[i].pid = jobs[i].pid
      <4>1. jobs' = IF getjobpid(jobs, Top.pid) = NULL THEN jobs
                    ELSE setstate(jobs, getjobpid(jobs, Top.pid), "ST")
        BY <1>10, <2>4 DEF UpdateList
      <4>2. getjobpid(jobs, Top.pid) # NULL => getjobpid(jobs, Top.pid) \in Slot
        BY GetjobpidFinds DEF TypeInv, TypeOK
      <4> QED BY <4>1, <4>2 DEF setstate, TypeInv, TypeOK, Job
    <3>2. \A q \in PID : Reaping(q) => Reaping(q)'
      BY <1>4, <2>2, <2>4 DEF ReapedBy
    <3> QED BY <1>3, <2>3, <3>1, <3>2, QuietStep
  <2>5. CASE Top.status = "ended"
    <3> DEFINE p == Top.pid
    <3>1. \/ jobs' = jobs /\ (p \notin PID \/ \A i \in Slot : jobs[i].pid # p)
          \/ \E i \in Slot :
               p \in PID /\ jobs[i].pid = p /\ jobs' = [jobs EXCEPT ![i] = EmptyJob]
      <4>1. jobs \in [Slot -> Job] /\ nextjid \in Nat \ {0}
        BY DEF TypeInv, TypeOK
      <4>2. jobs' = deletejob(jobs, nextjid, p).jobs
        BY <1>10, <2>5 DEF UpdateList
      <4> QED BY <4>1, <4>2, DeletejobClearsASlot
    <3>2. \A q \in PID : q # p /\ Reaping(q) => Reaping(q)'
      BY <1>4, <2>2 DEF ReapedBy
    <3>3. \A i \in Slot : jobs'[i].pid = jobs[i].pid \/ jobs'[i].pid = 0
      BY <3>1 DEF EmptyJob, TypeInv, TypeOK
    <3>4. \A i \in Slot : p \in PID => jobs'[i].pid # p
      <4>1. CASE jobs' = jobs /\ (p \notin PID \/ \A i \in Slot : jobs[i].pid # p)
        BY <4>1
      <4>2. ASSUME NEW i \in Slot, p \in PID, jobs[i].pid = p,
                   jobs' = [jobs EXCEPT ![i] = EmptyJob]
            PROVE  \A j \in Slot : jobs'[j].pid # p
        <5>1. p # 0
          BY <4>2, PIDAssumption
        <5>2. \A j \in Slot : j # i => jobs[j].pid # p /\ jobs'[j] = jobs[j]
          BY <4>2, <5>1 DEF ListInv, UniquePids, TypeInv, TypeOK
        <5>3. jobs'[i].pid = 0
          BY <4>2 DEF EmptyJob, TypeInv, TypeOK
        <5> QED BY <5>1, <5>2, <5>3
      <4> QED BY <3>1, <4>1, <4>2
    <3> HIDE DEF p
    <3>5. \A q \in PID : Listed(q)' => Listed(q) /\ q # p
      BY <3>3, <3>4, PIDAssumption DEF Listed
    <3>6. \A q \in PID : Listed(q)' => proc'[q] # "free" \/ Reaping(q)'
      BY <2>3, <3>2, <3>5, JobsAreChildrenMeans DEF ListInv
    <3>7. JobsAreChildren'
      BY <3>6 DEF JobsAreChildren, Reaping, Frames
    <3>8. UniquePids'
      BY <3>3 DEF ListInv, UniquePids
    <3> QED BY <1>3, <3>7, <3>8 DEF ListInv, NewChild
  <2> QED BY <1>10, <2>4, <2>5 DEF UpdateList
<1> QED BY <1>5, <1>6, <1>7, <1>8, <1>9, <1>10 DEF sigchld_handler

(* Delivery, the forwarders and the environment list and reap nothing. *)
LEMMA OthersKeepList ==
  ASSUME TypeInv, ListInv,
         (\E sig \in Signals \ {"QUIT"} : Deliver(sig)) \/ SigQuit \/ Forwarder \/ Environment
  PROVE  ListInv'
<1>1. jobs' = jobs /\ \A p \in PID : proc[p] # "free" => proc'[p] # "free"
  <2>1. CASE Environment
    BY <2>1 DEF Environment, Keyboard, SetPgid, ChildDies, ChildStops, ChildContinues,
                Continue, list, kernel, TypeInv, TypeOK
  <2>2. CASE Forwarder
    BY <2>2, ForwarderOutcomes DEF list, kernel
  <2>3. CASE SigQuit \/ \E sig \in Signals \ {"QUIT"} : Deliver(sig)
    BY <2>3 DEF SigQuit, Deliver, list, kernel
  <2> QED BY <2>1, <2>2, <2>3
<1>2. pc' = "addjob" => pc = "addjob" /\ pid' = pid
  <2>1. CASE Environment
    BY <2>1 DEF Environment, Keyboard, SetPgid, ChildDies, ChildStops, ChildContinues, main
  <2>2. CASE Forwarder
    BY <2>2, ForwarderOutcomes DEF PopFrame
  <2>3. CASE SigQuit \/ \E sig \in Signals \ {"QUIT"} : Deliver(sig)
    BY <2>3 DEF SigQuit, Deliver, main
  <2> QED BY <2>1, <2>2, <2>3
<1>3. \A p \in PID : Reaping(p) => Reaping(p)'
  <2>1. CASE Environment \/ SigQuit
    <3>1. frames' = frames
      BY <2>1 DEF Environment, Keyboard, SetPgid, ChildDies, ChildStops, ChildContinues,
                  SigQuit, signals
    <3> QED BY <3>1 DEF Reaping, ReapedBy
  <2>2. CASE \E sig \in Signals \ {"QUIT"} : Deliver(sig)
    <3>1. PICK f : frames' = Append(frames, f)
      BY <2>2 DEF Deliver
    <3>2. \A k \in DOMAIN frames : k \in DOMAIN frames' /\ frames'[k] = frames[k]
      BY <3>1 DEF TypeInv, TypeOK
    <3> QED BY <3>2 DEF Reaping, ReapedBy
  <2>3. CASE Forwarder
    <3>1. /\ frames \in Seq(Frame) /\ frames # <<>> /\ Top.sig \in {"INT", "TSTP"}
          /\ Top \in Frame
      BY <2>3, ForwarderOutcomes, TopIsAFrame
    <3>2. \A p : ~ ReapedBy(Top, p)
      BY <3>1 DEF ReapedBy
    <3>3. \A k \in DOMAIN frames :
            k # Len(frames) => k \in DOMAIN frames' /\ frames'[k] = frames[k]
      <4>1. CASE PopFrame
        BY <3>1, <4>1, PopTop
      <4>2. CASE SetTop([Top EXCEPT !.pc = "kill", !.pid = fgpid(jobs)])
        <5>1. fgpid(jobs) \in PID \cup {0}
          BY FgpidFinds DEF TypeInv, TypeOK
        <5>2. [Top EXCEPT !.pc = "kill", !.pid = fgpid(jobs)] \in Frame
          BY <3>1, <5>1, AimFrame, HandlerConstants
        <5> QED BY <3>1, <4>2, <5>2, ReplaceTop
      <4>3. CASE frames' = frames
        BY <4>3
      <4> QED BY <2>3, <4>1, <4>2, <4>3, ForwarderOutcomes
    <3> QED BY <3>1, <3>2, <3>3, OthersStayPending
  <2> QED BY <2>1, <2>2, <2>3
<1> QED BY <1>1, <1>2, <1>3, QuietStep

(***************************************************************************)
(* The job list is in step with the children at every instruction.         *)
(***************************************************************************)
THEOREM ListInvariance == Spec => []ListInv
<1>1. Init => ListInv
  BY PIDAssumption DEF Init, initjobs, EmptyJob, ListInv, JobsAreChildren, UniquePids, NewChild, Listed
<1>2. TypeInv /\ BlockInv /\ ListInv /\ [Next]_vars => ListInv'
  <2> SUFFICES ASSUME TypeInv, BlockInv, ListInv, [Next]_vars PROVE ListInv'
    OBVIOUS
  <2>1. CASE Next
    BY <2>1, MainKeepsList, ChldHandlerKeepsList, OthersKeepList DEF Next
  <2>2. CASE UNCHANGED vars
    BY <2>2, QuietStep DEF vars, list, main, signals, kernel, Reaping, ReapedBy
  <2> QED BY <2>1, <2>2
<1> QED BY <1>1, <1>2, TypeInvariance, SigchldHeldOff, PTL DEF Spec

(* Every listed PID is a child that is not reaped, or is about to go.      *)
THEOREM ListedAreChildren == Spec => []JobsAreChildren
<1>1. ListInv => JobsAreChildren
  BY DEF ListInv
<1> QED BY <1>1, ListInvariance, PTL

(* No PID is listed twice.                                                 *)
THEOREM PidsAreUnique == Spec => []UniquePids
<1>1. ListInv => UniquePids
  BY DEF ListInv
<1> QED BY <1>1, ListInvariance, PTL

-----------------------------------------------------------------------------
(***************************************************************************)
(* A background command puts nothing in the foreground on its way back to  *)
(* the prompt.                                                             *)
(***************************************************************************)
BackgroundReturns == pc = "unblock" /\ bg => \A i \in Slot : jobs[i].state # "FG"

FgInv == ForegroundIsWaitedFor /\ BackgroundReturns

(* Handlers only take jobs out of the foreground, and leave the main flow. *)
LEMMA ForegroundShrinks ==
  ASSUME FgInv, \A i \in Slot :
                  jobs'[i].state = "FG" => jobs'[i] = jobs[i] /\ jobs[i].state = "FG",
         UNCHANGED <<bg, pid, slot>>, pc' = pc \/ pc' \in Ended
  PROVE  FgInv'
BY DEF FgInv, ForegroundIsWaitedFor, BackgroundReturns, Ended

(* The main flow leaves waitfg only when its job left the foreground, and  *)
(* puts a job there only to wait for it.                                   *)
LEMMA MainKeepsForeground ==
  ASSUME TypeInv, FgInv, Command \/ MainStep
  PROVE  FgInv'
<1> DEFINE NoFG == \A i \in Slot : jobs[i].state # "FG"
<1>1. CASE Command \/ Fork \/ LoadPid \/ KillCont
  <2>1. NoFG /\ jobs' = jobs /\ pc' # "unblock"
    BY <1>1 DEF Command, Quit, Run, FindJob, Fork, LoadPid, KillCont, Die, list, FgInv,
                ForegroundIsWaitedFor, Ended
  <2> QED BY <2>1 DEF FgInv, ForegroundIsWaitedFor, BackgroundReturns
<1>2. CASE AddJob
  <2>1. NoFG /\ pc' = "unblock" /\ UNCHANGED <<bg, pid>>
    BY <1>2 DEF AddJob, FgInv, ForegroundIsWaitedFor, Ended
  <2> DEFINE s == StartState(bg)
  <2>2. s \in JobState /\ (bg => s # "FG")
    BY DEF StartState, JobState
  <2>3. jobs' = addjob(jobs, nextjid, pid, s).jobs
    BY <1>2 DEF AddJob
  <2> HIDE DEF s
  <2>4. \/ jobs' = jobs
        \/ \E i \in Slot :
             /\ pid \in PID /\ jobs[i].pid = 0
             /\ jobs' = [jobs EXCEPT ![i] = [pid |-> pid, jid |-> nextjid, state |-> s]]
    <3>1. jobs \in [Slot -> Job] /\ nextjid \in Nat \ {0}
      BY DEF TypeInv, TypeOK
    <3> QED BY <2>2, <2>3, <3>1, AddjobFillsASlot
  <2>5. CASE jobs' = jobs
    BY <2>1, <2>5 DEF FgInv, ForegroundIsWaitedFor, BackgroundReturns
  <2>6. ASSUME NEW i \in Slot,
               jobs' = [jobs EXCEPT ![i] = [pid |-> pid, jid |-> nextjid, state |-> s]]
        PROVE  FgInv'
    <3>1. jobs'[i].pid = pid /\ jobs'[i].state = s
      BY <2>6 DEF TypeInv, TypeOK
    <3>2. \A j \in Slot : j # i => jobs'[j] = jobs[j]
      BY <2>6 DEF TypeInv, TypeOK
    <3> QED BY <2>1, <2>2, <3>1, <3>2 DEF FgInv, ForegroundIsWaitedFor, BackgroundReturns
  <2> QED BY <2>4, <2>5, <2>6
<1>3. CASE Unblock
  <2>1. jobs' = jobs
    BY <1>3 DEF Unblock, list
  <2>2. CASE bg /\ Return
    BY <1>3, <2>1, <2>2 DEF Unblock, Return, FgInv, ForegroundIsWaitedFor, BackgroundReturns
  <2>3. CASE ~ bg /\ pc' = "waitfg" /\ UNCHANGED <<bg, pid, slot>>
    BY <1>3, <2>1, <2>3 DEF Unblock, FgInv, ForegroundIsWaitedFor, BackgroundReturns, Ended
  <2> QED BY <1>3, <2>2, <2>3 DEF Unblock
<1>4. CASE SetState
  <2>1. NoFG /\ slot \in Slot /\ jobs' = setstate(jobs, slot, StartState(bg))
    BY <1>4 DEF SetState, FgInv, ForegroundIsWaitedFor, Ended, TypeInv, SlotFound
  <2>2. \A i \in Slot : i # slot => jobs'[i] = jobs[i]
    BY <2>1 DEF setstate, TypeInv, TypeOK
  <2>3. jobs'[slot].state = StartState(bg)
    BY <2>1 DEF setstate, TypeInv, TypeOK, Job
  <2>4. CASE bg /\ Return
    BY <2>1, <2>2, <2>3, <2>4
       DEF StartState, Return, FgInv, ForegroundIsWaitedFor, BackgroundReturns
  <2>5. CASE ~ bg /\ pc' = "loadwait" /\ UNCHANGED <<bg, pid, slot>>
    BY <2>1, <2>2, <2>3, <2>5
       DEF FgInv, ForegroundIsWaitedFor, BackgroundReturns, Ended
  <2> QED BY <1>4, <2>4, <2>5 DEF SetState
<1>5. CASE LoadWait
  <2>1. jobs' = jobs /\ pid' = jobs[slot].pid /\ pc = "loadwait" /\ pc' = "waitfg"
    BY <1>5 DEF LoadWait, list
  <2> QED BY <2>1 DEF FgInv, ForegroundIsWaitedFor, BackgroundReturns
<1>6. CASE WaitFg
  <2>1. jobs' = jobs /\ pc = "waitfg" /\ fgpid(jobs) # pid /\ pc' = "read"
    BY <1>6 DEF WaitFg, list, Return
  <2>2. NoFG
    <3> SUFFICES ASSUME NEW i \in Slot, jobs[i].state = "FG" PROVE FALSE
      OBVIOUS
    <3>1. PICK j \in Slot : jobs[j].state = "FG" /\ fgpid(jobs) = jobs[j].pid
      BY FgpidFinds DEF TypeInv, TypeOK
    <3>2. jobs[j].pid = pid
      BY <2>1, <3>1 DEF FgInv, ForegroundIsWaitedFor
    <3> QED BY <2>1, <3>1, <3>2
  <2> QED BY <2>1, <2>2 DEF FgInv, ForegroundIsWaitedFor, BackgroundReturns
<1> QED BY <1>1, <1>2, <1>3, <1>4, <1>5, <1>6 DEF MainStep

(***************************************************************************)
(* What sigchld_handler does to the list: nothing, or it clears a slot     *)
(* that lists the PID of its frame, or it sets such a slot to ST.          *)
(***************************************************************************)
LEMMA UpdateListOutcomes ==
  ASSUME TypeInv, UpdateList
  PROVE  \/ jobs' = jobs
         \/ \E i \in Slot :
              /\ jobs[i].pid = Top.pid /\ Top.pid \in PID
              /\ \/ Top.status = "ended" /\ jobs' = [jobs EXCEPT ![i] = EmptyJob]
                 \/ Top.status = "stopped" /\ jobs' = setstate(jobs, i, "ST")
<1>1. jobs \in [Slot -> Job] /\ nextjid \in Nat \ {0}
  BY DEF TypeInv, TypeOK
<1>2. CASE Top.status = "ended"
  <2>1. jobs' = deletejob(jobs, nextjid, Top.pid).jobs
    BY <1>2 DEF UpdateList
  <2> DEFINE p == Top.pid
  <2>2. \/ jobs' = jobs
        \/ \E i \in Slot :
             p \in PID /\ jobs[i].pid = p /\ jobs' = [jobs EXCEPT ![i] = EmptyJob]
    <3>1. jobs' = deletejob(jobs, nextjid, p).jobs
      BY <2>1
    <3> HIDE DEF p
    <3> QED BY <1>1, <3>1, DeletejobClearsASlot
  <2> QED BY <1>2, <2>2
<1>3. CASE Top.status = "stopped"
  <2> DEFINE i == getjobpid(jobs, Top.pid)
  <2>1. jobs' = IF i = NULL THEN jobs ELSE setstate(jobs, i, "ST")
    BY <1>3 DEF UpdateList
  <2>2. i # NULL => i \in Slot /\ jobs[i].pid = Top.pid /\ Top.pid \in PID
    BY <1>1, GetjobpidFinds
  <2> HIDE DEF i
  <2> QED BY <1>3, <2>1, <2>2
<1> QED BY <1>2, <1>3 DEF UpdateList

(* Every other handler step, and the environment, leaves the list alone.   *)
LEMMA ListUntouched ==
  ASSUME TypeInv,
         \/ \E sig \in Signals \ {"QUIT"} : Deliver(sig)
         \/ SigQuit \/ WaitDead \/ WaitStopped \/ WaitNone \/ BlockMask \/ UnblockMask
         \/ Forwarder \/ Environment
  PROVE  UNCHANGED <<jobs, bg, pid, slot>> /\ (pc' = pc \/ pc' \in Ended)
<1>1. CASE Forwarder
  BY <1>1, ForwarderOutcomes DEF list, Ended
<1>2. CASE Environment
  BY <1>2 DEF Environment, Keyboard, SetPgid, ChildDies, ChildStops, ChildContinues, list, main
<1>3. CASE WaitDead \/ WaitStopped \/ WaitNone \/ BlockMask \/ UnblockMask
  BY <1>3 DEF WaitDead, WaitStopped, WaitNone, BlockMask, UnblockMask, list, main
<1>4. CASE SigQuit \/ \E sig \in Signals \ {"QUIT"} : Deliver(sig)
  BY <1>4 DEF SigQuit, Deliver, list, main, Ended
<1> QED BY <1>1, <1>2, <1>3, <1>4

(***************************************************************************)
(* The header's "At most 1 job can be in the FG state", and waitfg waits   *)
(* for exactly that one.                                                   *)
(***************************************************************************)
THEOREM ForegroundInvariance == Spec => []FgInv
<1>1. Init => FgInv
  BY DEF Init, initjobs, EmptyJob, FgInv, ForegroundIsWaitedFor, BackgroundReturns
<1>2. TypeInv /\ FgInv /\ [Next]_vars => FgInv'
  <2> SUFFICES ASSUME TypeInv, FgInv, [Next]_vars PROVE FgInv'
    OBVIOUS
  <2>1. CASE Command \/ MainStep
    BY <2>1, MainKeepsForeground
  <2>2. CASE UpdateList
    <3>1. UNCHANGED <<bg, pid, slot, pc>>
      BY <2>2 DEF UpdateList, main
    <3>2. \A i \in Slot :
            jobs'[i].state = "FG" => jobs'[i] = jobs[i] /\ jobs[i].state = "FG"
      BY <2>2, UpdateListOutcomes DEF EmptyJob, setstate, TypeInv, TypeOK, Job
    <3> QED BY <3>1, <3>2, ForegroundShrinks
  <2>3. CASE \/ \E sig \in Signals \ {"QUIT"} : Deliver(sig)
             \/ SigQuit \/ WaitDead \/ WaitStopped \/ WaitNone \/ BlockMask \/ UnblockMask
             \/ Forwarder \/ Environment
    BY <2>3, ListUntouched, ForegroundShrinks
  <2>4. CASE UNCHANGED vars
    BY <2>4, ForegroundShrinks DEF vars, list, main
  <2> QED BY <2>1, <2>2, <2>3, <2>4 DEF Next, sigchld_handler
<1> QED BY <1>1, <1>2, TypeInvariance, PTL DEF Spec

THEOREM OneForegroundJob == Spec => []ForegroundIsWaitedFor
<1>1. FgInv => ForegroundIsWaitedFor
  BY DEF FgInv
<1> QED BY <1>1, ForegroundInvariance, PTL

-----------------------------------------------------------------------------
(* A forwarder about to call kill has a PID to send its signal to.         *)
Aimed == \A k \in DOMAIN frames : frames[k].pc = "kill" => frames[k].pid # 0

KeysInv == KeysSpareBackground /\ Aimed

(* A frame on its way to kill was there before, or has just looked up.     *)
LEMMA KeysMeans ==
  KeysInv <=> \A k \in DOMAIN frames : frames[k].pc = "kill" =>
                /\ frames[k].pid # 0
                /\ \A i \in Slot : jobs[i].pid = frames[k].pid => jobs[i].state \in {"FG", "ST"}
BY DEF KeysInv, KeysSpareBackground, Aimed, Frames

LEMMA KeysQuiet ==
  ASSUME KeysInv,
         \A k \in DOMAIN frames' : frames'[k].pc = "kill" =>
           k \in DOMAIN frames /\ frames'[k] = frames[k],
         \A i \in Slot :
           \/ jobs'[i] = jobs[i]
           \/ jobs'[i].pid = 0
           \/ jobs'[i].pid = jobs[i].pid /\ jobs'[i].state = "ST"
  PROVE  KeysInv'
BY DEF KeysInv, KeysSpareBackground, Aimed, Frames

(***************************************************************************)
(* From the moment sigint_handler or sigtstp_handler has found the         *)
(* foreground job to the kill, that PID is never a background job's.       *)
(***************************************************************************)
THEOREM KeysInvariance == Spec => []KeysInv
<1>1. Init => KeysInv
  BY DEF Init, KeysInv, KeysSpareBackground, Aimed, Frames
<1>2. TypeInv /\ ListInv /\ KeysInv /\ [Next]_vars => KeysInv'
  <2> SUFFICES ASSUME TypeInv, ListInv, KeysInv, [Next]_vars PROVE KeysInv'
    OBVIOUS
  <2>1. CASE Command \/ MainStep
    <3>1. frames' = <<>>
      BY <2>1 DEF Command, Quit, Run, FindJob, MainStep, Fork, AddJob, Unblock, LoadPid,
                  KillCont, SetState, LoadWait, WaitFg, MainTurn, signals
    <3> QED BY <3>1 DEF KeysInv, KeysSpareBackground, Aimed, Frames
  <2>2. CASE WaitDead \/ WaitStopped \/ BlockMask \/ UpdateList \/ UnblockMask
    <3>1. /\ frames \in Seq(Frame) /\ frames # <<>> /\ Top \in Frame
          /\ Len(frames) \in DOMAIN frames
      BY <2>2, HandlerOnTop
         DEF TypeInv, WaitDead, WaitStopped, BlockMask, UpdateList, UnblockMask
    <3>2. PICK g \in Frame : g.pc # "kill" /\ SetTop(g)
      <4>1. CASE WaitDead
        <5>1. PICK p \in PID :
                SetTop([Top EXCEPT !.pc = "block", !.pid = p, !.status = "ended"])
          BY <4>1 DEF WaitDead
        <5>2. LET g == [Top EXCEPT !.pc = "block", !.pid = p, !.status = "ended"]
              IN  g \in Frame /\ g.pc # "kill"
          BY <3>1, ReportToFrame, HandlerConstants DEF Frame
        <5> QED BY <5>1, <5>2
      <4>2. CASE WaitStopped
        <5>1. PICK p \in PID :
                SetTop([Top EXCEPT !.pc = "block", !.pid = p, !.status = "stopped"])
          BY <4>2 DEF WaitStopped
        <5>2. LET g == [Top EXCEPT !.pc = "block", !.pid = p, !.status = "stopped"]
              IN  g \in Frame /\ g.pc # "kill"
          BY <3>1, ReportToFrame, HandlerConstants DEF Frame
        <5> QED BY <5>1, <5>2
      <4>3. CASE BlockMask
        <5>1. LET g == [Top EXCEPT !.pc = "update"] IN g \in Frame /\ g.pc # "kill"
          BY <3>1, MoveFrame, HandlerConstants DEF Frame
        <5> QED BY <4>3, <5>1 DEF BlockMask
      <4>4. CASE UpdateList
        <5>1. LET g == [Top EXCEPT !.pc = "unblock", !.pid = 0, !.status = "none"]
              IN  g \in Frame /\ g.pc # "kill"
          BY <3>1, ReportToFrame, HandlerConstants DEF Frame
        <5> QED BY <4>4, <5>1 DEF UpdateList
      <4>5. CASE UnblockMask
        <5>1. LET g == [Top EXCEPT !.pc = "wait"] IN g \in Frame /\ g.pc # "kill"
          BY <3>1, MoveFrame, HandlerConstants DEF Frame
        <5> QED BY <4>5, <5>1 DEF UnblockMask
      <4> QED BY <2>2, <4>1, <4>2, <4>3, <4>4, <4>5
    <3>3. \A k \in DOMAIN frames' : frames'[k].pc = "kill" =>
            k \in DOMAIN frames /\ frames'[k] = frames[k]
      BY <3>1, <3>2, ReplaceTop
    <3>4. \A i \in Slot :
            \/ jobs'[i] = jobs[i]
            \/ jobs'[i].pid = 0
            \/ jobs'[i].pid = jobs[i].pid /\ jobs'[i].state = "ST"
      <4>1. CASE UpdateList
        BY <4>1, UpdateListOutcomes DEF EmptyJob, setstate, TypeInv, TypeOK, Job
      <4>2. CASE WaitDead \/ WaitStopped \/ BlockMask \/ UnblockMask
        BY <4>2, ListUntouched
      <4> QED BY <2>2, <4>1, <4>2
    <3> QED BY <3>3, <3>4, KeysQuiet
  <2>3. CASE WaitNone
    <3>1. frames \in Seq(Frame) /\ frames # <<>>
      BY <2>3, HandlerOnTop DEF WaitNone, TypeInv
    <3>2. \A k \in DOMAIN frames' : k \in DOMAIN frames /\ frames'[k] = frames[k]
      BY <2>3, <3>1, PopTop DEF WaitNone
    <3> QED BY <2>3, <3>2, ListUntouched, KeysQuiet
  <2>4. CASE \E sig \in Signals \ {"QUIT"} : Deliver(sig)
    <3>1. PICK f : frames' = Append(frames, f) /\ f.pc # "kill"
      BY <2>4 DEF Deliver
    <3>2. \A k \in DOMAIN frames' : frames'[k].pc = "kill" =>
            k \in DOMAIN frames /\ frames'[k] = frames[k]
      BY <3>1 DEF TypeInv, TypeOK
    <3> QED BY <2>4, <3>2, ListUntouched, KeysQuiet
  <2>5. CASE SigQuit \/ Environment
    <3>1. frames' = frames
      BY <2>5 DEF Environment, Keyboard, SetPgid, ChildDies, ChildStops, ChildContinues,
                  SigQuit, signals
    <3> QED BY <2>5, <3>1, ListUntouched, KeysQuiet
  <2>6. CASE Forwarder
    <3>1. frames \in Seq(Frame) /\ frames # <<>> /\ jobs' = jobs /\ Top \in Frame
      BY <2>6, ForwarderOutcomes, TopIsAFrame DEF list
    <3>2. CASE PopFrame
      <4>1. \A k \in DOMAIN frames' : k \in DOMAIN frames /\ frames'[k] = frames[k]
        BY <3>1, <3>2, PopTop
      <4> QED BY <3>1, <4>1, KeysQuiet
    <3>3. CASE fgpid(jobs) # 0 /\ SetTop([Top EXCEPT !.pc = "kill", !.pid = fgpid(jobs)])
      <4> DEFINE p == fgpid(jobs)
                 g == [Top EXCEPT !.pc = "kill", !.pid = p]
      <4>1. p \in PID \cup {0} /\ p # 0
            /\ \E i \in Slot : jobs[i].state = "FG" /\ p = jobs[i].pid
        BY <3>3, FgpidFinds DEF TypeInv, TypeOK
      <4>2. g \in Frame /\ g.pid = p
        BY <3>1, <4>1, AimFrame, HandlerConstants DEF Frame
      <4>3. /\ DOMAIN frames' = DOMAIN frames /\ frames'[Len(frames)] = g
            /\ \A k \in DOMAIN frames : k # Len(frames) => frames'[k] = frames[k]
        BY <3>1, <3>3, <4>2, ReplaceTop
      <4>4. \A i \in Slot : jobs[i].pid = p => jobs[i].state = "FG"
        BY <4>1 DEF ListInv, UniquePids
      <4> HIDE DEF p, g
      <4> QED BY <3>1, <4>1, <4>2, <4>3, <4>4, KeysMeans DEF KeysInv, KeysSpareBackground, Aimed, Frames
    <3>4. CASE frames' = frames
      BY <3>1, <3>4, KeysQuiet
    <3> QED BY <2>6, <3>2, <3>3, <3>4, ForwarderOutcomes
  <2>7. CASE UNCHANGED vars
    BY <2>7, KeysQuiet DEF vars, list, signals
  <2> QED BY <2>1, <2>2, <2>3, <2>4, <2>5, <2>6, <2>7 DEF Next, sigchld_handler
<1> QED BY <1>1, <1>2, TypeInvariance, ListInvariance, PTL DEF Spec

THEOREM KeysAimAtForeground == Spec => []KeysSpareBackground
<1>1. KeysInv => KeysSpareBackground
  BY DEF KeysInv
<1> QED BY <1>1, KeysInvariance, PTL

-----------------------------------------------------------------------------
(***************************************************************************)
(* tsh implements JobControl: every step of the shell, of its handlers and *)
(* of its children is one change of state that the user is promised, or    *)
(* none.                                                                   *)
(***************************************************************************)

(* A slot in use has a state.                                              *)
ListedHasState == \A i \in Slot : jobs[i].pid # 0 => jobs[i].state # "UNDEF"

(* The state a list gives a PID, for any list.                             *)
State(js, p) ==
  IF \E i \in Slot : js[i].pid = p THEN js[getjobpid(js, p)].state ELSE "UNDEF"

OnePidEach(js) == \A i, j \in Slot : js[i].pid = js[j].pid /\ js[i].pid # 0 => i = j

-----------------------------------------------------------------------------
LEMMA StateAt ==
  ASSUME NEW js \in [Slot -> Job], OnePidEach(js), NEW i \in Slot, js[i].pid \in PID
  PROVE  State(js, js[i].pid) = js[i].state
<1> DEFINE p == js[i].pid
           k == getjobpid(js, p)
<1>1. k # NULL => k \in Slot /\ js[k].pid = p
  BY GetjobpidFinds
<1>2. k # NULL
  BY GetjobpidFinds
<1>3. k = i
  BY <1>1, <1>2, PIDAssumption DEF OnePidEach
<1> QED BY <1>3 DEF State

LEMMA StateOfStranger ==
  ASSUME NEW js, NEW p, \A i \in Slot : js[i].pid # p
  PROVE  State(js, p) = "UNDEF"
BY DEF State

(* A step that rewrites one slot leaves the other PIDs' states alone.      *)
LEMMA OtherStates ==
  ASSUME NEW js \in [Slot -> Job], NEW ks \in [Slot -> Job],
         OnePidEach(js), OnePidEach(ks),
         NEW i \in Slot, \A j \in Slot : j # i => ks[j] = js[j],
         NEW p \in PID, p # js[i].pid, p # ks[i].pid
  PROVE  State(ks, p) = State(js, p)
<1>1. CASE \E j \in Slot : js[j].pid = p
  <2>1. PICK j \in Slot : js[j].pid = p
    BY <1>1
  <2>2. j # i /\ ks[j] = js[j]
    BY <2>1
  <2>3. State(js, js[j].pid) = js[j].state
    BY <2>1, StateAt
  <2>4. State(ks, ks[j].pid) = ks[j].state
    BY <2>1, <2>2, StateAt
  <2> QED BY <2>1, <2>2, <2>3, <2>4
<1>2. CASE ~ \E j \in Slot : js[j].pid = p
  <2>1. \A j \in Slot : js[j].pid # p /\ ks[j].pid # p
    BY <1>2
  <2> QED BY <2>1, StateOfStranger
<1> QED BY <1>1, <1>2

-----------------------------------------------------------------------------
(* What a step does to the list: nothing, or one of five rewrites of one   *)
(* slot.                                                                   *)
Added(i, p) ==
  /\ jobs[i].pid = 0 /\ ~ Listed(p) /\ p \in PID
  /\ jobs'[i].pid = p
  /\ \/ jobs'[i].state = "BG"
     \/ jobs'[i].state = "FG" /\ \A j \in Slot : jobs[j].state # "FG"
Resumed(i) ==
  /\ jobs'[i].pid = jobs[i].pid
  /\ jobs'[i].state \in {"FG", "BG"} /\ \A j \in Slot : jobs[j].state # "FG"
Stopped(i) == jobs'[i].pid = jobs[i].pid /\ jobs'[i].state = "ST" /\ jobs[i].pid # 0
Cleared(i) == jobs'[i] = EmptyJob

Rewrites ==
  \/ jobs' = jobs
  \/ \E i \in Slot :
       /\ \A j \in Slot : j # i => jobs'[j] = jobs[j]
       /\ (\E p \in PID : Added(i, p)) \/ Resumed(i) \/ Stopped(i) \/ Cleared(i)

LEMMA StepRewrites ==
  ASSUME TypeInv, ListInv, FgInv, [Next]_vars
  PROVE  Rewrites
<1>1. CASE AddJob
  <2>1. \A j \in Slot : jobs[j].state # "FG"
    BY <1>1 DEF AddJob, FgInv, ForegroundIsWaitedFor, Ended
  <2> DEFINE s == StartState(bg)
  <2>2. s \in {"FG", "BG"} /\ s \in JobState
    BY DEF StartState, JobState
  <2>3. jobs' = addjob(jobs, nextjid, pid, s).jobs /\ pc = "addjob"
    BY <1>1 DEF AddJob
  <2> HIDE DEF s
  <2>4. jobs \in [Slot -> Job] /\ nextjid \in Nat \ {0}
    BY DEF TypeInv, TypeOK
  <2>5. \/ jobs' = jobs
        \/ \E i \in Slot :
             /\ pid \in PID /\ jobs[i].pid = 0
             /\ jobs' = [jobs EXCEPT ![i] = [pid |-> pid, jid |-> nextjid, state |-> s]]
    BY <2>2, <2>3, <2>4, AddjobFillsASlot
  <2>6. ASSUME NEW i \in Slot, pid \in PID, jobs[i].pid = 0,
               jobs' = [jobs EXCEPT ![i] = [pid |-> pid, jid |-> nextjid, state |-> s]]
        PROVE  Rewrites
    <3>1. ~ Listed(pid)
      BY <2>3, <2>6 DEF ListInv, NewChild
    <3>2. jobs'[i].pid = pid /\ jobs'[i].state = s /\ \A j \in Slot : j # i => jobs'[j] = jobs[j]
      BY <2>4, <2>6
    <3>3. Added(i, pid)
      BY <2>1, <2>2, <2>6, <3>1, <3>2 DEF Added
    <3> QED BY <2>6, <3>2, <3>3 DEF Rewrites
  <2> QED BY <2>5, <2>6 DEF Rewrites
<1>2. CASE SetState
  <2>1. slot \in Slot /\ jobs' = setstate(jobs, slot, StartState(bg))
        /\ \A j \in Slot : jobs[j].state # "FG"
    BY <1>2 DEF SetState, FgInv, ForegroundIsWaitedFor, Ended, TypeInv, SlotFound
  <2>2. Resumed(slot) /\ \A j \in Slot : j # slot => jobs'[j] = jobs[j]
    BY <2>1 DEF Resumed, setstate, StartState, TypeInv, TypeOK, Job
  <2> QED BY <2>1, <2>2 DEF Rewrites
<1>3. CASE UpdateList
  <2>1. ASSUME NEW i \in Slot, jobs[i].pid = Top.pid, Top.pid \in PID,
               jobs' = [jobs EXCEPT ![i] = EmptyJob]
        PROVE  Rewrites
    <3>1. Cleared(i) /\ \A j \in Slot : j # i => jobs'[j] = jobs[j]
      BY <2>1 DEF Cleared, TypeInv, TypeOK
    <3> QED BY <2>1, <3>1 DEF Rewrites
  <2>2. ASSUME NEW i \in Slot, jobs[i].pid = Top.pid, Top.pid \in PID,
               jobs' = setstate(jobs, i, "ST")
        PROVE  Rewrites
    <3>1. jobs[i].pid # 0
      BY <2>2, PIDAssumption
    <3>2. Stopped(i) /\ \A j \in Slot : j # i => jobs'[j] = jobs[j]
      BY <2>2, <3>1 DEF Stopped, setstate, TypeInv, TypeOK, Job
    <3> QED BY <2>2, <3>2 DEF Rewrites
  <2> QED BY <1>3, <2>1, <2>2, UpdateListOutcomes DEF Rewrites
<1>4. CASE \/ Command \/ Fork \/ Unblock \/ LoadPid \/ KillCont \/ LoadWait \/ WaitFg
  BY <1>4 DEF Command, Quit, Run, FindJob, Fork, Unblock, LoadPid, KillCont, LoadWait,
              WaitFg, list, Rewrites
<1>5. CASE \/ \E sig \in Signals \ {"QUIT"} : Deliver(sig)
           \/ SigQuit \/ WaitDead \/ WaitStopped \/ WaitNone \/ BlockMask \/ UnblockMask
           \/ Forwarder \/ Environment
  BY <1>5, ListUntouched DEF Rewrites
<1>6. CASE UNCHANGED vars
  BY <1>6 DEF vars, list, Rewrites
<1> QED BY <1>1, <1>2, <1>3, <1>4, <1>5, <1>6 DEF Next, MainStep, sigchld_handler

(* Every slot in use has a state: addjob gives it one.                     *)
THEOREM ListedHaveStates == Spec => []ListedHasState
<1>1. Init => ListedHasState
  BY DEF Init, initjobs, EmptyJob, ListedHasState
<1>2. TypeInv /\ ListInv /\ FgInv /\ ListedHasState /\ [Next]_vars => ListedHasState'
  <2> SUFFICES ASSUME TypeInv, ListInv, FgInv, ListedHasState, [Next]_vars
               PROVE  ListedHasState'
    OBVIOUS
  <2>1. Rewrites
    BY StepRewrites
  <2> QED BY <2>1 DEF Rewrites, Added, Resumed, Stopped, Cleared, EmptyJob, ListedHasState
<1> QED BY <1>1, <1>2, TypeInvariance, ListInvariance, ForegroundInvariance, PTL DEF Spec

(***************************************************************************)
(* A rewrite of the list is a promised change of one job's state, or none. *)
(***************************************************************************)
LEMMA RewriteIsMove ==
  ASSUME TypeInv, TypeInv', ListInv, ListInv', ListedHasState, Rewrites
  PROVE  [JC!Next]_[p \in PID |-> StateOf(p)]
<1> DEFINE st == [p \in PID |-> State(jobs, p)]
           su == [p \in PID |-> State(jobs', p)]
<1>1. /\ jobs \in [Slot -> Job] /\ jobs' \in [Slot -> Job]
      /\ OnePidEach(jobs) /\ OnePidEach(jobs')
  BY DEF TypeInv, TypeOK, ListInv, UniquePids, OnePidEach
<1>2. [p \in PID |-> StateOf(p)] = st /\ [p \in PID |-> StateOf(p)]' = su
  BY DEF StateOf, State, Listed
<1>3. CASE jobs' = jobs
  BY <1>2, <1>3
<1>4. ASSUME NEW i \in Slot, \A j \in Slot : j # i => jobs'[j] = jobs[j],
             (\E p \in PID : Added(i, p)) \/ Resumed(i) \/ Stopped(i) \/ Cleared(i)
      PROVE  su = st \/ \E p \in PID :
               /\ su = [st EXCEPT ![p] = su[p]]
               /\ \/ st[p] = "UNDEF" /\ su[p] \in {"FG", "BG"}
                  \/ st[p] \in {"FG", "BG"} /\ su[p] = "ST"
                  \/ st[p] \in {"ST", "BG"} /\ su[p] = "FG"
                  \/ st[p] = "ST" /\ su[p] = "BG"
                  \/ st[p] \in {"FG", "BG", "ST"} /\ su[p] = "UNDEF"
               /\ su[p] = "FG" => \A q \in PID : st[q] # "FG"
  <2>1. \A p \in PID : p # jobs[i].pid /\ p # jobs'[i].pid => su[p] = st[p]
    BY <1>1, <1>4, OtherStates
  <2>2. ASSUME \A j \in Slot : jobs[j].state # "FG"
        PROVE  \A q \in PID : st[q] # "FG"
    <3> SUFFICES ASSUME NEW q \in PID PROVE State(jobs, q) # "FG"
      OBVIOUS
    <3>1. CASE \E j \in Slot : jobs[j].pid = q
      <4>1. PICK j \in Slot : jobs[j].pid = q
        BY <3>1
      <4>2. State(jobs, jobs[j].pid) = jobs[j].state
        BY <1>1, <4>1, StateAt
      <4> QED BY <2>2, <4>1, <4>2
    <3>2. CASE ~ \E j \in Slot : jobs[j].pid = q
      BY <3>2 DEF State
    <3> QED BY <3>1, <3>2
  <2>3. jobs[i].pid \in PID => st[jobs[i].pid] = jobs[i].state
    BY <1>1, StateAt
  <2>4. jobs'[i].pid \in PID => su[jobs'[i].pid] = jobs'[i].state
    BY <1>1, <1>4, StateAt
  <2>5. st \in [PID -> JobState] /\ su \in [PID -> JobState]
    <3>1. \A js \in [Slot -> Job], p \in PID : State(js, p) \in JobState
      <4> SUFFICES ASSUME NEW js \in [Slot -> Job], NEW p \in PID
                   PROVE  State(js, p) \in JobState
        OBVIOUS
      <4>1. (\E k \in Slot : js[k].pid = p) => getjobpid(js, p) \in Slot
        BY GetjobpidFinds
      <4> QED BY <4>1 DEF State, Job, JobState
    <3> QED BY <1>1, <3>1
  <2>6. jobs[i] \in Job /\ jobs[i].state \in JobState /\ jobs[i].pid \in PID \cup {0}
    BY <1>1 DEF Job
  <2>7. CASE \E p \in PID : Added(i, p)
    <3>1. PICK p \in PID : Added(i, p)
      BY <2>7
    <3>2. st[p] = "UNDEF"
      BY <3>1, StateOfStranger DEF Added, Listed
    <3>3. su[p] \in {"FG", "BG"} /\ (su[p] = "FG" => \A q \in PID : st[q] # "FG")
      BY <2>2, <2>4, <3>1 DEF Added
    <3>4. \A q \in PID : q # p => su[q] = st[q]
      BY <2>1, <3>1, PIDAssumption DEF Added
    <3> HIDE DEF st, su
    <3>5. su = [st EXCEPT ![p] = su[p]]
      BY <2>5, <3>4
    <3> QED BY <3>1, <3>2, <3>3, <3>5
  <2>8. CASE jobs[i].pid = 0 /\ (Resumed(i) \/ Stopped(i) \/ Cleared(i))
    <3>1. \A q \in PID : su[q] = st[q]
      BY <2>1, <2>8, PIDAssumption DEF Resumed, Stopped, Cleared, EmptyJob
    <3> HIDE DEF st, su
    <3> QED BY <2>5, <3>1
  <2>9. CASE jobs[i].pid \in PID /\ (Resumed(i) \/ Stopped(i))
    <3> DEFINE p == jobs[i].pid
    <3>1. p \in PID /\ jobs'[i].pid = p /\ st[p] = jobs[i].state /\ su[p] = jobs'[i].state
      BY <2>3, <2>4, <2>9 DEF Resumed, Stopped
    <3>2. \A q \in PID : q # p => su[q] = st[q]
      BY <2>1, <3>1
    <3>3. jobs[i].state \in {"FG", "BG", "ST"}
      BY <2>6, <2>9, PIDAssumption DEF ListedHasState, JobState
    <3>4. Resumed(i) => jobs[i].state # "FG" /\ \A q \in PID : st[q] # "FG"
      BY <2>2 DEF Resumed
    <3>5. \/ Resumed(i) /\ su[p] \in {"FG", "BG"}
          \/ Stopped(i) /\ su[p] = "ST"
      BY <2>9, <3>1 DEF Resumed, Stopped
    <3> HIDE DEF st, su, p
    <3>6. su = [st EXCEPT ![p] = su[p]]
      BY <2>5, <3>1, <3>2
    <3>7. su[p] = st[p] => su = st
      BY <2>5, <3>2
    <3> QED BY <3>1, <3>3, <3>4, <3>5, <3>6, <3>7
  <2>10. CASE jobs[i].pid \in PID /\ Cleared(i)
    <3> DEFINE p == jobs[i].pid
    <3>1. p \in PID /\ p # 0 /\ jobs'[i].pid = 0 /\ st[p] = jobs[i].state
      BY <2>3, <2>10, PIDAssumption DEF Cleared, EmptyJob
    <3>2. \A j \in Slot : jobs'[j].pid # p
      BY <1>1, <1>4, <3>1 DEF OnePidEach
    <3>3. su[p] = "UNDEF"
      BY <3>1, <3>2, StateOfStranger
    <3>4. \A q \in PID : q # p => su[q] = st[q]
      BY <2>1, <3>1, PIDAssumption
    <3>5. jobs[i].state \in {"FG", "BG", "ST"}
      BY <2>6, <3>1 DEF ListedHasState, JobState
    <3> HIDE DEF st, su, p
    <3>6. su = [st EXCEPT ![p] = su[p]]
      BY <2>5, <3>1, <3>4
    <3> QED BY <3>1, <3>3, <3>5, <3>6
  <2> QED BY <1>4, <2>6, <2>7, <2>8, <2>9, <2>10
<1> HIDE DEF st, su
<1>5. su = st \/ \E p \in PID :
        /\ su = [st EXCEPT ![p] = su[p]]
        /\ \/ st[p] = "UNDEF" /\ su[p] \in {"FG", "BG"}
           \/ st[p] \in {"FG", "BG"} /\ su[p] = "ST"
           \/ st[p] \in {"ST", "BG"} /\ su[p] = "FG"
           \/ st[p] = "ST" /\ su[p] = "BG"
           \/ st[p] \in {"FG", "BG", "ST"} /\ su[p] = "UNDEF"
        /\ su[p] = "FG" => \A q \in PID : st[q] # "FG"
  BY <1>3, <1>4 DEF Rewrites, st, su
<1> QED BY <1>2, <1>5 DEF JC!Next, JC!Move

(***************************************************************************)
(* The job list goes only through the states and changes that the user is  *)
(* promised, with at most one job in the foreground.                       *)
(***************************************************************************)
THEOREM ImplementsJobControl == Spec => JobStates
<1>1. Init => JC!Init
  <2> SUFFICES ASSUME Init PROVE JC!Init
    OBVIOUS
  <2>1. \A p \in PID : StateOf(p) = "UNDEF"
    BY PIDAssumption DEF Init, initjobs, EmptyJob, StateOf, Listed
  <2> QED BY <2>1 DEF JC!Init
<1>2. TypeInv /\ TypeInv' /\ ListInv /\ ListInv' /\ FgInv /\ ListedHasState /\ [Next]_vars
        => [JC!Next]_[p \in PID |-> StateOf(p)]
  BY StepRewrites, RewriteIsMove
<1> QED
  BY <1>1, <1>2, TypeInvariance, ListInvariance, ForegroundInvariance, ListedHaveStates, PTL
     DEF Spec, JobStates, JC!Spec
-----------------------------------------------------------------------------
(***************************************************************************)
(* What a frame of sigchld_handler knows stays true until it has updated   *)
(* the list: the child that ended has no process, and the one that stopped *)
(* is not running, even when other handlers run in between: no process is  *)
(* forked, and none is continued by the shell, while a handler runs.       *)
(***************************************************************************)
Reporting(f) == f.pc \in {"block", "update"}
ReportTrue(f, procs) ==
  /\ f.pid \in PID
  /\ f.status = "ended" => procs[f.pid] = "free"
  /\ f.status = "stopped" /\ ~ ForeignSIGCONT => procs[f.pid] # "running"
ReportsTrue == \A k \in DOMAIN frames : Reporting(frames[k]) => ReportTrue(frames[k], proc)

\* No process begins, and none is continued.
NobodyWakes ==
  \A p \in PID : /\ proc[p] = "free" => proc'[p] = "free"
                 /\ proc[p] # "running" /\ ~ ForeignSIGCONT => proc'[p] # "running"

LEMMA ReportsQuiet ==
  ASSUME ReportsTrue, NobodyWakes,
         \A k \in DOMAIN frames' : Reporting(frames'[k]) =>
           /\ k \in DOMAIN frames /\ Reporting(frames[k])
           /\ frames'[k].pid = frames[k].pid /\ frames'[k].status = frames[k].status
  PROVE  ReportsTrue'
BY DEF ReportsTrue, ReportTrue, NobodyWakes

(* A step of the frame on top that leaves it with a true report, or none.  *)
LEMMA ReportsTop ==
  ASSUME ReportsTrue, NobodyWakes, frames \in Seq(Frame), frames # <<>>,
         NEW g \in Frame, SetTop(g), Reporting(g) => ReportTrue(g, proc')
  PROVE  ReportsTrue'
<1>1. /\ DOMAIN frames' = DOMAIN frames /\ frames'[Len(frames)] = g
      /\ \A k \in DOMAIN frames : k # Len(frames) => frames'[k] = frames[k]
  BY ReplaceTop
<1>2. ASSUME NEW k \in DOMAIN frames', Reporting(frames'[k]) PROVE ReportTrue(frames'[k], proc')
  <2>1. CASE k = Len(frames)
    BY <1>1, <1>2, <2>1
  <2>2. CASE k # Len(frames)
    BY <1>1, <1>2, <2>2 DEF ReportsTrue, ReportTrue, NobodyWakes
  <2> QED BY <2>1, <2>2
<1> QED BY <1>2 DEF ReportsTrue, Reporting, ReportTrue

LEMMA HandlersReportTruly ==
  ASSUME TypeInv, ReportsTrue, sigchld_handler
  PROVE  ReportsTrue'
<1>1. /\ frames \in Seq(Frame) /\ frames # <<>> /\ Top \in Frame
      /\ Len(frames) \in DOMAIN frames
  BY HandlerOnTop DEF TypeInv, sigchld_handler, WaitDead, WaitStopped, WaitNone, BlockMask,
                      UpdateList, UnblockMask
<1>2. proc \in [PID -> ProcState]
  BY DEF TypeInv, TypeOK
<1>3. CASE WaitDead
  <2>1. PICK p \in PID :
          /\ proc' = [proc EXCEPT ![p] = "free"]
          /\ SetTop([Top EXCEPT !.pc = "block", !.pid = p, !.status = "ended"])
    BY <1>3 DEF WaitDead
  <2> DEFINE g == [Top EXCEPT !.pc = "block", !.pid = p, !.status = "ended"]
  <2>2. g \in Frame /\ g.pid = p /\ g.status = "ended"
    BY <1>1, ReportToFrame, HandlerConstants DEF Frame
  <2>3. SetTop(g)
    BY <2>1
  <2> HIDE DEF g
  <2>4. ReportTrue(g, proc')
    BY <1>2, <2>1, <2>2 DEF ReportTrue
  <2>5. NobodyWakes
    BY <1>2, <2>1 DEF NobodyWakes
  <2> QED BY <1>1, <2>2, <2>3, <2>4, <2>5, ReportsTop
<1>4. CASE WaitStopped
  <2>1. PICK p \in PID :
          /\ proc' = [proc EXCEPT ![p] = "seen"] /\ proc[p] = "stopped"
          /\ SetTop([Top EXCEPT !.pc = "block", !.pid = p, !.status = "stopped"])
    BY <1>4 DEF WaitStopped
  <2> DEFINE g == [Top EXCEPT !.pc = "block", !.pid = p, !.status = "stopped"]
  <2>2. g \in Frame /\ g.pid = p /\ g.status = "stopped"
    BY <1>1, ReportToFrame, HandlerConstants DEF Frame
  <2>3. SetTop(g)
    BY <2>1
  <2> HIDE DEF g
  <2>4. ReportTrue(g, proc')
    BY <1>2, <2>1, <2>2 DEF ReportTrue
  <2>5. NobodyWakes
    BY <1>2, <2>1 DEF NobodyWakes
  <2> QED BY <1>1, <2>2, <2>3, <2>4, <2>5, ReportsTop
<1>5. CASE WaitNone
  <2>1. NobodyWakes
    BY <1>5 DEF WaitNone, kernel, NobodyWakes
  <2>2. \A k \in DOMAIN frames' : k \in DOMAIN frames /\ frames'[k] = frames[k]
    BY <1>1, <1>5, PopTop DEF WaitNone
  <2> QED BY <2>1, <2>2, ReportsQuiet
<1>6. CASE BlockMask
  <2> DEFINE g == [Top EXCEPT !.pc = "update"]
  <2>1. g \in Frame /\ g.pid = Top.pid /\ g.status = Top.status
    BY <1>1, MoveFrame, HandlerConstants
  <2>2. SetTop(g) /\ proc' = proc
    BY <1>6 DEF BlockMask, kernel
  <2> HIDE DEF g
  <2>3. ReportTrue(Top, proc)
    BY <1>1, <1>6 DEF BlockMask, HandlerAt, ReportsTrue, Reporting, Top
  <2>4. ReportTrue(g, proc')
    BY <2>1, <2>2, <2>3 DEF ReportTrue
  <2>5. NobodyWakes
    BY <2>2 DEF NobodyWakes
  <2> QED BY <1>1, <2>1, <2>2, <2>4, <2>5, ReportsTop
<1>7. CASE UpdateList
  <2> DEFINE g == [Top EXCEPT !.pc = "unblock", !.pid = 0, !.status = "none"]
  <2>1. g \in Frame /\ ~ Reporting(g)
    BY <1>1, ReportToFrame, HandlerConstants DEF Reporting, Frame
  <2>2. SetTop(g) /\ proc' = proc
    BY <1>7 DEF UpdateList, kernel
  <2> HIDE DEF g
  <2>3. NobodyWakes
    BY <2>2 DEF NobodyWakes
  <2> QED BY <1>1, <2>1, <2>2, <2>3, ReportsTop
<1>8. CASE UnblockMask
  <2> DEFINE g == [Top EXCEPT !.pc = "wait"]
  <2>1. g \in Frame /\ ~ Reporting(g)
    BY <1>1, MoveFrame, HandlerConstants DEF Reporting
  <2>2. SetTop(g) /\ proc' = proc
    BY <1>8 DEF UnblockMask, kernel
  <2> HIDE DEF g
  <2>3. NobodyWakes
    BY <2>2 DEF NobodyWakes
  <2> QED BY <1>1, <2>1, <2>2, <2>3, ReportsTop
<1> QED BY <1>3, <1>4, <1>5, <1>6, <1>7, <1>8 DEF sigchld_handler

(***************************************************************************)
(* What waitpid told a handler is still true when the handler updates the  *)
(* list, however many handlers and signals came in between.                *)
(***************************************************************************)
THEOREM ReportsStayTrue == Spec => []ReportsTrue
<1>1. Init => ReportsTrue
  BY DEF Init, ReportsTrue
<1>2. TypeInv /\ ReportsTrue /\ [Next]_vars => ReportsTrue'
  <2> SUFFICES ASSUME TypeInv, ReportsTrue, [Next]_vars PROVE ReportsTrue'
    OBVIOUS
  <2>1. proc \in [PID -> ProcState] /\ frames \in Seq(Frame)
    BY DEF TypeInv, TypeOK
  <2>2. CASE Command \/ MainStep
    <3>1. frames' = <<>>
      BY <2>2 DEF Command, Quit, Run, FindJob, MainStep, Fork, AddJob, Unblock, LoadPid,
                  KillCont, SetState, LoadWait, WaitFg, MainTurn, signals
    <3> QED BY <3>1 DEF ReportsTrue
  <2>3. CASE sigchld_handler
    BY <2>3, HandlersReportTruly
  <2>4. CASE \E sig \in Signals \ {"QUIT"} : Deliver(sig)
    <3>1. PICK sig \in Signals \ {"QUIT"}, m \in SUBSET Signals :
            /\ proc' = proc
            /\ frames' = Append(frames,
                      [sig |-> sig, pc |-> IF sig = "CHLD" THEN "wait" ELSE "fgpid",
                       pid |-> 0, status |-> "none", mset |-> m, saved |-> mask])
      BY <2>4, HandlerMasksAssumption DEF Deliver, kernel
    <3> DEFINE f == [sig |-> sig, pc |-> IF sig = "CHLD" THEN "wait" ELSE "fgpid",
                     pid |-> 0, status |-> "none", mset |-> m, saved |-> mask]
    <3>2. f \in Frame /\ ~ Reporting(f) /\ frames' = Append(frames, f)
      BY <3>1 DEF Frame, HandlerPC, Status, Reporting, TypeInv, TypeOK
    <3> HIDE DEF f
    <3>3. \A k \in DOMAIN frames' : Reporting(frames'[k]) =>
            k \in DOMAIN frames /\ frames'[k] = frames[k]
      BY <2>1, <3>2, PushTop
    <3> QED BY <3>1, <3>3, ReportsQuiet DEF NobodyWakes
  <2>5. CASE SigQuit
    BY <2>5, ReportsQuiet DEF SigQuit, signals, kernel, NobodyWakes
  <2>6. CASE Forwarder
    <3>1. frames # <<>> /\ proc' = proc /\ Top \in Frame
      BY <2>1, <2>6, ForwarderOutcomes, TopIsAFrame DEF kernel
    <3>2. NobodyWakes
      BY <3>1 DEF NobodyWakes
    <3>3. CASE PopFrame
      <4>1. \A k \in DOMAIN frames' : k \in DOMAIN frames /\ frames'[k] = frames[k]
        BY <2>1, <3>1, <3>3, PopTop
      <4> QED BY <3>2, <4>1, ReportsQuiet
    <3>4. CASE SetTop([Top EXCEPT !.pc = "kill", !.pid = fgpid(jobs)])
      <4>1. fgpid(jobs) \in PID \cup {0}
        BY FgpidFinds DEF TypeInv, TypeOK
      <4> DEFINE g == [Top EXCEPT !.pc = "kill", !.pid = fgpid(jobs)]
      <4>2. g \in Frame /\ ~ Reporting(g)
        BY <3>1, <4>1, AimFrame, HandlerConstants DEF Reporting, Frame
      <4>3. SetTop(g)
        BY <3>4
      <4> HIDE DEF g
      <4> QED BY <2>1, <3>1, <3>2, <4>2, <4>3, ReportsTop
    <3>5. CASE frames' = frames
      BY <3>2, <3>5, ReportsQuiet
    <3> QED BY <2>6, <3>3, <3>4, <3>5, ForwarderOutcomes
  <2>7. CASE Environment
    <3>1. frames' = frames /\ NobodyWakes
      <4>1. CASE \E sig \in Keys : Keyboard(sig)
        BY <4>1 DEF Keyboard, kernel, NobodyWakes
      <4>2. ASSUME NEW p \in PID, SetPgid(p) PROVE frames' = frames /\ NobodyWakes
        BY <4>2 DEF SetPgid, signals, NobodyWakes
      <4>3. ASSUME NEW p \in PID, ChildDies(p) PROVE frames' = frames /\ NobodyWakes
        BY <2>1, <4>3 DEF ChildDies, NobodyWakes
      <4>4. ASSUME NEW p \in PID, ChildStops(p) PROVE frames' = frames /\ NobodyWakes
        BY <2>1, <4>4 DEF ChildStops, NobodyWakes
      <4>5. ASSUME NEW p \in PID, ChildContinues(p) PROVE frames' = frames /\ NobodyWakes
        BY <2>1, <4>5 DEF ChildContinues, Continue, NobodyWakes
      <4> QED BY <2>7, <4>1, <4>2, <4>3, <4>4, <4>5 DEF Environment
    <3> QED BY <3>1, ReportsQuiet
  <2>8. CASE UNCHANGED vars
    BY <2>8, ReportsQuiet DEF vars, signals, kernel, NobodyWakes
  <2> QED BY <2>2, <2>3, <2>4, <2>5, <2>6, <2>7, <2>8 DEF Next
<1> QED BY <1>1, <1>2, TypeInvariance, PTL DEF Spec

-----------------------------------------------------------------------------
(***************************************************************************)
(* A child is on the list until it is reaped: the list has a slot for the  *)
(* job that eval adds, and sigchld_handler deletes only what it reaped.    *)
(***************************************************************************)

(* While a process is not listed, and no more processes exist than the     *)
(* list has slots, a slot is free: the slots that are in use hold          *)
(* different PIDs.                                                         *)
LEMMA SlotToSpare ==
  ASSUME TypeInv, UniquePids, Cardinality(PID) <= MAXJOBS,
         NEW p \in PID, \A i \in Slot : jobs[i].pid # p
  PROVE  \E i \in Slot : jobs[i].pid = 0
<1> SUFFICES ASSUME \A i \in Slot : jobs[i].pid # 0 PROVE FALSE
  OBVIOUS
<1> DEFINE f == [i \in Slot |-> jobs[i].pid]
           T == PID \ {p}
<1>1. f \in [Slot -> T]
  BY DEF TypeInv, TypeOK, Job
<1>2. IsFiniteSet(Slot) /\ Cardinality(Slot) = MAXJOBS
  <2>1. 0 \in Int /\ MAXJOBS - 1 \in Int /\ ~ (0 > MAXJOBS - 1)
    BY MAXJOBSAssumption
  <2>2. IsFiniteSet(0 .. (MAXJOBS - 1)) /\ Cardinality(0 .. (MAXJOBS - 1)) = (MAXJOBS - 1) - 0 + 1
    BY <2>1, FS_Interval
  <2> QED BY <2>2, MAXJOBSAssumption DEF Slot
<1>3. IsFiniteSet(T) /\ Cardinality(T) < Cardinality(Slot)
  <2>1. IsFiniteSet(PID) /\ Cardinality(PID) \in Nat
    BY PIDAssumption, FS_CardinalityType
  <2>2. IsFiniteSet(T) /\ Cardinality(T) = Cardinality(PID) - 1
    BY <2>1, FS_RemoveElement
  <2> HIDE DEF T
  <2> QED BY <1>2, <2>1, <2>2, MAXJOBSAssumption
<1> HIDE DEF T
<1>4. \E x, y \in Slot : x # y /\ f[x] = f[y]
  <2> HIDE DEF f
  <2> QED BY <1>1, <1>2, <1>3, FS_PigeonHole
<1> QED BY <1>4 DEF UniquePids

(* A step that forks nobody and takes no PID off the list orphans nobody.  *)
LEMMA NobodyOrphaned ==
  ASSUME NoOrphan, Running' => Running,
         \A p \in PID : proc[p] = "free" => proc'[p] = "free",
         \A i \in Slot : jobs'[i].pid = jobs[i].pid,
         Running' /\ pc = "addjob" => pc' = "addjob" /\ pid' = pid
  PROVE  NoOrphan'
<1> SUFFICES ASSUME Running', Cardinality(PID) <= MAXJOBS,
                    NEW p \in PID, proc'[p] # "free"
             PROVE  Listed(p)' \/ (pc' = "addjob" /\ pid' = p)
  BY DEF NoOrphan
<1>1. Listed(p) \/ (pc = "addjob" /\ pid = p)
  BY DEF NoOrphan
<1> QED BY <1>1 DEF Listed

(* eval: the new child goes to addjob, and addjob has a slot for it.       *)
LEMMA EvalOrphansNobody ==
  ASSUME TypeInv, ListInv, NoOrphan, Fork \/ AddJob
  PROVE  NoOrphan'
<1> SUFFICES ASSUME Cardinality(PID) <= MAXJOBS, NEW p \in PID, proc'[p] # "free"
             PROVE  Listed(p)' \/ (pc' = "addjob" /\ pid' = p)
  BY DEF NoOrphan
<1>1. Running
  BY DEF Fork, AddJob, Running, Ended
<1>2. proc[p] # "free" => Listed(p) \/ (pc = "addjob" /\ pid = p)
  BY <1>1 DEF NoOrphan
<1>3. CASE Fork
  <2>1. Listed(p)' <=> Listed(p)
    BY <1>3 DEF Fork, list, Listed
  <2>2. pc = "fork" /\ pc' = "addjob"
    BY <1>3 DEF Fork
  <2>3. proc'[p] # proc[p] => pid' = p
    BY <1>3 DEF Fork, TypeInv, TypeOK
  <2> QED BY <1>2, <2>1, <2>2, <2>3
<1>4. CASE AddJob
  <2> DEFINE s == StartState(bg)
  <2>1. s \in JobState
    BY DEF StartState, JobState
  <2>2. jobs' = addjob(jobs, nextjid, pid, s).jobs /\ proc' = proc
    BY <1>4 DEF AddJob, kernel
  <2> HIDE DEF s
  <2>3. jobs \in [Slot -> Job] /\ nextjid \in Nat \ {0}
    BY DEF TypeInv, TypeOK
  <2>4. \/ jobs' = jobs /\ (pid \notin PID \/ \A i \in Slot : jobs[i].pid # 0)
        \/ \E i \in Slot :
             /\ pid \in PID /\ jobs[i].pid = 0
             /\ jobs' = [jobs EXCEPT ![i] = [pid |-> pid, jid |-> nextjid, state |-> s]]
    BY <2>1, <2>2, <2>3, AddjobFillsASlot
  <2>5. CASE Listed(p)
    <3>1. PICK k \in Slot : jobs[k].pid = p
      BY <2>5 DEF Listed
    <3>2. p # 0
      BY PIDAssumption
    <3>3. jobs'[k] = jobs[k]
      BY <2>3, <2>4, <3>1, <3>2
    <3> QED BY <3>1, <3>3 DEF Listed
  <2>6. CASE ~ Listed(p)
    <3>1. pid = p
      BY <1>2, <2>2, <2>6
    <3>2. \E i \in Slot : jobs[i].pid = 0
      BY <2>6, SlotToSpare DEF ListInv, Listed
    <3>3. PICK i \in Slot :
            jobs' = [jobs EXCEPT ![i] = [pid |-> pid, jid |-> nextjid, state |-> s]]
      BY <2>4, <3>1, <3>2
    <3>4. jobs'[i].pid = p
      BY <2>3, <3>1, <3>3
    <3> QED BY <3>4 DEF Listed
  <2> QED BY <2>5, <2>6
<1> QED BY <1>3, <1>4

(* sigchld_handler deletes the job of a child that is reaped: no one else. *)
LEMMA UpdateOrphansNobody ==
  ASSUME TypeInv, ListInv, ReportsTrue, NoOrphan, UpdateList
  PROVE  NoOrphan'
<1>1. UNCHANGED <<pc, pid, proc>> /\ Running
  BY DEF UpdateList, main, kernel, HandlerAt
<1>2. jobs \in [Slot -> Job] /\ proc \in [PID -> ProcState]
  BY DEF TypeInv, TypeOK
<1>3. CASE jobs' = jobs
  BY <1>1, <1>3, NobodyOrphaned DEF Running
<1>4. ASSUME NEW i \in Slot, jobs' = setstate(jobs, i, "ST") PROVE NoOrphan'
  <2>1. \A j \in Slot : jobs'[j].pid = jobs[j].pid
    BY <1>2, <1>4 DEF setstate, Job
  <2> QED BY <1>1, <2>1, NobodyOrphaned DEF Running
<1>5. ASSUME NEW i \in Slot, jobs[i].pid = Top.pid, Top.status = "ended",
             jobs' = [jobs EXCEPT ![i] = EmptyJob]
      PROVE  NoOrphan'
  <2>1. Len(frames) \in DOMAIN frames /\ Top.pc = "update"
    BY HandlerOnTop DEF TypeInv, UpdateList
  <2>2. proc[Top.pid] = "free"
    BY <1>5, <2>1 DEF ReportsTrue, Reporting, ReportTrue, Top
  <2> SUFFICES ASSUME Cardinality(PID) <= MAXJOBS, NEW p \in PID, proc[p] # "free"
               PROVE  Listed(p)' \/ (pc = "addjob" /\ pid = p)
    BY <1>1 DEF NoOrphan
  <2>3. Listed(p) \/ (pc = "addjob" /\ pid = p)
    BY <1>1 DEF NoOrphan
  <2>4. \A k \in Slot : jobs[k].pid = p => jobs'[k] = jobs[k]
    BY <1>2, <1>5, <2>2
  <2> QED BY <2>3, <2>4 DEF Listed
<1> QED BY <1>3, <1>4, <1>5, UpdateListOutcomes

(***************************************************************************)
(* The user sees every child of the shell that is not reaped, from addjob  *)
(* on: neither addjob nor sigchld_handler loses a live process, whichever  *)
(* way signals, handlers and commands interleave.                          *)
(***************************************************************************)
THEOREM NobodyIsOrphaned == Spec => []NoOrphan
<1>1. Init => NoOrphan
  BY DEF Init, NoOrphan
<1>2. TypeInv /\ ListInv /\ ReportsTrue /\ NoOrphan /\ [Next]_vars => NoOrphan'
  <2> SUFFICES ASSUME TypeInv, ListInv, ReportsTrue, NoOrphan, [Next]_vars PROVE NoOrphan'
    OBVIOUS
  <2>1. jobs \in [Slot -> Job] /\ proc \in [PID -> ProcState]
    BY DEF TypeInv, TypeOK
  <2>2. CASE Fork \/ AddJob
    BY <2>2, EvalOrphansNobody
  <2>3. CASE UpdateList
    BY <2>3, UpdateOrphansNobody
  <2>4. CASE Command \/ Unblock \/ LoadPid \/ LoadWait \/ WaitFg
    <3>1. pc # "addjob" /\ Running /\ jobs' = jobs /\ proc' = proc
      BY <2>4 DEF Command, Quit, Run, FindJob, Unblock, LoadPid, LoadWait, WaitFg,
                  list, kernel, Running, Ended
    <3> QED BY <3>1, NobodyOrphaned
  <2>5. CASE KillCont
    <3>1. pc # "addjob" /\ Running /\ jobs' = jobs
      BY <2>5 DEF KillCont, list, Running, Ended
    <3>2. \A p \in PID : proc[p] = "free" => proc'[p] = "free"
      BY <2>1, <2>5 DEF KillCont, Continue
    <3> QED BY <3>1, <3>2, NobodyOrphaned
  <2>6. CASE SetState
    <3>1. pc # "addjob" /\ Running /\ proc' = proc
      BY <2>6 DEF SetState, kernel, Running, Ended
    <3>2. \A i \in Slot : jobs'[i].pid = jobs[i].pid
      BY <2>1, <2>6 DEF SetState, setstate, Job
    <3> QED BY <3>1, <3>2, NobodyOrphaned
  <2>7. CASE WaitDead \/ WaitStopped \/ WaitNone \/ BlockMask \/ UnblockMask
    <3>1. UNCHANGED <<jobs, pc, pid>>
      BY <2>7 DEF WaitDead, WaitStopped, WaitNone, BlockMask, UnblockMask, list, main
    <3>2. \A p \in PID : proc[p] = "free" => proc'[p] = "free"
      BY <2>1, <2>7 DEF WaitDead, WaitStopped, WaitNone, BlockMask, UnblockMask, kernel
    <3> QED BY <3>1, <3>2, NobodyOrphaned DEF Running
  <2>8. CASE SigQuit \/ \E sig \in Signals \ {"QUIT"} : Deliver(sig)
    <3>1. Running /\ jobs' = jobs /\ proc' = proc /\ pid' = pid /\ (pc' = pc \/ pc' = "exited")
      BY <2>8 DEF SigQuit, Deliver, list, main, kernel
    <3> QED BY <3>1, NobodyOrphaned DEF Running, Ended
  <2>9. CASE Forwarder
    <3>1. jobs' = jobs /\ proc' = proc /\ pid' = pid /\ (pc' = pc \/ pc' = "died")
      BY <2>9, ForwarderOutcomes DEF list, kernel
    <3> QED BY <3>1, NobodyOrphaned DEF Running, Ended
  <2>10. CASE Environment
    <3>1. UNCHANGED <<jobs, pc, pid>>
      BY <2>10 DEF Environment, Keyboard, SetPgid, ChildDies, ChildStops, ChildContinues,
                   list, main
    <3>2. \A p \in PID : proc[p] = "free" => proc'[p] = "free"
      BY <2>1, <2>10 DEF Environment, Keyboard, SetPgid, ChildDies, ChildStops,
                         ChildContinues, Continue, kernel
    <3> QED BY <3>1, <3>2, NobodyOrphaned DEF Running
  <2>11. CASE UNCHANGED vars
    BY <2>11, NobodyOrphaned DEF vars, list, main, kernel, Running
  <2> QED
    BY <2>2, <2>3, <2>4, <2>5, <2>6, <2>7, <2>8, <2>9, <2>10, <2>11
       DEF Next, MainStep, sigchld_handler
<1> QED
  BY <1>1, <1>2, TypeInvariance, ListInvariance, ReportsStayTrue, PTL DEF Spec

-----------------------------------------------------------------------------
(***************************************************************************)
(* Only sigchld_handler marks a job ST, and the report of waitpid on which *)
(* it does so is true at that moment, unless somebody else than the shell  *)
(* continues its children.                                                 *)
(***************************************************************************)
THEOREM StopsAreRecordedInTime == Spec => StopsRecordedWhileStopped
<1>1. TypeInv /\ ReportsTrue /\ [Next]_vars =>
        [~ ForeignSIGCONT =>
           \A i \in Slot : jobs[i].state # "ST" /\ jobs'[i].state = "ST" =>
             proc[jobs[i].pid] # "running"]_vars
  <2> SUFFICES ASSUME TypeInv, ReportsTrue, Next, ~ ForeignSIGCONT,
                      NEW i \in Slot, jobs[i].state # "ST", jobs'[i].state = "ST"
               PROVE  proc[jobs[i].pid] # "running"
    OBVIOUS
  <2>1. jobs \in [Slot -> Job] /\ nextjid \in Nat \ {0}
    BY DEF TypeInv, TypeOK
  <2>2. StartState(bg) \in JobState /\ StartState(bg) # "ST"
    BY DEF StartState, JobState
  <2>3. CASE AddJob
    <3> DEFINE s == StartState(bg)
    <3>1. jobs' = addjob(jobs, nextjid, pid, s).jobs /\ s \in JobState /\ s # "ST"
      BY <2>2, <2>3 DEF AddJob
    <3> HIDE DEF s
    <3>2. \/ jobs' = jobs
          \/ \E k \in Slot :
               jobs' = [jobs EXCEPT ![k] = [pid |-> pid, jid |-> nextjid, state |-> s]]
      BY <2>1, <3>1, AddjobFillsASlot
    <3>3. jobs'[i] = jobs[i] \/ jobs'[i].state = s
      BY <2>1, <3>2
    <3>4. jobs'[i].state # "ST"
      BY <3>1, <3>3
    <3> QED BY <3>4
  <2>4. CASE SetState
    <3>1. jobs'[i].state # "ST"
      BY <2>1, <2>2, <2>4 DEF SetState, setstate, Job
    <3> QED BY <3>1
  <2>5. CASE UpdateList
    <3>1. Len(frames) \in DOMAIN frames /\ Top.pc = "update"
      BY <2>5, HandlerOnTop DEF TypeInv, UpdateList
    <3>2. jobs[i].pid = Top.pid /\ Top.status = "stopped"
      BY <2>1, <2>5, UpdateListOutcomes DEF setstate, EmptyJob, Job
    <3> QED BY <3>1, <3>2 DEF ReportsTrue, Reporting, ReportTrue, Top
  <2>6. CASE \/ Command \/ Fork \/ Unblock \/ LoadPid \/ KillCont \/ LoadWait \/ WaitFg
    BY <2>6 DEF Command, Quit, Run, FindJob, Fork, Unblock, LoadPid, KillCont, LoadWait,
                WaitFg, list
  <2>7. CASE \/ \E sig \in Signals \ {"QUIT"} : Deliver(sig)
             \/ SigQuit \/ WaitDead \/ WaitStopped \/ WaitNone \/ BlockMask \/ UnblockMask
             \/ Forwarder \/ Environment
    BY <2>7, ListUntouched
  <2> QED BY <2>3, <2>4, <2>5, <2>6, <2>7 DEF Next, MainStep, sigchld_handler
<1> QED BY <1>1, TypeInvariance, ReportsStayTrue, PTL DEF Spec, StopsRecordedWhileStopped
=============================================================================
