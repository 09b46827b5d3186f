---------------------------- MODULE JobListProofs ----------------------------
(***************************************************************************)
(* What the helpers of the job list return and preserve, for a list of any *)
(* length.  Loops over the list are written with Min and Max, which choose *)
(* an element; that there is one to choose is proved here from the fact    *)
(* that the natural numbers are well-founded.                              *)
(***************************************************************************)
EXTENDS JobList, WellFoundedInduction, TLAPS

(* A nonempty set of naturals has a least element, and Min returns it. *)
LEMMA MinOfNats ==
  ASSUME NEW S \in SUBSET Nat, S # {}
  PROVE  Min(S) \in S /\ \A y \in S : Min(S) <= y
<1> DEFINE R == OpToRel(<, Nat)
<1>1. IsWellFoundedOn(R, Nat)
  BY NatLessThanWellFounded
<1>2. PICK x \in S : \A y \in S : ~ (<<y, x>> \in R)
  <2> HIDE DEF R
  <2> QED BY <1>1, WFMin
<1>3. \A y \in S : x <= y
  <2>1. \A y \in S : y < x => <<y, x>> \in R
    BY DEF OpToRel
  <2>2. \A y \in S : ~ (y < x)
    <3> HIDE DEF R
    <3> QED BY <1>2, <2>1, Zenon
  <2>3. \A y \in S : y \in Nat
    OBVIOUS
  <2> QED BY <2>2, <2>3
<1> QED BY <1>3 DEF Min

(* A nonempty bounded set of naturals has a greatest element: Max. *)
LEMMA MaxOfBoundedNats ==
  ASSUME NEW S \in SUBSET Nat, S # {}, NEW b \in Nat, \A s \in S : s <= b
  PROVE  Max(S) \in S /\ \A y \in S : y <= Max(S)
<1> DEFINE T == {n \in Nat : \A s \in S : s <= n}
           m == Min(T)
<1>1. m \in T /\ \A n \in T : m <= n
  <2>1. T \in SUBSET Nat /\ T # {}
    OBVIOUS
  <2> HIDE DEF T
  <2> QED BY <2>1, MinOfNats
<1> HIDE DEF m
<1>2. m \in S
  <2> SUFFICES ASSUME m \notin S PROVE FALSE
    OBVIOUS
  <2>1. \A s \in S : s <= m - 1
    BY <1>1
  <2>2. m - 1 \in Nat
    <3>1. PICK s \in S : s <= m - 1
      BY <2>1
    <3> QED BY <3>1, <1>1
  <2>3. m - 1 \in T
    BY <2>1, <2>2
  <2> QED BY <1>1, <2>3, <2>2
<1> QED BY <1>1, <1>2 DEF Max

(* The job IDs in a list have a bound, whatever its length. *)
LEMMA JidsBounded ==
  ASSUME NEW jobs \in [Slot -> Job]
  PROVE  \E b \in Nat : \A i \in Slot : jobs[i].jid <= b
<1> DEFINE Good(n) == \E b \in Nat : \A i \in Slot : i < n => jobs[i].jid <= b
           Bad == {n \in Nat : ~ Good(n)}
<1>1. Bad = {}
  <2> SUFFICES ASSUME Bad # {} PROVE FALSE
    OBVIOUS
  <2>1. PICK n \in Bad : \A k \in Bad : n <= k
    <3>1. Bad \in SUBSET Nat
      OBVIOUS
    <3> HIDE DEF Bad
    <3> QED BY <3>1, MinOfNats
  <2>2. n \in Nat /\ ~ Good(n)
    BY <2>1
  <2>3. Good(0)
    <3>1. \A i \in Slot : ~ (i < 0)
      BY MAXJOBSAssumption DEF Slot
    <3> QED BY <3>1
  <2>4. n - 1 \in Nat
    BY <2>2, <2>3
  <2>5. PICK b \in Nat : \A i \in Slot : i < n - 1 => jobs[i].jid <= b
    <3>1. n - 1 \notin Bad
      BY <2>1, <2>2, <2>4
    <3> QED BY <3>1, <2>4
  <2>6. PICK c \in Nat : b <= c /\ (n - 1 \in Slot => jobs[n - 1].jid <= c)
    <3>1. CASE n - 1 \in Slot
      <4>1. jobs[n - 1].jid \in Nat
        BY <3>1 DEF Job
      <4> DEFINE j == jobs[n - 1].jid
      <4> HIDE DEF j
      <4>2. b <= b + j /\ j <= b + j /\ b + j \in Nat
        BY <4>1 DEF j
      <4> QED BY <4>2 DEF j
    <3>2. CASE n - 1 \notin Slot
      BY <3>2
    <3> QED BY <3>1, <3>2
  <2>7. \A i \in Slot : i < n => jobs[i].jid <= c
    <3> SUFFICES ASSUME NEW i \in Slot, i < n PROVE jobs[i].jid <= c
      OBVIOUS
    <3>1. jobs[i].jid \in Nat /\ i \in Int
      BY MAXJOBSAssumption DEF Job, Slot
    <3>2. CASE i = n - 1
      BY <2>6, <3>2
    <3>3. CASE i < n - 1
      BY <2>5, <2>6, <3>1, <3>3
    <3> QED BY <3>1, <3>2, <3>3, <2>2
  <2>8. Good(n)
    BY <2>7
  <2> QED BY <2>2, <2>8
<1>2. Good(MAXJOBS)
  BY <1>1, MAXJOBSAssumption
<1>3. \A i \in Slot : i < MAXJOBS
  BY MAXJOBSAssumption DEF Slot
<1> QED BY <1>2, <1>3

-----------------------------------------------------------------------------
(* maxjid returns a natural number that bounds the job IDs in the list. *)
LEMMA MaxjidBounds ==
  ASSUME NEW jobs \in [Slot -> Job]
  PROVE  maxjid(jobs) \in Nat /\ \A i \in Slot : jobs[i].jid <= maxjid(jobs)
<1> DEFINE S == {0} \cup {jobs[i].jid : i \in Slot}
<1>1. S \in SUBSET Nat /\ S # {}
  BY DEF Job
<1>2. PICK b \in Nat : \A s \in S : s <= b
  <2>1. PICK b \in Nat : \A i \in Slot : jobs[i].jid <= b
    BY JidsBounded
  <2> QED BY <2>1
<1>3. Max(S) \in S /\ \A y \in S : y <= Max(S)
  <2> HIDE DEF S
  <2> QED BY <1>1, <1>2, MaxOfBoundedNats
<1> QED BY <1>1, <1>3 DEF maxjid

(* A search returns NULL when no slot matches, and the first match otherwise. *)
LEMMA FirstSlotFinds ==
  ASSUME NEW S \in SUBSET Slot
  PROVE  /\ FirstSlot(S) = NULL <=> S = {}
         /\ S # {} => FirstSlot(S) \in S /\ \A i \in S : FirstSlot(S) <= i
<1>1. S \in SUBSET Nat
  BY MAXJOBSAssumption DEF Slot
<1>2. CASE S = {}
  BY <1>2 DEF FirstSlot
<1>3. CASE S # {}
  <2>1. Min(S) \in S /\ \A y \in S : Min(S) <= y
    BY <1>1, <1>3, MinOfNats
  <2>2. Min(S) \in Nat
    BY <1>1, <2>1
  <2>3. FirstSlot(S) = Min(S)
    BY <1>3 DEF FirstSlot
  <2>4. FirstSlot(S) # NULL
    BY <2>2, <2>3 DEF NULL
  <2> QED BY <1>3, <2>1, <2>3, <2>4
<1> QED BY <1>2, <1>3

(* getjobpid returns a slot that lists pid, and NULL exactly when none does. *)
LEMMA GetjobpidFinds ==
  ASSUME NEW jobs \in [Slot -> Job], NEW pid
  PROVE  /\ getjobpid(jobs, pid) = NULL
              <=> pid \notin PID \/ \A i \in Slot : jobs[i].pid # pid
         /\ getjobpid(jobs, pid) # NULL =>
              /\ getjobpid(jobs, pid) \in Slot
              /\ jobs[getjobpid(jobs, pid)].pid = pid
BY FirstSlotFinds, FirstSlotFinds DEF getjobpid

(* getjobjid returns a slot, or NULL. *)
LEMMA GetjobjidFinds ==
  ASSUME NEW jobs \in [Slot -> Job], NEW jid
  PROVE  getjobjid(jobs, jid) \in Slot \cup {NULL}
BY FirstSlotFinds DEF getjobjid

(* fgpid is the PID of a foreground job when there is one, and 0 otherwise. *)
LEMMA FgpidFinds ==
  ASSUME NEW jobs \in [Slot -> Job]
  PROVE  /\ fgpid(jobs) \in PID \cup {0}
         /\ (\E i \in Slot : jobs[i].state = "FG") =>
              \E i \in Slot : jobs[i].state = "FG" /\ fgpid(jobs) = jobs[i].pid
         /\ fgpid(jobs) # 0 =>
              \E i \in Slot : jobs[i].state = "FG" /\ fgpid(jobs) = jobs[i].pid
<1> DEFINE S == {k \in Slot : jobs[k].state = "FG"}
<1>1. /\ FirstSlot(S) = NULL <=> S = {}
      /\ S # {} => FirstSlot(S) \in S
  BY FirstSlotFinds
<1>2. fgpid(jobs) = IF FirstSlot(S) = NULL THEN 0 ELSE jobs[FirstSlot(S)].pid
  BY DEF fgpid
<1>3. CASE S = {}
  BY <1>1, <1>2, <1>3
<1>4. CASE S # {}
  <2>1. FirstSlot(S) \in Slot /\ jobs[FirstSlot(S)].state = "FG"
    BY <1>1, <1>4
  <2>2. jobs[FirstSlot(S)].pid \in PID \cup {0}
    BY <2>1 DEF Job
  <2> QED BY <1>1, <1>2, <1>4, <2>1, <2>2
<1> QED BY <1>3, <1>4

(* addjob fills one free slot with the new job, or changes nothing. *)
LEMMA AddjobFillsASlot ==
  ASSUME NEW jobs \in [Slot -> Job], NEW nextjid \in Nat \ {0}, NEW pid,
         NEW state \in JobState
  PROVE  LET r == addjob(jobs, nextjid, pid, state)
         IN  /\ r.jobs \in [Slot -> Job] /\ r.nextjid \in Nat \ {0}
             /\ \/ /\ r.jobs = jobs
                   /\ pid \notin PID \/ \A i \in Slot : jobs[i].pid # 0
                \/ \E i \in Slot :
                     /\ pid \in PID /\ jobs[i].pid = 0
                     /\ r.jobs = [jobs EXCEPT ![i] =
                                    [pid |-> pid, jid |-> nextjid, state |-> state]]
<1> DEFINE S == {k \in Slot : jobs[k].pid = 0}
           i == FirstSlot(S)
           r == addjob(jobs, nextjid, pid, state)
           job == [pid |-> pid, jid |-> nextjid, state |-> state]
<1>1. (i = NULL <=> S = {}) /\ (S # {} => i \in S)
  BY FirstSlotFinds
<1>2. AfterJid(nextjid) \in Nat \ {0}
  BY MAXJOBSAssumption DEF AfterJid
<1>3. r = IF pid \notin PID \/ i = NULL
          THEN [jobs |-> jobs, nextjid |-> nextjid]
          ELSE [jobs |-> [jobs EXCEPT ![i] = job], nextjid |-> AfterJid(nextjid)]
  BY DEF addjob
<1> HIDE DEF i, r
<1>4. CASE pid \notin PID \/ i = NULL
  BY <1>1, <1>3, <1>4 DEF r
<1>5. CASE pid \in PID /\ i # NULL
  <2>1. i \in Slot /\ jobs[i].pid = 0
    BY <1>1, <1>5
  <2>2. r.jobs = [jobs EXCEPT ![i] = job] /\ r.nextjid = AfterJid(nextjid)
    BY <1>3, <1>5
  <2>3. job \in Job
    BY <1>5 DEF Job
  <2>4. r.jobs \in [Slot -> Job]
    BY <2>1, <2>2, <2>3
  <2> QED BY <1>2, <1>5, <2>1, <2>2, <2>4 DEF r
<1> QED BY <1>4, <1>5

(* deletejob clears one slot that lists pid, or changes nothing. *)
LEMMA DeletejobClearsASlot ==
  ASSUME NEW jobs \in [Slot -> Job], NEW nextjid \in Nat \ {0}, NEW pid
  PROVE  LET r == deletejob(jobs, nextjid, pid)
         IN  /\ r.jobs \in [Slot -> Job] /\ r.nextjid \in Nat \ {0}
             /\ \/ /\ r.jobs = jobs
                   /\ pid \notin PID \/ \A i \in Slot : jobs[i].pid # pid
                \/ \E i \in Slot :
                     /\ pid \in PID /\ jobs[i].pid = pid
                     /\ r.jobs = [jobs EXCEPT ![i] = EmptyJob]
<1> DEFINE i == getjobpid(jobs, pid)
           cleared == [jobs EXCEPT ![i] = clearjob(jobs[i])]
           r == deletejob(jobs, nextjid, pid)
<1>1. /\ i = NULL <=> pid \notin PID \/ \A k \in Slot : jobs[k].pid # pid
      /\ i # NULL => i \in Slot /\ jobs[i].pid = pid
  BY GetjobpidFinds
<1>2. r = IF i = NULL
          THEN [jobs |-> jobs, nextjid |-> nextjid]
          ELSE [jobs |-> cleared, nextjid |-> maxjid(cleared) + 1]
  BY DEF deletejob
<1> HIDE DEF i, r
<1>3. CASE i = NULL
  BY <1>1, <1>2, <1>3 DEF r
<1>4. CASE i # NULL
  <2>1. i \in Slot /\ jobs[i].pid = pid /\ pid \in PID
    BY <1>1, <1>4
  <2>2. clearjob(jobs[i]) = EmptyJob
    BY DEF clearjob
  <2>3. EmptyJob \in Job
    BY DEF EmptyJob, Job, JobState
  <2>4. cleared \in [Slot -> Job] /\ cleared = [jobs EXCEPT ![i] = EmptyJob]
    BY <2>1, <2>2, <2>3
  <2> HIDE DEF cleared
  <2>5. maxjid(cleared) + 1 \in Nat \ {0}
    <3>1. maxjid(cleared) \in Nat
      BY <2>4, MaxjidBounds
    <3> QED BY <3>1
  <2>6. r.jobs = cleared /\ r.nextjid = maxjid(cleared) + 1
    BY <1>2, <1>4
  <2>7. /\ r.jobs \in [Slot -> Job] /\ r.nextjid \in Nat \ {0}
        /\ r.jobs = [jobs EXCEPT ![i] = EmptyJob]
    BY <2>4, <2>5, <2>6
  <2> QED BY <2>1, <2>7 DEF r
<1> QED BY <1>3, <1>4
=============================================================================
