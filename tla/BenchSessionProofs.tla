------------------------- MODULE BenchSessionProofs -------------------------
(***************************************************************************)
(* Proofs about BenchSession, for any set of calls of bench_start.         *)
(*                                                                         *)
(* NoStaleTask is inductive with one more fact: a run whose bench_start    *)
(* has not returned has neither a task nor an abort.  PatientIsExclusive   *)
(* needs what the patience of the user means for the calls (OneCall) and   *)
(* what the first lock leaves for the second (AdmittedAlone).              *)
(***************************************************************************)
EXTENDS BenchSession, TLAPS

\* A task exists only after bench_start has returned.
SpawnedLast == \A r \in Run : call[r] # "returned" => work[r] = "none" /\ r \notin cancelled

TaskInv == TypeOK /\ NoStaleTask /\ SpawnedLast

\* A patient user has one call of bench_start under way.
OneCall ==
  hurried = {} => \A r, q \in Run : call[r] \in {"called", "admitted"}
                            /\ call[q] \in {"called", "admitted"} => r = q

\* What bench_start finds at its second lock is what it left at its first.
AdmittedAlone ==
  hurried = {} /\ cancelled = {} =>
    \A r \in Run : call[r] = "admitted" => eventsTx = r /\ benchTask = NoRun

AloneInv == TaskInv /\ OneCall /\ AdmittedAlone /\ PatientIsExclusive

-----------------------------------------------------------------------------

\* The initial state satisfies both invariants.
LEMMA InitAlone == Init => AloneInv
BY RunAssumption DEF Init, AloneInv, TaskInv, TypeOK, NoStaleTask, SpawnedLast, OneCall,
   AdmittedAlone, PatientIsExclusive, AtWork

\* Every step of a call keeps the task invariant.
LEMMA CallKeepsTask ==
  ASSUME TaskInv, NEW r \in Run, Presses(r) \/ CallStep(r)
  PROVE  TaskInv'
<1> USE RunAssumption DEF TaskInv, TypeOK, NoStaleTask, SpawnedLast, AtWork,
        stateVars, taskVars, screenVars
<1>1. CASE Presses(r)
  BY <1>1 DEF Presses, Hurries
<1>2. CASE RefusesBusy(r)
  BY <1>2 DEF RefusesBusy, Refused
<1>3. CASE RefusesInput(r)
  BY <1>3 DEF RefusesInput, Refused
<1>4. CASE Admits(r)
  BY <1>4 DEF Admits
<1>5. CASE Spawns(r)
  BY <1>5 DEF Spawns
<1>6. CASE Subscribes(r)
  BY <1>6 DEF Subscribes
<1> QED
  BY <1>1, <1>2, <1>3, <1>4, <1>5, <1>6 DEF CallStep

\* Every step of a task keeps the task invariant.
LEMMA TaskKeepsTask ==
  ASSUME TaskInv, NEW r \in Run, TaskStep(r)
  PROVE  TaskInv'
<1> USE RunAssumption DEF TaskInv, TypeOK, NoStaleTask, SpawnedLast, AtWork, Moves,
        stateVars, taskVars, screenVars
<1>1. CASE BeginsCycle(r)
  BY <1>1 DEF BeginsCycle
<1>2. CASE EndsCycle(r)
  BY <1>2 DEF EndsCycle
<1>3. CASE Closes(r)
  BY <1>3 DEF Closes
<1>4. CASE Finishes(r)
  BY <1>4 DEF Finishes
<1>5. CASE SweepGoesOn(r)
  BY <1>5 DEF SweepGoesOn
<1>6. CASE SweepEnds(r)
  BY <1>6 DEF SweepEnds
<1>7. CASE Fails(r)
  BY <1>7 DEF Fails
<1>8. CASE Leave(r)
  BY <1>8 DEF Leave
<1>8a. CASE Strands(r)
  BY <1>8a DEF Strands
<1>9. CASE Dropped(r)
  BY <1>9 DEF Dropped
<1> QED
  BY <1>1, <1>2, <1>3, <1>4, <1>5, <1>6, <1>7, <1>8, <1>8a, <1>9 DEF TaskStep

\* Every step keeps the task invariant.
LEMMA StepKeepsTask == TaskInv /\ [Next]_vars => TaskInv'
<1> SUFFICES ASSUME TaskInv, [Next]_vars
             PROVE  TaskInv'
  OBVIOUS
<1>1. ASSUME NEW r \in Run, Presses(r) \/ CallStep(r) \/ TaskStep(r)
      PROVE  TaskInv'
  BY <1>1, CallKeepsTask, TaskKeepsTask
<1>2. CASE Aborts
  <2>1. benchTask # NoRun => call[benchTask] = "returned"
    BY DEF TaskInv, TypeOK, NoStaleTask, SpawnedLast, AtWork
  <2>2. TypeOK' /\ NoStaleTask'
    BY <1>2 DEF Aborts, Hurries, TaskInv, TypeOK, NoStaleTask, AtWork
  <2>3. SpawnedLast'
    BY <1>2, <2>1, RunAssumption DEF Aborts, Hurries, TaskInv, SpawnedLast
  <2> QED
    BY <2>2, <2>3 DEF TaskInv
<1>3. CASE Hears \/ Reopens \/ UNCHANGED vars
  BY <1>3 DEF Hears, Reopens, Hurries, vars, TaskInv, TypeOK, NoStaleTask, SpawnedLast, AtWork,
     stateVars, taskVars, screenVars
<1> QED
  BY <1>1, <1>2, <1>3 DEF Next

-----------------------------------------------------------------------------

\* The first lock of bench_start: whoever it admits is alone.
LEMMA CallKeepsAlone ==
  ASSUME AloneInv, NEW r \in Run, Presses(r) \/ CallStep(r)
  PROVE  OneCall' /\ AdmittedAlone' /\ PatientIsExclusive'
<1> USE RunAssumption DEF AloneInv, TaskInv, TypeOK, NoStaleTask, SpawnedLast, AtWork, OneCall,
        AdmittedAlone, PatientIsExclusive, stateVars, taskVars, screenVars
<1>1. CASE Presses(r)
  BY <1>1 DEF Presses, Hurries
<1>2. CASE RefusesBusy(r)
  BY <1>2 DEF RefusesBusy, Refused
<1>3. CASE RefusesInput(r)
  BY <1>3 DEF RefusesInput, Refused
<1>4. CASE Admits(r)
  BY <1>4 DEF Admits
<1>5. CASE Spawns(r)
  BY <1>5 DEF Spawns
<1>6. CASE Subscribes(r)
  BY <1>6 DEF Subscribes
<1> QED
  BY <1>1, <1>2, <1>3, <1>4, <1>5, <1>6 DEF CallStep

\* A task at work, and the tail that clears the registration.
LEMMA TaskKeepsAlone ==
  ASSUME AloneInv, NEW r \in Run, TaskStep(r)
  PROVE  OneCall' /\ AdmittedAlone' /\ PatientIsExclusive'
<1> USE RunAssumption DEF AloneInv, TaskInv, TypeOK, NoStaleTask, SpawnedLast, AtWork, OneCall,
        AdmittedAlone, PatientIsExclusive, Moves, stateVars, taskVars, screenVars
<1>1. CASE BeginsCycle(r)
  BY <1>1 DEF BeginsCycle
<1>2. CASE EndsCycle(r)
  BY <1>2 DEF EndsCycle
<1>3. CASE Closes(r)
  BY <1>3 DEF Closes
<1>4. CASE Finishes(r)
  BY <1>4 DEF Finishes
<1>5. CASE SweepGoesOn(r)
  BY <1>5 DEF SweepGoesOn
<1>6. CASE SweepEnds(r)
  BY <1>6 DEF SweepEnds
<1>7. CASE Fails(r)
  BY <1>7 DEF Fails
<1>8. CASE Leave(r)
  BY <1>8 DEF Leave
<1>8a. CASE Strands(r)
  BY <1>8a DEF Strands
<1>9. CASE Dropped(r)
  BY <1>9 DEF Dropped
<1> QED
  BY <1>1, <1>2, <1>3, <1>4, <1>5, <1>6, <1>7, <1>8, <1>8a, <1>9 DEF TaskStep

\* Every step keeps the invariant of the exclusive session.
LEMMA StepKeepsAlone == AloneInv /\ [Next]_vars => AloneInv'
<1> SUFFICES ASSUME AloneInv, [Next]_vars
             PROVE  OneCall' /\ AdmittedAlone' /\ PatientIsExclusive'
  BY StepKeepsTask DEF AloneInv
<1>1. ASSUME NEW r \in Run, Presses(r) \/ CallStep(r) \/ TaskStep(r)
      PROVE  OneCall' /\ AdmittedAlone' /\ PatientIsExclusive'
  BY <1>1, CallKeepsAlone, TaskKeepsAlone
<1>2. CASE Hears \/ Aborts \/ Reopens \/ UNCHANGED vars
  BY <1>2, RunAssumption DEF Hears, Aborts, Reopens, Hurries, vars, AloneInv, TaskInv, TypeOK,
     NoStaleTask, AtWork, OneCall, AdmittedAlone, PatientIsExclusive, stateVars, taskVars,
     screenVars
<1> QED
  BY <1>1, <1>2 DEF Next

-----------------------------------------------------------------------------

\* The variables of a session keep their types.
THEOREM TypeCorrect == Spec => []TypeOK
<1>1. Init => TaskInv
  BY InitAlone DEF AloneInv
<1>2. TaskInv => TypeOK
  BY DEF TaskInv
<1> QED
  BY <1>1, <1>2, StepKeepsTask, PTL DEF Spec

\* bench_task never holds a task that is over or aborted, whoever calls what and
\* when: bench_start is not refused for ever (comment in bench_start, api.rs).
THEOREM TaskNeverStale == Spec => []NoStaleTask
<1>1. Init => TaskInv
  BY InitAlone DEF AloneInv
<1>2. TaskInv => NoStaleTask
  BY DEF TaskInv
<1> QED
  BY <1>1, <1>2, StepKeepsTask, PTL DEF Spec

\* Without an abort, a user who waits for bench_start to return has one session at
\* a time, and it is the one that is registered.
THEOREM OneSessionAtATime == Spec => []PatientIsExclusive
<1>1. AloneInv => PatientIsExclusive
  BY DEF AloneInv
<1> QED
  BY <1>1, InitAlone, StepKeepsAlone, PTL DEF Spec

\* Types and registration together: what the run checks of the registers.
THEOREM RegisterKept == Spec => []RegisterIsKept
BY TypeCorrect, TaskNeverStale, PTL DEF RegisterIsKept
=============================================================================
