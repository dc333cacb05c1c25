------------------------ MODULE ThreadExecutor_proofs ------------------------
(***************************************************************************)
(* Proofs about ThreadExecutor for every number of tasks and callers: the  *)
(* spin lock has one holder, a thread finds itself in threads_, and nobody *)
(* is inside the executor when its destructor returns.                     *)
(***************************************************************************)
EXTENDS ThreadExecutor, TLAPS

(* A thread exists from the moment execute() has made it, and cannot take  *)
(* the lock before execute() has given it back.                            *)
Started ==
    \A t \in Tasks : /\ thread[t] = "none" <=> submit[t] \notin {"started", "done"}
                     /\ thread[t] = "detaching" => submit[t] = "done"

(* threads_ holds the threads that were entered and have not left, and     *)
(* some that leave themselves to be joined.                                *)
Entered ==
    /\ \A t \in threads : submit[t] = "done"
    /\ \A t \in Tasks : submit[t] = "done" /\ thread[t] \in {"running", "ran", "detaching"} => t \in threads

(* Who is inside execute() is alive: a task that runs, or a caller that    *)
(* still holds the executor.                                               *)
Inside ==
    \A t \in Tasks :
        IsInside(t) => \/ submitter[t] \in Tasks /\ thread[submitter[t]] = "running"
                       \/ submitter[t] \in Callers /\ destructor = "no"

(* The destructor closes the lock for good.                                *)
Closed ==
    /\ state = "Shutdown" <=> destructor \in {"joining", "returned"}
    /\ destructor = "returned" => threads = {}

Inv == /\ TypeOK
       /\ LockIsHeldByOne
       /\ Started
       /\ Entered
       /\ Inside
       /\ Closed

USE DEF States, SubmitPcs, ThreadPcs, DestructorPcs

LEMMA Initially == Init => Inv
BY NoSubmitterAssumption
   DEF Init, Inv, TypeOK, LockIsHeldByOne, Holds, Started, Entered, Inside, IsInside, Closed

(* One lemma for every step that is more than a move of one thread.        *)
LEMMA ExecuteKeepsInv ==
    ASSUME Inv, NEW t \in Tasks, NEW s \in Callers \cup Tasks, Execute(t, s)
    PROVE  Inv'
<1> USE DEF Execute, Inv, TypeOK
<1>1. TypeOK' BY DEF TypeOK
<1>2. LockIsHeldByOne' BY DEF LockIsHeldByOne, Holds
<1>3. Started' /\ Entered' BY DEF Started, Entered
<1>4. Inside' BY CallersAssumption DEF Inside, IsInside
<1>5. Closed' BY DEF Closed
<1> QED BY <1>1, <1>2, <1>3, <1>4, <1>5 DEF Inv

LEMMA ExecuteLocksKeepsInv ==
    ASSUME Inv, NEW t \in Tasks, ExecuteLocks(t)
    PROVE  Inv'
<1> USE DEF ExecuteLocks, Inv, TypeOK
<1>1. TypeOK' BY DEF TypeOK
<1>2. LockIsHeldByOne' BY DEF LockIsHeldByOne, Holds
<1>3. Started' /\ Entered' BY DEF Started, Entered
<1>4. Inside' BY DEF Inside, IsInside
<1>5. Closed' BY DEF Closed
<1> QED BY <1>1, <1>2, <1>3, <1>4, <1>5 DEF Inv

LEMMA ExecuteLeavesKeepsInv ==
    ASSUME Inv, NEW t \in Tasks, ExecuteDrops(t) \/ StartFails(t)
    PROVE  Inv'
<1> USE DEF ExecuteDrops, StartFails, Inv, TypeOK
<1>1. TypeOK' BY DEF TypeOK
<1>2. LockIsHeldByOne' BY DEF LockIsHeldByOne, Holds
<1>3. Started' /\ Entered' BY DEF Started, Entered
<1>4. Inside' BY DEF Inside, IsInside
<1>5. Closed' BY DEF Closed
<1> QED BY <1>1, <1>2, <1>3, <1>4, <1>5 DEF Inv

LEMMA StartThreadKeepsInv ==
    ASSUME Inv, NEW t \in Tasks, StartThread(t)
    PROVE  Inv'
<1> USE DEF StartThread, Inv, TypeOK
<1>1. TypeOK' BY DEF TypeOK
<1>2. LockIsHeldByOne' BY DEF LockIsHeldByOne, Holds, Started
<1>3. Started' /\ Entered' BY DEF Started, Entered
<1>4. Inside' BY DEF Inside, IsInside
<1>5. Closed' BY DEF Closed
<1> QED BY <1>1, <1>2, <1>3, <1>4, <1>5 DEF Inv

LEMMA EmplaceKeepsInv ==
    ASSUME Inv, NEW t \in Tasks, Emplace(t)
    PROVE  Inv'
<1> USE DEF Emplace, Inv, TypeOK
<1>1. state = "Locked" /\ Holds(t)
  BY DEF LockIsHeldByOne, Holds
<1>2. TypeOK' BY DEF TypeOK
<1>3. LockIsHeldByOne'
  <2>1. \A u \in Tasks : ~Holds(u)'
    BY DEF LockIsHeldByOne, Holds, Started
  <2> QED BY <2>1 DEF LockIsHeldByOne
<1>4. Started' /\ Entered' BY DEF Started, Entered
<1>5. Inside' BY DEF Inside, IsInside
<1>6. Closed' BY <1>1 DEF Closed
<1> QED BY <1>2, <1>3, <1>4, <1>5, <1>6 DEF Inv

LEMMA RunKeepsInv ==
    ASSUME Inv, NEW t \in Tasks, Run(t)
    PROVE  Inv'
<1> USE DEF Run, Inv, TypeOK
<1>1. TypeOK' BY DEF TypeOK
<1>2. LockIsHeldByOne' BY DEF LockIsHeldByOne, Holds
<1>3. Started' /\ Entered' BY DEF Started, Entered
<1>4. Inside' BY DEF Inside, IsInside, IsBusy
<1>5. Closed' BY DEF Closed
<1> QED BY <1>1, <1>2, <1>3, <1>4, <1>5 DEF Inv

LEMMA DetachLocksKeepsInv ==
    ASSUME Inv, NEW t \in Tasks, DetachLocks(t)
    PROVE  Inv'
<1> USE DEF DetachLocks, Inv, TypeOK
<1>1. submit[t] = "done"
  BY DEF LockIsHeldByOne, Holds, Started
<1>2. TypeOK' BY DEF TypeOK
<1>3. LockIsHeldByOne' BY DEF LockIsHeldByOne, Holds
<1>4. Started' /\ Entered' BY <1>1 DEF Started, Entered
<1>5. Inside' BY DEF Inside, IsInside
<1>6. Closed' BY DEF Closed
<1> QED BY <1>2, <1>3, <1>4, <1>5, <1>6 DEF Inv

LEMMA DetachKeepsInv ==
    ASSUME Inv, NEW t \in Tasks, Detach(t)
    PROVE  Inv'
<1> USE DEF Detach, Inv, TypeOK
<1>1. state = "Locked" /\ submit[t] = "done"
  BY DEF LockIsHeldByOne, Holds, Started
<1>2. TypeOK' BY DEF TypeOK
<1>3. LockIsHeldByOne'
  <2>1. \A u \in Tasks : ~Holds(u)'
    BY <1>1 DEF LockIsHeldByOne, Holds
  <2> QED BY <2>1 DEF LockIsHeldByOne
<1>4. Started' /\ Entered' BY <1>1 DEF Started, Entered
<1>5. Inside' BY DEF Inside, IsInside
<1>6. Closed' BY <1>1 DEF Closed
<1> QED BY <1>2, <1>3, <1>4, <1>5, <1>6 DEF Inv

LEMMA DetachGivesUpKeepsInv ==
    ASSUME Inv, NEW t \in Tasks, DetachGivesUp(t)
    PROVE  Inv'
<1> USE DEF DetachGivesUp, Inv, TypeOK
<1>1. TypeOK' BY DEF TypeOK
<1>2. LockIsHeldByOne' BY DEF LockIsHeldByOne, Holds
<1>3. Started' /\ Entered' BY DEF Started, Entered
<1>4. Inside' BY DEF Inside, IsInside
<1>5. Closed' BY DEF Closed
<1> QED BY <1>1, <1>2, <1>3, <1>4, <1>5 DEF Inv

LEMMA JoinKeepsInv ==
    ASSUME Inv, NEW t \in Tasks, Join(t)
    PROVE  Inv'
<1> USE DEF Join, Inv, TypeOK
<1>1. TypeOK' /\ Closed' BY DEF TypeOK, Closed
<1>2. LockIsHeldByOne' BY DEF LockIsHeldByOne, Holds
<1>3. Started' /\ Entered' BY DEF Started, Entered
<1>4. Inside' BY DEF Inside, IsInside
<1> QED BY <1>1, <1>2, <1>3, <1>4 DEF Inv

LEMMA DestructorKeepsInv ==
    ASSUME Inv, Destroy \/ DestructorLocks \/ DestructorReturns
    PROVE  Inv'
<1> USE DEF Destroy, DestructorLocks, DestructorReturns, Inv, TypeOK
<1>1. TypeOK' /\ Closed' BY DEF TypeOK, Closed
<1>2. LockIsHeldByOne' BY DEF LockIsHeldByOne, Holds
<1>3. Started' /\ Entered' BY DEF Started, Entered
<1>4. Inside'
  <2>1. CASE Destroy
    BY <2>1 DEF Inside, IsInside, IsBusy
  <2>2. CASE DestructorLocks \/ DestructorReturns
    BY <2>2 DEF Inside, IsInside
  <2> QED BY <2>1, <2>2
<1> QED BY <1>1, <1>2, <1>3, <1>4 DEF Inv

LEMMA NextKeepsInv == Inv /\ [Next]_vars => Inv'
<1> SUFFICES ASSUME Inv, [Next]_vars PROVE Inv'
  OBVIOUS
<1>1. ASSUME NEW t \in Tasks, Progress(t) PROVE Inv'
  BY <1>1, ExecuteLocksKeepsInv, ExecuteLeavesKeepsInv, StartThreadKeepsInv, EmplaceKeepsInv, RunKeepsInv,
     DetachLocksKeepsInv, DetachKeepsInv, DetachGivesUpKeepsInv, JoinKeepsInv
     DEF Progress
<1>2. ASSUME NEW t \in Tasks, StartFails(t) PROVE Inv'
  BY <1>2, ExecuteLeavesKeepsInv
<1>3. ASSUME NEW t \in Tasks, NEW s \in Callers \cup Tasks, Execute(t, s) PROVE Inv'
  BY <1>3, ExecuteKeepsInv
<1>4. CASE Destroy \/ DestructorLocks \/ DestructorReturns
  BY <1>4, DestructorKeepsInv
<1>5. CASE UNCHANGED vars
  BY <1>5 DEF vars, Inv, TypeOK, LockIsHeldByOne, Holds, Started, Entered, Inside, IsInside, Closed
<1> QED BY <1>1, <1>2, <1>3, <1>4, <1>5 DEF Next

LEMMA AlwaysInv == Spec => []Inv
BY Initially, NextKeepsInv, PTL DEF Spec

-----------------------------------------------------------------------------
\* The variables of the executor keep their types (ThreadExecutor.cc).
THEOREM ExecutorTypes == Spec => []TypeOK
<1>1. Inv => TypeOK BY DEF Inv
<1> QED BY <1>1, AlwaysInv, PTL

\* The spin lock has one holder, and threads_ is never changed by two at once (execute, detach and the destructor).
THEOREM ExecutorLock == Spec => []LockIsHeldByOne
<1>1. Inv => LockIsHeldByOne BY DEF Inv
<1> QED BY <1>1, AlwaysInv, PTL

\* The assertion in detach() holds, however soon the task of a thread ends.
THEOREM ExecutorFindsThread == Spec => []ThreadIsFound
<1>1. Inv => ThreadIsFound BY DEF Inv, ThreadIsFound, Started, Entered
<1> QED BY <1>1, AlwaysInv, PTL

\* When ~ThreadExecutor() returns every accepted task has run, and no thread is in execute() or detach().
THEOREM ExecutorIsQuiet == Spec => []NobodyIsInside
<1>1. Inv => NobodyIsInside
  <2> SUFFICES ASSUME Inv, destructor = "returned", NEW t \in Tasks
               PROVE  /\ ~IsInside(t)
                      /\ thread[t] \in {"none", "exited"}
                      /\ submit[t] = "done" => thread[t] = "exited"
    BY DEF NobodyIsInside
  <2>1. state = "Shutdown" /\ threads = {}
    BY DEF Inv, Closed
  <2>2. \A u \in Tasks : ~Holds(u)
    BY <2>1 DEF Inv, LockIsHeldByOne
  <2>3. \A u \in Tasks : thread[u] \in {"none", "exited"}
    BY <2>1, <2>2 DEF Inv, TypeOK, Entered, Started, Holds
  <2>4. ~IsInside(t)
    BY <2>3 DEF Inv, Inside
  <2>5. submit[t] = "done" => thread[t] # "none"
    BY DEF Inv, Started
  <2> QED BY <2>3, <2>4, <2>5
<1> QED BY <1>1, AlwaysInv, PTL
=============================================================================
