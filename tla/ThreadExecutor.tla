--------------------------- MODULE ThreadExecutor ---------------------------
(***************************************************************************)
(* ThreadExecutor: a thread for every task.  execute() starts the thread   *)
(* and enters it in threads_; the thread runs the task, deletes it, takes  *)
(* itself out of threads_ and detaches; the destructor joins the threads   *)
(* that are left.  state_ is a spin lock that the destructor closes for    *)
(* good: a thread that finds it closed leaves itself to be joined, and a   *)
(* task that comes too late is dropped.                                    *)
(*                                                                         *)
(* The executor is held by a shared_ptr, so the destructor runs when none  *)
(* of the callers is inside; tasks may call execute() at any time.  A      *)
(* failed compare_exchange leaves everything as it was and is a stutter.   *)
(***************************************************************************)
EXTENDS Naturals

CONSTANTS
    Tasks,          \* the tasks, each with the thread that is started for it
    Callers,        \* the threads that hold the client
    StartMayFail,   \* std::thread may throw: no more threads
    NoSubmitter     \* the submitter of a task that was not given to execute() yet

ASSUME CallersAssumption == Callers \cap Tasks = {}
ASSUME NoSubmitterAssumption == NoSubmitter \notin Callers \cup Tasks
ASSUME StartAssumption == StartMayFail \in BOOLEAN

VARIABLES
    state,          \* state_
    threads,        \* the keys of threads_
    submitter,      \* who gives the task to execute(), Callers and Tasks alike
    submit,         \* where the call of execute() for the task is
    thread,         \* where the thread of the task is
    destructor      \* where the destructor is

vars == <<state, threads, submitter, submit, thread, destructor>>

States == {"Free", "Locked", "Shutdown"}
SubmitPcs == {"none", "spinning", "locked", "started", "done", "dropped", "failed"}
ThreadPcs == {"none", "running", "ran", "detaching", "exited"}
DestructorPcs == {"no", "spinning", "joining", "returned"}

IsInside(t) == submit[t] \in {"spinning", "locked", "started"}
IsBusy(s) == \E t \in Tasks : submitter[t] = s /\ IsInside(t)

-----------------------------------------------------------------------------
(* execute().                                                              *)

Execute(t, s) ==
    /\ submit[t] = "none" /\ ~IsBusy(s)
    /\ IF s \in Tasks THEN thread[s] = "running" ELSE destructor = "no"
    /\ submit' = [submit EXCEPT ![t] = "spinning"]
    /\ submitter' = [submitter EXCEPT ![t] = s]
    /\ UNCHANGED <<state, threads, thread, destructor>>

ExecuteLocks(t) ==
    /\ submit[t] = "spinning" /\ state = "Free"
    /\ state' = "Locked"
    /\ submit' = [submit EXCEPT ![t] = "locked"]
    /\ UNCHANGED <<threads, submitter, thread, destructor>>

\* The task is neither run nor deleted, and the caller is not told.
ExecuteDrops(t) ==
    /\ submit[t] = "spinning" /\ state = "Shutdown"
    /\ submit' = [submit EXCEPT ![t] = "dropped"]
    /\ UNCHANGED <<state, threads, submitter, thread, destructor>>

\* A plausible bug: the lock is given back before the thread is entered in threads_.
StartThread_Unlocks(t) ==
    /\ submit[t] = "locked"
    /\ submit' = [submit EXCEPT ![t] = "started"]
    /\ thread' = [thread EXCEPT ![t] = "running"]
    /\ state' = "Free"
    /\ UNCHANGED <<threads, submitter, destructor>>

\* The thread runs from here on, before it is in threads_.
StartThread(t) ==
    /\ submit[t] = "locked"
    /\ submit' = [submit EXCEPT ![t] = "started"]
    /\ thread' = [thread EXCEPT ![t] = "running"]
    /\ UNCHANGED <<state, threads, submitter, destructor>>

\* The exception leaves execute() with the lock held, for ever.  (Out of a task it ends the process.)
StartFails(t) ==
    /\ StartMayFail /\ submit[t] = "locked" /\ submitter[t] \in Callers
    /\ submit' = [submit EXCEPT ![t] = "failed"]
    /\ UNCHANGED <<state, threads, submitter, thread, destructor>>

\* A plausible bug: the id of the calling thread is taken for that of the new one.
Emplace_ThisThread(t) ==
    /\ submit[t] = "started"
    /\ threads' = threads \cup {submitter[t]} /\ state' = "Free"
    /\ submit' = [submit EXCEPT ![t] = "done"]
    /\ UNCHANGED <<submitter, thread, destructor>>

Emplace(t) ==
    /\ submit[t] = "started"
    /\ threads' = threads \cup {t} /\ state' = "Free"
    /\ submit' = [submit EXCEPT ![t] = "done"]
    /\ UNCHANGED <<submitter, thread, destructor>>

-----------------------------------------------------------------------------
(* The thread of a task.                                                   *)

\* A plausible bug: a thread that finds the executor closed leaves without running its task.
Run_LooksAtState(t) ==
    /\ thread[t] = "running" /\ ~IsBusy(t)
    /\ thread' = [thread EXCEPT ![t] = IF state = "Shutdown" THEN "exited" ELSE "ran"]
    /\ UNCHANGED <<state, threads, submitter, submit, destructor>>

Run(t) ==
    /\ thread[t] = "running" /\ ~IsBusy(t)
    /\ thread' = [thread EXCEPT ![t] = "ran"]
    /\ UNCHANGED <<state, threads, submitter, submit, destructor>>

\* A plausible bug: state_ is stored to and not compared first.
DetachLocks_Store(t) ==
    /\ thread[t] = "ran" /\ state # "Shutdown"
    /\ state' = "Locked"
    /\ thread' = [thread EXCEPT ![t] = "detaching"]
    /\ UNCHANGED <<threads, submitter, submit, destructor>>

DetachLocks(t) ==
    /\ thread[t] = "ran" /\ state = "Free"
    /\ state' = "Locked"
    /\ thread' = [thread EXCEPT ![t] = "detaching"]
    /\ UNCHANGED <<threads, submitter, submit, destructor>>

\* find(), detach() and erase(); the thread does not touch the executor again.
Detach(t) ==
    /\ thread[t] = "detaching"
    /\ threads' = threads \ {t} /\ state' = "Free"
    /\ thread' = [thread EXCEPT ![t] = "exited"]
    /\ UNCHANGED <<submitter, submit, destructor>>

\* A plausible bug: the loop waits for Free whatever happens.
DetachGivesUp_Never(t) == FALSE /\ thread[t] = "ran" /\ UNCHANGED vars

DetachGivesUp(t) ==
    /\ thread[t] = "ran" /\ state = "Shutdown"
    /\ thread' = [thread EXCEPT ![t] = "exited"]
    /\ UNCHANGED <<state, threads, submitter, submit, destructor>>

-----------------------------------------------------------------------------
(* The destructor.                                                         *)

Destroy ==
    /\ destructor = "no" /\ \A c \in Callers : ~IsBusy(c)
    /\ destructor' = "spinning"
    /\ UNCHANGED <<state, threads, submitter, submit, thread>>

DestructorLocks ==
    /\ destructor = "spinning" /\ state = "Free"
    /\ state' = "Shutdown" /\ destructor' = "joining"
    /\ UNCHANGED <<threads, submitter, submit, thread>>

\* A plausible bug: the destructor detaches the threads that are left.
Join_Detaches(t) ==
    /\ destructor = "joining" /\ t \in threads
    /\ threads' = threads \ {t}
    /\ UNCHANGED <<state, submitter, submit, thread, destructor>>

Join(t) ==
    /\ destructor = "joining" /\ t \in threads /\ thread[t] = "exited"
    /\ threads' = threads \ {t}
    /\ UNCHANGED <<state, submitter, submit, thread, destructor>>

DestructorReturns ==
    /\ destructor = "joining" /\ threads = {}
    /\ destructor' = "returned"
    /\ UNCHANGED <<state, threads, submitter, submit, thread>>

-----------------------------------------------------------------------------
Init ==
    /\ state = "Free" /\ threads = {} /\ destructor = "no"
    /\ submitter = [t \in Tasks |-> NoSubmitter]
    /\ submit = [t \in Tasks |-> "none"]
    /\ thread = [t \in Tasks |-> "none"]

Progress(t) ==
    \/ ExecuteLocks(t) \/ ExecuteDrops(t) \/ StartThread(t) \/ Emplace(t)
    \/ Run(t) \/ DetachLocks(t) \/ Detach(t) \/ DetachGivesUp(t) \/ Join(t)

Next ==
    \/ \E t \in Tasks : Progress(t) \/ StartFails(t) \/ \E s \in Callers \cup Tasks : Execute(t, s)
    \/ Destroy \/ DestructorLocks \/ DestructorReturns

Spec == Init /\ [][Next]_vars

\* Every thread runs on; tasks end, and there are only so many of them.
FairSpec ==
    /\ Spec
    /\ \A t \in Tasks : WF_vars(Progress(t))
    /\ WF_vars(DestructorLocks) /\ WF_vars(DestructorReturns)

-----------------------------------------------------------------------------
(* Correctness.                                                            *)

\* The types of the variables.
TypeOK ==
    /\ state \in States /\ threads \subseteq Tasks
    /\ submitter \in [Tasks -> Callers \cup Tasks \cup {NoSubmitter}]
    /\ submit \in [Tasks -> SubmitPcs] /\ thread \in [Tasks -> ThreadPcs]
    /\ destructor \in DestructorPcs

\* The spin lock has one holder while it is Locked and none otherwise: execute() and detach() never change threads_ at once, nor
\* while the destructor joins.
Holds(t) == submit[t] \in {"locked", "started", "failed"} \/ thread[t] = "detaching"
LockIsHeldByOne ==
    /\ \A t, u \in Tasks : Holds(t) /\ Holds(u) => t = u
    /\ (\E t \in Tasks : Holds(t)) <=> state = "Locked"

\* assert(it != threads_.end()) in detach(): a thread that is done finds itself in threads_, however fast its task was.
ThreadIsFound == \A t \in Tasks : thread[t] = "detaching" => t \in threads

\* When the destructor returns and the memory is freed, nobody is inside: no call of execute() is under way, not even from a
\* task, no thread has yet to look at state_, and every task that was accepted has been run.
NobodyIsInside ==
    destructor = "returned"
        => \A t \in Tasks : /\ ~IsInside(t)
                            /\ thread[t] \in {"none", "exited"}
                            /\ submit[t] = "done" => thread[t] = "exited"

\* The destructor returns, unless a thread could not be started: then the lock is never given back.
DestructionEnds == destructor = "spinning" ~> (destructor = "returned" \/ \E t \in Tasks : submit[t] = "failed")

\* A task that was accepted is run to its end, and the destructor does not call it off; only a task that itself calls execute()
\* can be held up for ever, when a thread could not be started and the lock is lost.
AcceptedTasksAreRun ==
    \A t \in Tasks : (submit[t] = "done" /\ thread[t] = "running")
                        ~> (thread[t] = "ran" \/ \E u, f \in Tasks : submitter[u] = t /\ submit[u] = "spinning" /\ submit[f] = "failed")
=============================================================================
