-------------------------- MODULE DownloadOverPool --------------------------
(***************************************************************************)
(* The two things the download threads of one client contend for: lock_,   *)
(* one for each running ResumableDownloader, and the curl handles of the   *)
(* client, a pool that grows on demand (CurlContainer, ResourceManager_).  *)
(*                                                                         *)
(* A transfer holds a handle and takes lock_ in its callbacks, when the    *)
(* caller asked for progress or control; a worker that finds its url       *)
(* expired asks for a new one, which takes a handle, while it holds lock_. *)
(* A caller that makes single requests is a download with one worker.      *)
(*                                                                         *)
(* Abstractions: what is transferred, the record and the outcome of a call *)
(* are those of ResumableDownload.  A retry of Client::AttemptRequest      *)
(* takes a handle anew, like the next request.                             *)
(***************************************************************************)
EXTENDS Integers, Sequences, FiniteSets

CONSTANTS
    Workers,        \* the threads that make requests
    Nobody,         \* no thread
    Downloads,      \* the running downloads
    DownloadOf,     \* worker -> the download it works for
    PartsOf,        \* download -> the parts it has to fetch
    MaxConnections, \* configuration().maxConnections
    SureHandles,    \* curl_easy_init delivers at least so many handles
    MaxExpiries     \* bound on the urls that expire

ASSUME WorkersAssumption ==
    /\ IsFiniteSet(Workers) /\ Nobody \notin Workers
    /\ DownloadOf \in [Workers -> Downloads]
    /\ PartsOf \in [Downloads -> Nat]

ASSUME PoolAssumption ==
    MaxConnections \in Nat /\ SureHandles \in Nat /\ MaxExpiries \in Nat

NoHandle == 0
Handles == 1 .. MaxConnections

VARIABLES
    \* the pool
    resources,      \* m_resources: the handles nobody uses
    poolSize,       \* poolSize_
    containerLock,  \* containerLock_: the thread in growPool
    toAdd, added,   \* amountToAdd, what is left of it, and actuallyAdded
    \* the downloads
    lock,           \* lock_ of a download: who holds it while it asks for a url
    partsLeft,      \* partsToDownload, by their number
    \* the threads
    pc,
    request,        \* what the thread's request is for
    handle,         \* the handle it uses
    expiries        \* the urls that expired

pool == <<resources, poolSize, containerLock, toAdd, added>>
vars == <<pool, lock, partsLeft, pc, request, handle, expiries>>

Goto(w, label) == pc' = [pc EXCEPT ![w] = label]

-----------------------------------------------------------------------------
(* CurlContainer and ResourceManager_ *)

\* HasResourcesAvailable
Look(w) ==
    /\ pc[w] = "look"
    /\ Goto(w, IF resources = <<>> THEN "grow" ELSE "take")
    /\ UNCHANGED <<pool, lock, partsLeft, request, handle, expiries>>

\* Mutant: the pool grows by twice its size whatever the limit.
AmountToAdd_Unlimited == 2 * (IF poolSize > 0 THEN poolSize ELSE 1)

\* Mutant: the pool grows by its size, and begins with one handle.
AmountToAdd_Single ==
    LET wanted == IF poolSize > 0 THEN poolSize ELSE 1
        room == MaxConnections - poolSize
    IN  IF wanted < room THEN wanted ELSE room

\* The pool grows by twice its size, up to the limit.
AmountToAdd ==
    LET wanted == 2 * (IF poolSize > 0 THEN poolSize ELSE 1)
        room == MaxConnections - poolSize
    IN  IF wanted < room THEN wanted ELSE room

\* growPool takes containerLock_.
EnterGrow(w) ==
    /\ pc[w] = "grow"
    /\ containerLock = Nobody
    /\ containerLock' = w
    /\ toAdd' = AmountToAdd /\ added' = 0
    /\ Goto(w, "growing")
    /\ UNCHANGED <<resources, poolSize, lock, partsLeft, request, handle,
                   expiries>>

\* A new handle is released into the pool, or curl_easy_init has none.
AddHandle(w) ==
    /\ pc[w] = "growing"
    /\ toAdd > 0
    /\ \/ /\ resources' = Append(resources, poolSize + added + 1)
          /\ added' = added + 1 /\ toAdd' = toAdd - 1
          /\ Goto(w, "notifyNew")
       \/ /\ poolSize + added >= SureHandles
          /\ toAdd' = 0
          /\ UNCHANGED <<resources, added, pc>>
    /\ UNCHANGED <<poolSize, containerLock, lock, partsLeft, request, handle,
                   expiries>>

\* Mutant: the handles that curl_easy_init did not deliver count too.
LeaveGrow_CountsWanted(w) ==
    /\ pc[w] = "growing"
    /\ toAdd = 0
    /\ poolSize' = poolSize + AmountToAdd /\ added' = 0
    /\ containerLock' = Nobody
    /\ Goto(w, "take")
    /\ UNCHANGED <<resources, toAdd, lock, partsLeft, request, handle, expiries>>

\* The size of the pool counts what was added.
LeaveGrow(w) ==
    /\ pc[w] = "growing"
    /\ toAdd = 0
    /\ poolSize' = poolSize + added /\ added' = 0
    /\ containerLock' = Nobody
    /\ Goto(w, "take")
    /\ UNCHANGED <<resources, toAdd, lock, partsLeft, request, handle, expiries>>

\* ResourceManager_::Acquire: the last handle of the list, or sleep.
Take(w) ==
    /\ pc[w] = "take"
    /\ IF resources = <<>>
       THEN Goto(w, "asleep") /\ UNCHANGED <<resources, handle>>
       ELSE LET last == Len(resources)
            IN  /\ handle' = [handle EXCEPT ![w] = resources[last]]
                /\ resources' = SubSeq(resources, 1, last - 1)
                /\ Goto(w, "perform")
    /\ UNCHANGED <<poolSize, containerLock, toAdd, added, lock, partsLeft,
                   request, expiries>>

\* Release: back into the list under m_queueLock ...
Release(w) ==
    /\ pc[w] = "release"
    /\ resources' = Append(resources, handle[w])
    /\ handle' = [handle EXCEPT ![w] = NoHandle]
    /\ Goto(w, "notify")
    /\ UNCHANGED <<poolSize, containerLock, toAdd, added, lock, partsLeft,
                   request, expiries>>

\* Mutant: a new handle is put into the list without a word, as PutResource does.
WakeOne_Silent(w, next) == Goto(w, next)

\* ... and notify_one after it: one of the sleepers, if any, looks again.
WakeOne(w, next) ==
    LET asleep == {v \in Workers : pc[v] = "asleep"}
    IN  IF asleep = {} THEN Goto(w, next)
        ELSE \E v \in asleep : pc' = [pc EXCEPT ![w] = next, ![v] = "take"]

AfterRequest(w) ==
    CASE request[w] = "part" -> "check"
      [] request[w] = "url" -> "renewed"
      [] request[w] = "again" -> "store"

Notify(w) ==
    /\ \/ pc[w] = "notify" /\ WakeOne(w, AfterRequest(w))
       \/ pc[w] = "notifyNew" /\ WakeOne(w, "growing")
    /\ UNCHANGED <<pool, lock, partsLeft, request, handle, expiries>>

-----------------------------------------------------------------------------
(* The request *)

\* curl_easy_perform.  The callbacks of a part's transfer take lock_; a request
\* that fails early may end without one.
Perform(w) ==
    /\ pc[w] = "perform"
    /\ \/ Goto(w, "release")
       \/ request[w] # "url" /\ Goto(w, "callback")
    /\ UNCHANGED <<pool, lock, partsLeft, request, handle, expiries>>

IsFree(w) == lock[DownloadOf[w]] = Nobody

\* DownloadPartProcessCallback and DownloadPartProcessControlCallback
Callback(w) ==
    /\ pc[w] = "callback"
    /\ IsFree(w)
    /\ Goto(w, "release")
    /\ UNCHANGED <<pool, lock, partsLeft, request, handle, expiries>>

-----------------------------------------------------------------------------
(* The download thread *)

\* Takes a part from the queue, or ends: the queue is empty, or the caller wants
\* to quit.
NextPart(w) ==
    /\ pc[w] = "next"
    /\ IsFree(w)
    /\ IF partsLeft[DownloadOf[w]] = 0
       THEN Goto(w, "done") /\ UNCHANGED <<partsLeft, request>>
       ELSE /\ partsLeft' = [partsLeft EXCEPT ![DownloadOf[w]] = @ - 1]
            /\ request' = [request EXCEPT ![w] = "part"]
            /\ Goto(w, "look") \/ Goto(w, "done")
    /\ UNCHANGED <<pool, lock, handle, expiries>>

\* The GET is over.  When the url expired lock_ is kept for the request of a new
\* one.
CheckOutcome(w) ==
    /\ pc[w] = "check"
    /\ IsFree(w)
    /\ \/ Goto(w, "store") /\ UNCHANGED <<lock, request, expiries>>
       \/ /\ expiries < MaxExpiries
          /\ expiries' = expiries + 1
          /\ lock' = [lock EXCEPT ![DownloadOf[w]] = w]
          /\ request' = [request EXCEPT ![w] = "url"]
          /\ Goto(w, "look")
    /\ UNCHANGED <<pool, partsLeft, handle>>

\* Mutant: a thread that got no url leaves without giving lock_ back.
Renewed_KeepsLock(w) ==
    /\ pc[w] = "renewed"
    /\ \/ /\ request' = [request EXCEPT ![w] = "again"]
          /\ Goto(w, "look")
          /\ lock' = [lock EXCEPT ![DownloadOf[w]] = Nobody]
       \/ Goto(w, "done") /\ UNCHANGED <<request, lock>>
    /\ UNCHANGED <<pool, partsLeft, handle, expiries>>

\* The part is fetched again with the new url, or the thread ends without one.
Renewed(w) ==
    /\ pc[w] = "renewed"
    /\ lock' = [lock EXCEPT ![DownloadOf[w]] = Nobody]
    /\ \/ request' = [request EXCEPT ![w] = "again"] /\ Goto(w, "look")
       \/ Goto(w, "done") /\ UNCHANGED request
    /\ UNCHANGED <<pool, partsLeft, handle, expiries>>

\* Outcome and record are written under lock_.
Store(w) ==
    /\ pc[w] = "store"
    /\ IsFree(w)
    /\ Goto(w, "next")
    /\ UNCHANGED <<pool, lock, partsLeft, request, handle, expiries>>

-----------------------------------------------------------------------------
Init ==
    /\ resources = <<>> /\ poolSize = 0
    /\ containerLock = Nobody /\ toAdd = 0 /\ added = 0
    /\ lock = [d \in Downloads |-> Nobody]
    /\ partsLeft = PartsOf
    /\ pc = [w \in Workers |-> "next"]
    /\ request = [w \in Workers |-> "part"]
    /\ handle = [w \in Workers |-> NoHandle]
    /\ expiries = 0

Pool(w) == \/ Look(w) \/ EnterGrow(w) \/ AddHandle(w) \/ LeaveGrow(w)
           \/ Take(w) \/ Release(w) \/ Notify(w)

Work(w) == \/ Perform(w) \/ Callback(w)
           \/ NextPart(w) \/ CheckOutcome(w) \/ Renewed(w) \/ Store(w)

Next == \E w \in Workers : Pool(w) \/ Work(w)

Spec == Init /\ [][Next]_vars

\* Every thread runs; a transfer ends.  Nothing is assumed of the order in which
\* the threads that wait for a mutex or a handle get it.
FairSpec == Spec /\ \A w \in Workers : WF_vars(Pool(w) \/ Work(w))

-----------------------------------------------------------------------------
(* Properties *)

Pcs == {"next", "look", "grow", "growing", "notifyNew", "take", "asleep",
        "perform", "callback", "release", "notify", "check", "renewed",
        "store", "done"}

PoolOK == /\ resources \in Seq(Handles)
          /\ poolSize \in 0 .. MaxConnections
          /\ containerLock \in Workers \cup {Nobody}
          /\ toAdd \in 0 .. MaxConnections
          /\ added \in 0 .. MaxConnections
WorkersOK == /\ pc \in [Workers -> Pcs]
             /\ request \in [Workers -> {"part", "url", "again"}]
             /\ handle \in [Workers -> Handles \cup {NoHandle}]
DownloadsOK == /\ lock \in [Downloads -> Workers \cup {Nobody}]
               /\ partsLeft \in [Downloads -> Nat]
               /\ expiries \in Nat

\* Every variable has its type; the pool keeps to maxConnections.
TypeOK == PoolOK /\ WorkersOK /\ DownloadsOK

Asleep == {w \in Workers : pc[w] = "asleep"}
\* Threads that will look at the list again, or make another one do so.
Stirring == {w \in Workers : pc[w] \in {"take", "notify", "notifyNew"}}

\* No wakeup is lost: while threads sleep, at least as many others as there are
\* free handles are about to take one or to wake somebody.
NoHandleIsForgotten ==
    Asleep # {} => Cardinality(Stirring) >= Len(resources)

Holders == {w \in Workers : handle[w] # NoHandle}

\* A handle is used by one request, or is free once, and none gets lost, while
\* the pool grows under requests that take and return handles.
HandlesAccounted ==
    /\ \A i, j \in DOMAIN resources : resources[i] = resources[j] => i = j
    /\ \A w \in Workers :
          handle[w] # NoHandle =>
             /\ \A i \in DOMAIN resources : resources[i] # handle[w]
             /\ \A v \in Workers : handle[v] = handle[w] => v = w
    /\ Len(resources) + Cardinality(Holders) = poolSize + added

\* What a thread may wait for: a handle, a mutex, or nothing any more.
Blocked(w) ==
    \/ pc[w] \in {"asleep", "done"}
    \/ pc[w] = "grow" /\ containerLock # Nobody
    \/ pc[w] \in {"next", "callback", "check", "store"} /\ ~IsFree(w)

\* The threads never all wait for one another, the holders of handles for lock_
\* and the holders of lock_ for a handle: as long as one has work to do some
\* thread can go on.
NeverStuck == (\E w \in Workers : pc[w] # "done") => \E w \in Workers : ~Blocked(w)

\* All downloads come to their end: threads that hold handles and wait for
\* lock_, and threads that hold lock_ and wait for a handle, never make up the
\* whole client.  It takes more handles than Cardinality(Workers) -
\* Cardinality(Downloads), and these at once: the pool begins with two.
AllDownloadsEnd == <>(\A w \in Workers : pc[w] = "done")

\* "Max concurrent tcp connections for a single http client to use."
\* (ClientConfiguration.h:45): below the maximum no request waits for ever for
\* a connection.
WaitsEndBelowTheLimit ==
    \A w \in Workers :
        (pc[w] = "asleep" /\ poolSize < MaxConnections) ~> pc[w] # "asleep"

=============================================================================
