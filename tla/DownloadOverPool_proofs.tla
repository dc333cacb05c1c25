----------------------- MODULE DownloadOverPool_proofs -----------------------
(***************************************************************************)
(* Proofs about DownloadOverPool for every number of threads and handles:  *)
(* types and the bound of the pool, the accounting of the handles, no lost *)
(* wakeup, and that the threads never all wait for one another.            *)
(***************************************************************************)
EXTENDS DownloadOverPool, FiniteSetTheorems, SequenceTheorems, TLAPS

InGrow == {"growing", "notifyNew"}
Using == {"perform", "callback", "release"}
Stirs == {"take", "notify", "notifyNew"}

(* growPool runs in one thread at a time and keeps to the limit. *)
Growing ==
    /\ \A w \in Workers : containerLock = w <=> pc[w] \in InGrow
    /\ containerLock = Nobody => toAdd = 0 /\ added = 0
    /\ poolSize + added + toAdd <= MaxConnections

(* A thread has a handle exactly while it transfers. *)
Holding == \A w \in Workers : handle[w] # NoHandle <=> pc[w] \in Using

(* Handles are numbered in the order they were made, so the next is new. *)
Numbered ==
    /\ \A i \in DOMAIN resources : resources[i] <= poolSize + added
    /\ \A w \in Workers : handle[w] <= poolSize + added

Inv == /\ TypeOK
       /\ Growing
       /\ Holding
       /\ Numbered
       /\ HandlesAccounted
       /\ NoHandleIsForgotten

-----------------------------------------------------------------------------
(* Sets of threads. *)

LEMMA ThreadSets ==
    /\ IsFiniteSet(Stirring) /\ Cardinality(Stirring) \in Nat
    /\ IsFiniteSet(Holders) /\ Cardinality(Holders) \in Nat
<1>1. Stirring \in SUBSET Workers /\ Holders \in SUBSET Workers
  BY DEF Stirring, Holders
<1>2. IsFiniteSet(Stirring) /\ IsFiniteSet(Holders)
  BY <1>1, FS_Subset, WorkersAssumption
<1> QED BY <1>2, FS_CardinalityType

\* One thread moves: what becomes of the threads that stir.
LEMMA OneMoves ==
    ASSUME WorkersOK, NEW w \in Workers, NEW l \in Pcs, Goto(w, l),
           pc[w] # "asleep"
    PROVE  /\ l \in Stirs /\ pc[w] \notin Stirs =>
                Cardinality(Stirring') = Cardinality(Stirring) + 1
           /\ l \notin Stirs /\ pc[w] \in Stirs =>
                Cardinality(Stirring') = Cardinality(Stirring) - 1
           /\ (l \in Stirs <=> pc[w] \in Stirs) => Stirring' = Stirring
           /\ l # "asleep" => Asleep' = Asleep
<1> USE DEF WorkersOK, Goto
<1>1. ASSUME l \in Stirs, pc[w] \notin Stirs
      PROVE  Cardinality(Stirring') = Cardinality(Stirring) + 1
  <2>1. Stirring' = Stirring \cup {w} /\ w \notin Stirring
    BY <1>1 DEF Stirring, Stirs
  <2> QED BY <2>1, ThreadSets, FS_AddElement
<1>2. ASSUME l \notin Stirs, pc[w] \in Stirs
      PROVE  Cardinality(Stirring') = Cardinality(Stirring) - 1
  <2>1. Stirring' = Stirring \ {w} /\ w \in Stirring
    BY <1>2 DEF Stirring, Stirs
  <2> QED BY <2>1, ThreadSets, FS_RemoveElement
<1>3. ASSUME l \in Stirs <=> pc[w] \in Stirs
      PROVE  Stirring' = Stirring
  BY <1>3 DEF Stirring, Stirs
<1>4. ASSUME l # "asleep" PROVE Asleep' = Asleep
  BY <1>4 DEF Asleep
<1> QED BY <1>1, <1>2, <1>3, <1>4

\* A thread that wakes another takes its place among those that stir.
LEMMA OneWakes ==
    ASSUME WorkersOK, NEW w \in Workers, NEW v \in Asleep, NEW l \in Pcs,
           pc[w] \in {"notify", "notifyNew"}, l \notin Stirs,
           pc' = [pc EXCEPT ![w] = l, ![v] = "take"]
    PROVE  Cardinality(Stirring') = Cardinality(Stirring)
<1>1. v \in Workers /\ v # w /\ w \in Stirring /\ v \notin Stirring
  BY DEF Asleep, Stirring
<1>2. Stirring' = (Stirring \ {w}) \cup {v}
  BY <1>1 DEF Stirring, Stirs, WorkersOK
<1>3. /\ IsFiniteSet(Stirring \ {w})
      /\ Cardinality(Stirring \ {w}) = Cardinality(Stirring) - 1
  BY <1>1, ThreadSets, FS_RemoveElement
<1>4. v \notin Stirring \ {w}
  BY <1>1
<1>5. Cardinality((Stirring \ {w}) \cup {v}) = Cardinality(Stirring \ {w}) + 1
  BY <1>3, <1>4, FS_AddElement
<1> QED BY <1>2, <1>3, <1>5, ThreadSets

-----------------------------------------------------------------------------
(* Steps that do not touch the pool. *)

\* A thread moves between places of the same kind; the handles stay.
LEMMA QuietStep ==
    ASSUME Inv, NEW w \in Workers, NEW l \in Pcs, Goto(w, l),
           UNCHANGED <<pool, handle>>,
           pc[w] # "asleep", l # "asleep",
           l \in Stirs <=> pc[w] \in Stirs,
           l \in InGrow <=> pc[w] \in InGrow,
           l \in Using <=> pc[w] \in Using
    PROVE  /\ Growing' /\ Holding' /\ Numbered'
           /\ HandlesAccounted' /\ NoHandleIsForgotten'
<1> USE DEF Inv, TypeOK, WorkersOK, Goto, pool
<1>1. Growing'
  BY DEF Growing
<1>2. Holding'
  BY DEF Holding
<1>3. Numbered' /\ HandlesAccounted'
  BY DEF Numbered, HandlesAccounted, Holders
<1>4. NoHandleIsForgotten'
  BY OneMoves DEF NoHandleIsForgotten
<1> QED BY <1>1, <1>2, <1>3, <1>4

LEMMA WorkKeeps ==
    ASSUME Inv, NEW w \in Workers, Work(w)
    PROVE  Inv'
<1> USE DEF Inv, TypeOK
<1>1. TypeOK'
  <2>1. PoolOK'
    BY DEF Work, Perform, Callback, NextPart, CheckOutcome, Renewed, Store, pool,
           PoolOK
  <2>2. DownloadOf[w] \in Downloads
    BY WorkersAssumption
  <2>3. /\ lock' \in [Downloads -> Workers \cup {Nobody}]
        /\ expiries' \in Nat
    BY <2>2
    DEF Work, Perform, Callback, NextPart, CheckOutcome, Renewed, Store,
        DownloadsOK
  <2>4. partsLeft' \in [Downloads -> Nat]
    <3>1. CASE NextPart(w)
      BY <2>2, <3>1 DEF NextPart, DownloadsOK
    <3>2. CASE UNCHANGED partsLeft
      BY <3>2 DEF DownloadsOK
    <3> QED BY <3>1, <3>2
      DEF Work, Perform, Callback, CheckOutcome, Renewed, Store
  <2>5. WorkersOK'
    BY DEF Work, Perform, Callback, NextPart, CheckOutcome, Renewed, Store,
           Goto, WorkersOK, Pcs
  <2> QED BY <2>1, <2>3, <2>4, <2>5 DEF DownloadsOK
<1>2. /\ UNCHANGED <<pool, handle>>
      /\ \E l \in Pcs :
            /\ Goto(w, l)
            /\ pc[w] # "asleep" /\ l # "asleep"
            /\ l \notin Stirs /\ pc[w] \notin Stirs
            /\ l \notin InGrow /\ pc[w] \notin InGrow
            /\ l \in Using <=> pc[w] \in Using
  <2> USE DEF Pcs, Stirs, InGrow, Using
  <2>1. CASE Perform(w)
    BY <2>1 DEF Perform
  <2>2. CASE Callback(w)
    BY <2>2 DEF Callback
  <2>3. CASE NextPart(w)
    BY <2>3 DEF NextPart
  <2>4. CASE CheckOutcome(w)
    BY <2>4 DEF CheckOutcome
  <2>5. CASE Renewed(w)
    BY <2>5 DEF Renewed
  <2>6. CASE Store(w)
    BY <2>6 DEF Store
  <2> QED BY <2>1, <2>2, <2>3, <2>4, <2>5, <2>6 DEF Work
<1> QED BY <1>1, <1>2, QuietStep

-----------------------------------------------------------------------------
(* The pool. *)

LEMMA LookKeeps ==
    ASSUME Inv, NEW w \in Workers, Look(w)
    PROVE  Inv'
<1> USE DEF Inv, TypeOK, Look
<1>1. TypeOK'
  BY DEF Goto, PoolOK, WorkersOK, DownloadsOK, Pcs, pool
<1>2. CASE resources = <<>>
  <2>1. Goto(w, "grow")
    BY <1>2
  <2> QED BY <1>1, <2>1, QuietStep DEF Pcs, Stirs, InGrow, Using
<1>3. CASE resources # <<>>
  <2>1. Goto(w, "take")
    BY <1>3
  <2>2. Growing' /\ Holding'
    BY <2>1 DEF Growing, Holding, Goto, WorkersOK, InGrow, Using, pool
  <2>3. Numbered' /\ HandlesAccounted'
    BY DEF Numbered, HandlesAccounted, Holders, pool
  <2>4. /\ Cardinality(Stirring') = Cardinality(Stirring) + 1
        /\ Asleep' = Asleep
    BY <2>1, OneMoves DEF Stirs, Pcs
  <2>5. Len(resources) \in Nat
    BY LenProperties DEF PoolOK
  <2>6. NoHandleIsForgotten'
    BY <2>4, <2>5, ThreadSets DEF NoHandleIsForgotten, pool
  <2> QED BY <1>1, <2>2, <2>3, <2>6
<1> QED BY <1>2, <1>3

LEMMA AmountBound ==
    ASSUME PoolOK
    PROVE  AmountToAdd \in 0 .. MaxConnections - poolSize
BY PoolAssumption DEF PoolOK, AmountToAdd

LEMMA EnterGrowKeeps ==
    ASSUME Inv, NEW w \in Workers, EnterGrow(w)
    PROVE  Inv'
<1> USE DEF Inv, TypeOK, EnterGrow
<1>1. AmountToAdd \in 0 .. MaxConnections - poolSize
  BY AmountBound
<1>2. added = 0
  BY DEF Growing
<1>3. PoolOK' /\ DownloadsOK'
  BY <1>1, PoolAssumption DEF PoolOK, DownloadsOK
<1>4. WorkersOK'
  BY DEF Goto, WorkersOK, Pcs
<1>5. Growing'
  <2>1. \A v \in Workers : containerLock' = v <=> pc'[v] \in InGrow
    BY WorkersAssumption DEF Growing, Goto, WorkersOK, InGrow
  <2>2. containerLock' # Nobody
    BY WorkersAssumption
  <2>3. poolSize' + added' + toAdd' <= MaxConnections
    BY <1>1, PoolAssumption DEF PoolOK
  <2> QED BY <2>1, <2>2, <2>3 DEF Growing
<1>6. Holding'
  BY DEF Holding, Goto, WorkersOK, Using
<1>7. Numbered' /\ HandlesAccounted'
  BY <1>2 DEF Numbered, HandlesAccounted, Holders
<1>8. NoHandleIsForgotten'
  BY OneMoves DEF NoHandleIsForgotten, Stirs, Pcs
<1> QED BY <1>3, <1>4, <1>5, <1>6, <1>7, <1>8

LEMMA LeaveGrowKeeps ==
    ASSUME Inv, NEW w \in Workers, LeaveGrow(w)
    PROVE  Inv'
<1> USE DEF Inv, TypeOK, LeaveGrow
<1>1. poolSize + added \in 0 .. MaxConnections
  BY PoolAssumption DEF PoolOK, Growing
<1>2. PoolOK' /\ DownloadsOK'
  BY <1>1, PoolAssumption DEF PoolOK, DownloadsOK
<1>3. WorkersOK'
  BY DEF Goto, WorkersOK, Pcs
<1>4. Growing'
  <2>1. \A v \in Workers : containerLock = v <=> v = w
    BY DEF Growing, InGrow
  <2>2. \A v \in Workers : pc'[v] \notin InGrow
    BY <2>1 DEF Growing, Goto, WorkersOK, InGrow
  <2> QED BY <1>1, <2>2, WorkersAssumption, PoolAssumption DEF Growing, PoolOK
<1>5. Holding'
  BY DEF Holding, Goto, WorkersOK, Using
<1>6. poolSize' + added' = poolSize + added
  BY DEF PoolOK
<1>7. Numbered' /\ HandlesAccounted'
  BY <1>6 DEF Numbered, HandlesAccounted, Holders
<1>8. /\ Cardinality(Stirring') = Cardinality(Stirring) + 1
      /\ Asleep' = Asleep
  BY OneMoves DEF Stirs, Pcs
<1>9. Len(resources) \in Nat
  BY LenProperties DEF PoolOK
<1>10. NoHandleIsForgotten'
  BY <1>8, <1>9, ThreadSets DEF NoHandleIsForgotten
<1> QED BY <1>2, <1>3, <1>4, <1>5, <1>7, <1>10

LEMMA AddHandleKeeps ==
    ASSUME Inv, NEW w \in Workers, AddHandle(w)
    PROVE  Inv'
<1> USE DEF Inv, TypeOK
<1> DEFINE new == poolSize + added + 1
<1>1. /\ pc[w] = "growing" /\ toAdd > 0
      /\ UNCHANGED <<poolSize, containerLock, lock, partsLeft, request, handle,
                     expiries>>
  BY DEF AddHandle
<1>2. new \in Handles /\ new \in Nat
  BY <1>1, PoolAssumption DEF PoolOK, Growing, Handles
<1>3. Len(resources) \in Nat /\ DOMAIN resources = 1 .. Len(resources)
  BY LenProperties DEF PoolOK
<1>4. CASE /\ resources' = Append(resources, new)
           /\ added' = added + 1 /\ toAdd' = toAdd - 1
           /\ Goto(w, "notifyNew")
  <2>1. /\ resources' \in Seq(Handles) /\ Len(resources') = Len(resources) + 1
        /\ \A i \in 1 .. Len(resources) : resources'[i] = resources[i]
        /\ resources'[Len(resources) + 1] = new
    BY <1>2, <1>4, AppendProperties DEF PoolOK
  <2>2. DOMAIN resources' = 1 .. Len(resources) + 1
    BY <2>1, LenProperties
  <2>3. PoolOK' /\ DownloadsOK'
    BY <1>1, <1>4, <2>1, PoolAssumption DEF PoolOK, DownloadsOK, Growing
  <2>4. WorkersOK'
    BY <1>1, <1>4 DEF Goto, WorkersOK, Pcs
  <2>5. Growing'
    BY <1>1, <1>4, PoolAssumption, WorkersAssumption
    DEF Growing, Goto, WorkersOK, InGrow, PoolOK
  <2>6. Holding'
    BY <1>1, <1>4 DEF Holding, Goto, WorkersOK, Using
  <2>7. poolSize' + added' = new
    BY <1>1, <1>4 DEF PoolOK
  <2>8. \A v \in Workers : handle[v] \in Nat /\ handle[v] < new
    BY PoolAssumption DEF Numbered, PoolOK, WorkersOK, Handles, NoHandle
  <2>9. \A i \in DOMAIN resources : resources[i] \in Nat /\ resources[i] < new
    BY <1>3, ElementOfSeq, PoolAssumption DEF Numbered, PoolOK, Handles
  <2>10. Numbered'
    BY <1>1, <1>2, <1>3, <2>1, <2>2, <2>7, <2>8, <2>9 DEF Numbered
  <2>11. HandlesAccounted'
    <3>1. \A i, j \in DOMAIN resources' : resources'[i] = resources'[j] => i = j
      BY <1>2, <1>3, <2>1, <2>2, <2>9 DEF HandlesAccounted
    <3>2. \A v \in Workers :
             handle'[v] # NoHandle =>
                /\ \A i \in DOMAIN resources' : resources'[i] # handle'[v]
                /\ \A u \in Workers : handle'[u] = handle'[v] => u = v
      BY <1>1, <1>2, <1>3, <2>1, <2>2, <2>8 DEF HandlesAccounted
    <3>3. Len(resources') + Cardinality(Holders') = poolSize' + added'
      BY <1>1, <1>3, <2>1, <2>7, ThreadSets
      DEF HandlesAccounted, Holders, PoolOK
    <3> QED BY <3>1, <3>2, <3>3 DEF HandlesAccounted
  <2>12. /\ Cardinality(Stirring') = Cardinality(Stirring) + 1
         /\ Asleep' = Asleep
    BY <1>1, <1>4, OneMoves DEF Stirs, Pcs
  <2>13. NoHandleIsForgotten'
    BY <1>3, <2>1, <2>12, ThreadSets DEF NoHandleIsForgotten
  <2> QED BY <2>3, <2>4, <2>5, <2>6, <2>10, <2>11, <2>13
<1>5. CASE toAdd' = 0 /\ UNCHANGED <<resources, added, pc>>
  <2>1. TypeOK'
    BY <1>1, <1>5, PoolAssumption
    DEF PoolOK, DownloadsOK, WorkersOK
  <2>2. Growing'
    BY <1>1, <1>5, PoolAssumption DEF Growing, PoolOK
  <2>3. Holding' /\ Numbered' /\ HandlesAccounted' /\ NoHandleIsForgotten'
    BY <1>1, <1>5
    DEF Holding, Numbered, HandlesAccounted, Holders, NoHandleIsForgotten,
        Asleep, Stirring
  <2> QED BY <2>1, <2>2, <2>3
<1> QED BY <1>4, <1>5 DEF AddHandle

LEMMA ReleaseKeeps ==
    ASSUME Inv, NEW w \in Workers, Release(w)
    PROVE  Inv'
<1> USE DEF Inv, TypeOK
<1>1. /\ pc[w] = "release" /\ Goto(w, "notify")
      /\ resources' = Append(resources, handle[w])
      /\ handle' = [handle EXCEPT ![w] = NoHandle]
      /\ UNCHANGED <<poolSize, containerLock, toAdd, added, lock, partsLeft,
                     request, expiries>>
  BY DEF Release
<1>2. handle[w] \in Handles
  BY <1>1 DEF Holding, Using, WorkersOK
<1>3. Len(resources) \in Nat /\ DOMAIN resources = 1 .. Len(resources)
  BY LenProperties DEF PoolOK
<1>4. /\ resources' \in Seq(Handles) /\ Len(resources') = Len(resources) + 1
      /\ \A i \in 1 .. Len(resources) : resources'[i] = resources[i]
      /\ resources'[Len(resources) + 1] = handle[w]
  BY <1>1, <1>2, AppendProperties DEF PoolOK
<1>5. DOMAIN resources' = 1 .. Len(resources) + 1
  BY <1>4, LenProperties
<1>6. PoolOK' /\ DownloadsOK'
  BY <1>1, <1>4 DEF PoolOK, DownloadsOK
<1>7. WorkersOK'
  BY <1>1 DEF Goto, WorkersOK, Pcs
<1>8. Growing'
  BY <1>1 DEF Growing, Goto, WorkersOK, InGrow
<1>9. Holding'
  BY <1>1 DEF Holding, Goto, WorkersOK, Using
<1>10. handle[w] # NoHandle /\ \A v \in Workers : v # w => handle'[v] = handle[v]
  BY <1>1 DEF Holding, Using, WorkersOK
<1>11. handle'[w] = NoHandle
  BY <1>1 DEF WorkersOK
<1>12. Numbered'
  BY <1>1, <1>3, <1>4, <1>5, <1>10, <1>11, PoolAssumption
  DEF Numbered, NoHandle, PoolOK
<1>13. HandlesAccounted'
  <2>1. \A i, j \in DOMAIN resources' : resources'[i] = resources'[j] => i = j
    BY <1>3, <1>4, <1>5, <1>10 DEF HandlesAccounted
  <2>2. \A v \in Workers :
           handle'[v] # NoHandle =>
              /\ \A i \in DOMAIN resources' : resources'[i] # handle'[v]
              /\ \A u \in Workers : handle'[u] = handle'[v] => u = v
    BY <1>3, <1>4, <1>5, <1>10, <1>11 DEF HandlesAccounted
  <2>3. Holders' = Holders \ {w} /\ w \in Holders
    BY <1>10, <1>11 DEF Holders
  <2>4. Cardinality(Holders') = Cardinality(Holders) - 1
    BY <2>3, ThreadSets, FS_RemoveElement
  <2>5. Len(resources') + Cardinality(Holders') = poolSize' + added'
    BY <1>1, <1>3, <1>4, <2>4, ThreadSets DEF HandlesAccounted, PoolOK
  <2> QED BY <2>1, <2>2, <2>5 DEF HandlesAccounted
<1>14. /\ Cardinality(Stirring') = Cardinality(Stirring) + 1
       /\ Asleep' = Asleep
  BY <1>1, OneMoves DEF Stirs, Pcs
<1>15. NoHandleIsForgotten'
  BY <1>3, <1>4, <1>14, ThreadSets DEF NoHandleIsForgotten
<1> QED BY <1>6, <1>7, <1>8, <1>9, <1>12, <1>13, <1>15

LEMMA TakeKeeps ==
    ASSUME Inv, NEW w \in Workers, Take(w)
    PROVE  Inv'
<1> USE DEF Inv, TypeOK
<1> DEFINE last == Len(resources)
<1>1. /\ pc[w] = "take"
      /\ UNCHANGED <<poolSize, containerLock, toAdd, added, lock, partsLeft,
                     request, expiries>>
  BY DEF Take
<1>2. last \in Nat /\ DOMAIN resources = 1 .. last
  BY LenProperties DEF PoolOK
<1>3. handle[w] = NoHandle
  BY <1>1 DEF Holding, Using
<1>4. CASE resources = <<>>
  <2>1. Goto(w, "asleep") /\ UNCHANGED <<resources, handle>>
    BY <1>4 DEF Take
  <2>2. TypeOK'
    BY <1>1, <2>1 DEF PoolOK, DownloadsOK, WorkersOK, Goto, Pcs
  <2>3. Growing' /\ Holding'
    BY <1>1, <2>1 DEF Growing, Holding, Goto, WorkersOK, InGrow, Using
  <2>4. Numbered' /\ HandlesAccounted'
    BY <1>1, <2>1 DEF Numbered, HandlesAccounted, Holders
  <2>5. Len(resources') = 0
    BY <1>4, <2>1, EmptySeq
  <2>6. Cardinality(Stirring') = Cardinality(Stirring) - 1
    BY <1>1, <2>1, OneMoves DEF Stirs, Pcs
  <2>7. w \in Stirring
    BY <1>1 DEF Stirring
  <2>8. Cardinality(Stirring) # 0
    BY <2>7, ThreadSets, FS_EmptySet
  <2>9. NoHandleIsForgotten'
    BY <2>5, <2>6, <2>8, ThreadSets DEF NoHandleIsForgotten
  <2> QED BY <2>2, <2>3, <2>4, <2>9
<1>5. CASE resources # <<>>
  <2>1. /\ handle' = [handle EXCEPT ![w] = resources[last]]
        /\ resources' = SubSeq(resources, 1, last - 1)
        /\ Goto(w, "perform")
    BY <1>5 DEF Take
  <2>2. last > 0
    BY <1>2, <1>5, EmptySeq DEF PoolOK
  <2>3. \A i \in 1 .. last : resources[i] \in Handles
    BY ElementOfSeq DEF PoolOK
  <2>4. /\ resources' \in Seq(Handles) /\ Len(resources') = last - 1
        /\ \A i \in 1 .. last - 1 : resources'[i] = resources[i]
    <3>1. \A i \in 1 .. last - 1 : resources[i] \in Handles
      BY <1>2, <2>3
    <3> QED BY <1>2, <2>1, <2>2, <3>1, SubSeqProperties
  <2>5. DOMAIN resources' = 1 .. last - 1
    BY <2>4, LenProperties
  <2>6. resources[last] \in Handles /\ resources[last] # NoHandle
    BY <1>2, <2>2, <2>3, PoolAssumption DEF Handles, NoHandle
  <2>7. TypeOK'
    BY <1>1, <2>1, <2>4, <2>6 DEF PoolOK, DownloadsOK, WorkersOK, Goto, Pcs
  <2>8. /\ handle'[w] = resources[last]
        /\ \A v \in Workers : v # w => handle'[v] = handle[v]
    BY <2>1 DEF WorkersOK
  <2>9. Growing'
    BY <1>1, <2>1 DEF Growing, Goto, WorkersOK, InGrow
  <2>10. Holding'
    BY <1>1, <2>1, <2>6 DEF Holding, Goto, WorkersOK, Using
  <2>11. Numbered'
    BY <1>1, <1>2, <2>2, <2>4, <2>5, <2>8 DEF Numbered
  <2>12. HandlesAccounted'
    <3>1. \A i, j \in DOMAIN resources' : resources'[i] = resources'[j] => i = j
      BY <1>2, <2>4, <2>5 DEF HandlesAccounted
    <3>2. \A i \in 1 .. last - 1 : resources'[i] # resources[last]
      BY <1>2, <2>2, <2>4 DEF HandlesAccounted
    <3>3. \A v \in Workers : handle[v] # resources[last]
      BY <1>2, <2>2, <2>6 DEF HandlesAccounted
    <3>4. \A v \in Workers :
             handle'[v] # NoHandle =>
                /\ \A i \in DOMAIN resources' : resources'[i] # handle'[v]
                /\ \A u \in Workers : handle'[u] = handle'[v] => u = v
      BY <1>2, <2>4, <2>5, <2>8, <3>2, <3>3 DEF HandlesAccounted
    <3>5. Holders' = Holders \cup {w} /\ w \notin Holders
      BY <1>3, <2>6, <2>8 DEF Holders
    <3>6. Cardinality(Holders') = Cardinality(Holders) + 1
      BY <3>5, ThreadSets, FS_AddElement
    <3>7. Len(resources') + Cardinality(Holders') = poolSize' + added'
      BY <1>1, <1>2, <2>4, <3>6, ThreadSets DEF HandlesAccounted, PoolOK
    <3> QED BY <3>1, <3>4, <3>7 DEF HandlesAccounted
  <2>13. /\ Cardinality(Stirring') = Cardinality(Stirring) - 1
         /\ Asleep' = Asleep
    BY <1>1, <2>1, OneMoves DEF Stirs, Pcs
  <2>14. NoHandleIsForgotten'
    BY <1>2, <2>4, <2>13, ThreadSets DEF NoHandleIsForgotten
  <2> QED BY <2>7, <2>9, <2>10, <2>11, <2>12, <2>14
<1> QED BY <1>4, <1>5

LEMMA AfterRequestIsQuiet ==
    ASSUME WorkersOK, NEW w \in Workers
    PROVE  AfterRequest(w) \in {"check", "renewed", "store"}
BY DEF WorkersOK, AfterRequest

LEMMA NotifyKeeps ==
    ASSUME Inv, NEW w \in Workers, Notify(w)
    PROVE  Inv'
<1> USE DEF Inv, TypeOK
<1>1. UNCHANGED <<pool, lock, partsLeft, request, handle, expiries>>
  BY DEF Notify
<1>2. PICK l \in {"check", "renewed", "store", "growing"} :
         /\ WakeOne(w, l)
         /\ pc[w] \in {"notify", "notifyNew"}
         /\ l = "growing" <=> pc[w] = "notifyNew"
  BY AfterRequestIsQuiet DEF Notify
<1>3. l \in Pcs /\ l \notin Stirs /\ l \notin Using /\ l # "asleep"
  BY <1>2 DEF Pcs, Stirs, Using
<1>4. /\ pc' \in [Workers -> Pcs]
      /\ \A v \in Workers : pc'[v] # pc[v] =>
            \/ v = w /\ pc'[v] = l
            \/ v # w /\ pc[v] = "asleep" /\ pc'[v] = "take"
      /\ pc'[w] = l
  BY <1>2, <1>3 DEF WakeOne, Goto, WorkersOK, Pcs
<1>5. TypeOK'
  BY <1>1, <1>4 DEF PoolOK, DownloadsOK, WorkersOK, pool
<1>6. \A v \in Workers : /\ pc'[v] \in InGrow <=> pc[v] \in InGrow
                         /\ pc'[v] \in Using <=> pc[v] \in Using
  BY <1>2, <1>4 DEF InGrow, Using
<1>7. Growing' /\ Holding'
  BY <1>1, <1>6 DEF Growing, Holding, pool
<1>8. Numbered' /\ HandlesAccounted'
  BY <1>1 DEF Numbered, HandlesAccounted, Holders, pool
<1>9. NoHandleIsForgotten'
  <2>1. CASE Asleep = {}
    <3>1. Asleep' = {}
      BY <1>3, <1>4, <2>1 DEF Asleep
    <3> QED BY <3>1 DEF NoHandleIsForgotten
  <2>2. CASE Asleep # {}
    <3>1. PICK v \in Asleep : pc' = [pc EXCEPT ![w] = l, ![v] = "take"]
      BY <1>2, <2>2 DEF WakeOne, Asleep
    <3>2. Cardinality(Stirring') = Cardinality(Stirring)
      BY <1>2, <1>3, <3>1, OneWakes
    <3> QED BY <1>1, <2>2, <3>2 DEF NoHandleIsForgotten, pool
  <2> QED BY <2>1, <2>2
<1> QED BY <1>5, <1>7, <1>8, <1>9

-----------------------------------------------------------------------------
(* The specification. *)

LEMMA InitInv == Init => Inv
<1> SUFFICES ASSUME Init PROVE Inv
  OBVIOUS
<1>1. <<>> \in Seq(Handles) /\ Len(<<>>) = 0 /\ DOMAIN resources = {}
  BY EmptySeq DEF Init
<1>2. TypeOK
  BY <1>1, WorkersAssumption, PoolAssumption
  DEF Init, TypeOK, PoolOK, WorkersOK, DownloadsOK, Pcs
<1>3. Growing
  BY WorkersAssumption, PoolAssumption DEF Init, Growing, InGrow
<1>4. Holding /\ Numbered
  BY <1>1 DEF Init, Holding, Using, Numbered, NoHandle
<1>5. Holders = {} /\ Asleep = {}
  BY DEF Init, Holders, Asleep
<1>6. HandlesAccounted /\ NoHandleIsForgotten
  BY <1>1, <1>5, FS_EmptySet
  DEF Init, HandlesAccounted, NoHandleIsForgotten, Holders
<1> QED BY <1>2, <1>3, <1>4, <1>6 DEF Inv

LEMMA NextInv == Inv /\ [Next]_vars => Inv'
<1> SUFFICES ASSUME Inv, [Next]_vars PROVE Inv'
  OBVIOUS
<1>1. ASSUME NEW w \in Workers, Pool(w) PROVE Inv'
  BY <1>1, LookKeeps, EnterGrowKeeps, AddHandleKeeps, LeaveGrowKeeps,
     TakeKeeps, ReleaseKeeps, NotifyKeeps DEF Pool
<1>2. CASE UNCHANGED vars
  BY <1>2
  DEF vars, pool, Inv, TypeOK, PoolOK, WorkersOK, DownloadsOK, Growing, Holding,
      Numbered, HandlesAccounted, NoHandleIsForgotten, Holders, Asleep, Stirring
<1> QED BY <1>1, <1>2, WorkKeeps DEF Next

LEMMA Invariance == Spec => []Inv
BY InitInv, NextInv, PTL DEF Spec

\* Every variable keeps its type and the pool keeps to maxConnections.
THEOREM PoolTypeCorrect == Spec => []TypeOK
<1>1. Inv => TypeOK
  BY DEF Inv
<1> QED BY <1>1, Invariance, PTL

\* No curl handle is used by two requests, used while it is free, or lost, for
\* any number of threads and any growth of the pool.
THEOREM EveryHandleAccounted == Spec => []HandlesAccounted
<1>1. Inv => HandlesAccounted
  BY DEF Inv
<1> QED BY <1>1, Invariance, PTL

\* The wakeups of notify_one, given after the unlock, are enough: no thread
\* sleeps on beside a free handle that nobody is about to take.
THEOREM NoWakeupIsLost == Spec => []NoHandleIsForgotten
<1>1. Inv => NoHandleIsForgotten
  BY DEF Inv
<1> QED BY <1>1, Invariance, PTL


-----------------------------------------------------------------------------
(***************************************************************************)
(* The threads never all wait for one another (NeverStuck), if there is a  *)
(* handle more than there are threads beyond the first of each download,   *)
(* and the pool begins with so many: a pool that has grown for the first   *)
(* thread may never grow again for those that wait.                        *)
(***************************************************************************)
Needed == Cardinality(Workers) - Cardinality(Downloads) + 1
EnoughHandles ==
    /\ \A d \in Downloads : \E w \in Workers : DownloadOf[w] = d
    /\ Needed <= 2 /\ Needed <= SureHandles /\ Needed <= MaxConnections

(* Who holds lock_ is asking for a url. *)
AskingPcs == {"look", "grow", "growing", "notifyNew", "take", "asleep",
              "perform", "release", "notify", "renewed"}
Locking ==
    \A d \in Downloads : lock[d] # Nobody =>
        DownloadOf[lock[d]] = d /\ request[lock[d]] = "url" /\ pc[lock[d]] \in AskingPcs

(* The pool has what is needed, or is about to, but for the time before it first grew. *)
NotBegun ==
    /\ poolSize = 0 /\ containerLock = Nobody /\ resources = <<>>
    /\ \A w \in Workers : pc[w] \in {"next", "look", "grow", "done"}
Begun == poolSize + added + toAdd >= Needed \/ NotBegun

StuckInv == Inv /\ Locking /\ Begun

-----------------------------------------------------------------------------
LEMMA InitStuck == ASSUME Init PROVE Locking /\ Begun
BY DEF Init, Locking, Begun, NotBegun

\* A thread that neither takes nor gives lock_, and asks for what it asked for.
LEMMA LockingStays ==
    ASSUME Inv, Locking, NEW w \in Workers, NEW l, Goto(w, l), UNCHANGED <<lock, request>>,
           request[w] = "url" /\ pc[w] \in AskingPcs => l \in AskingPcs
    PROVE  Locking'
BY DEF Inv, TypeOK, WorkersOK, DownloadsOK, Locking, Goto

LEMMA NotifyLocking ==
    ASSUME Inv, Locking, NEW w \in Workers, Notify(w)
    PROVE  Locking'
<1> USE DEF Inv, TypeOK, WorkersOK, DownloadsOK
<1>1. PICK l : /\ WakeOne(w, l) /\ (request[w] = "url" => l \in AskingPcs)
               /\ UNCHANGED <<lock, request>>
  BY DEF Notify, AfterRequest, AskingPcs
<1>2. CASE Goto(w, l)
  BY <1>1, <1>2, LockingStays
<1>3. CASE \E v \in Workers : pc' = [pc EXCEPT ![w] = l, ![v] = "take"]
  BY <1>1, <1>3 DEF Locking, AskingPcs
<1> QED BY <1>1, <1>2, <1>3 DEF WakeOne

LEMMA PoolLocking ==
    ASSUME Inv, Locking, NEW w \in Workers, Pool(w)
    PROVE  Locking'
<1>1. CASE Look(w) \/ EnterGrow(w) \/ LeaveGrow(w) \/ Take(w) \/ Release(w)
  <2>1. PICK l : Goto(w, l) /\ l \in AskingPcs /\ UNCHANGED <<lock, request>>
    BY <1>1 DEF Look, EnterGrow, LeaveGrow, Take, Release, AskingPcs
  <2> QED BY <2>1, LockingStays
<1>2. CASE AddHandle(w)
  <2>1. CASE Goto(w, "notifyNew")
    BY <1>2, <2>1, LockingStays DEF AddHandle, AskingPcs
  <2>2. CASE UNCHANGED pc
    BY <1>2, <2>2 DEF AddHandle, Locking
  <2> QED BY <1>2, <2>1, <2>2 DEF AddHandle
<1>3. CASE Notify(w)
  BY <1>3, NotifyLocking
<1> QED BY <1>1, <1>2, <1>3 DEF Pool

LEMMA WorkLocking ==
    ASSUME Inv, Locking, NEW w \in Workers, Work(w)
    PROVE  Locking'
<1> USE DEF Inv, TypeOK, WorkersOK, DownloadsOK
<1>1. DownloadOf[w] \in Downloads /\ w # Nobody
  BY WorkersAssumption
<1>2. CASE Perform(w)
  BY <1>2, LockingStays DEF Perform, AskingPcs
<1>3. CASE Callback(w) \/ Store(w)
  BY <1>3, LockingStays DEF Callback, Store, AskingPcs
<1>4. CASE NextPart(w)
  <2>1. \A d \in Downloads : lock[d] # w
    BY <1>1, <1>4 DEF NextPart, Locking, AskingPcs
  <2> QED BY <1>4, <2>1 DEF NextPart, Locking, Goto
<1>5. CASE CheckOutcome(w)
  <2>1. \A d \in Downloads : lock[d] # w
    BY <1>1, <1>5 DEF CheckOutcome, Locking, AskingPcs
  <2> QED BY <1>1, <1>5, <2>1 DEF CheckOutcome, Locking, Goto, AskingPcs
<1>6. CASE Renewed(w)
  <2>1. \A d \in Downloads : lock'[d] # Nobody => lock'[d] = lock[d] /\ lock[d] # w
    BY <1>1, <1>6 DEF Renewed, Locking
  <2> QED BY <1>1, <1>6, <2>1 DEF Renewed, Locking, Goto
<1> QED BY <1>2, <1>3, <1>4, <1>5, <1>6 DEF Work

-----------------------------------------------------------------------------
LEMMA NeededIsNumber ==
    ASSUME EnoughHandles
    PROVE  Needed \in Int
<1> DEFINE one == [d \in Downloads |-> CHOOSE w \in Workers : DownloadOf[w] = d]
<1>1. one \in [Downloads -> Workers] /\ \A d \in Downloads : DownloadOf[one[d]] = d
  BY DEF EnoughHandles
<1> HIDE DEF one
<1>2. one \in Injection(Downloads, Workers)
  BY <1>1 DEF Injection, IsInjective
<1>3. IsFiniteSet(Downloads)
  BY <1>2, FS_Injection, WorkersAssumption
<1> QED BY <1>3, FS_CardinalityType, WorkersAssumption DEF Needed

LEMMA BegunStays ==
    ASSUME Begun, ~NotBegun, EnoughHandles, poolSize' + added' + toAdd' = poolSize + added + toAdd
    PROVE  Begun'
BY DEF Begun, Needed

LEMMA WorkBegun ==
    ASSUME Inv, Begun, EnoughHandles, NEW w \in Workers, Work(w)
    PROVE  Begun'
<1>1. UNCHANGED pool
  BY DEF Work, Perform, Callback, NextPart, CheckOutcome, Renewed, Store
<1>2. CASE NotBegun
  <2>1. NextPart(w)
    BY <1>2 DEF Work, NotBegun, Perform, Callback, CheckOutcome, Renewed, Store
  <2>2. \A v \in Workers : pc'[v] \in {"next", "look", "grow", "done"}
    BY <1>2, <2>1 DEF NextPart, NotBegun, Goto, Inv, TypeOK, WorkersOK
  <2> QED BY <1>1, <1>2, <2>2 DEF pool, Begun, NotBegun
<1>3. CASE ~NotBegun
  BY <1>1, <1>3, BegunStays DEF pool
<1> QED BY <1>2, <1>3

LEMMA PoolBegun ==
    ASSUME Inv, Begun, EnoughHandles, NEW w \in Workers, Pool(w)
    PROVE  Begun'
<1>1. /\ poolSize \in Nat /\ added \in Nat /\ toAdd \in Nat
      /\ MaxConnections \in Nat /\ SureHandles \in Nat /\ Needed \in Int
      /\ Needed <= 2 /\ Needed <= SureHandles /\ Needed <= MaxConnections
  BY PoolAssumption, NeededIsNumber DEF Inv, TypeOK, PoolOK, EnoughHandles
<1>2. CASE Look(w)
  <2>1. CASE NotBegun
    <3>1. \A v \in Workers : pc'[v] \in {"next", "look", "grow", "done"}
      BY <1>2, <2>1 DEF Look, NotBegun, Goto, Inv, TypeOK, WorkersOK
    <3> QED BY <1>2, <2>1, <3>1 DEF Look, pool, Begun, NotBegun
  <2>2. CASE ~NotBegun
    BY <1>2, <2>2, BegunStays DEF Look, pool
  <2> QED BY <2>1, <2>2
<1>3. CASE EnterGrow(w)
  <2>1. toAdd = 0 /\ added = 0 /\ poolSize' = poolSize /\ added' = 0 /\ toAdd' = AmountToAdd
    BY <1>3 DEF EnterGrow, Inv, Growing
  <2>2. AmountToAdd \in Nat
    BY AmountBound DEF Inv, TypeOK, PoolOK
  <2>3. poolSize = 0 => AmountToAdd >= Needed
    BY <1>1 DEF AmountToAdd
  <2>4. poolSize' + added' + toAdd' >= Needed
    BY <1>1, <2>1, <2>2, <2>3 DEF Begun, NotBegun
  <2>5. Needed' = Needed
    BY DEF Needed
  <2> QED BY <2>4, <2>5 DEF Begun
<1>4. CASE AddHandle(w)
  <2>1. ~NotBegun
    BY <1>4 DEF AddHandle, NotBegun
  <2>2. CASE added' = added + 1 /\ toAdd' = toAdd - 1
    BY <1>1, <1>4, <2>1, <2>2, BegunStays DEF AddHandle
  <2>3. CASE poolSize + added >= SureHandles /\ toAdd' = 0 /\ added' = added
    <3>1. poolSize' + added' + toAdd' >= Needed
      BY <1>1, <1>4, <2>3 DEF AddHandle
    <3> QED BY <3>1 DEF Begun, Needed
  <2> QED BY <1>4, <2>2, <2>3 DEF AddHandle
<1>5. CASE LeaveGrow(w)
  <2>1. ~NotBegun
    BY <1>5 DEF LeaveGrow, NotBegun
  <2> QED BY <1>1, <1>5, <2>1, BegunStays DEF LeaveGrow
<1>6. CASE Take(w) \/ Release(w) \/ Notify(w)
  <2>1. ~NotBegun
    <3>1. pc[w] \in {"take", "release", "notify", "notifyNew"}
      BY <1>6 DEF Take, Release, Notify
    <3> QED BY <3>1 DEF NotBegun
  <2> QED BY <1>6, <2>1, BegunStays DEF Take, Release, Notify, pool
<1> QED BY <1>2, <1>3, <1>4, <1>5, <1>6 DEF Pool

LEMMA NextStuck == ASSUME StuckInv, EnoughHandles, Inv', [Next]_vars PROVE StuckInv'
<1>1. ASSUME NEW w \in Workers, Pool(w) PROVE StuckInv'
  BY <1>1, PoolLocking, PoolBegun DEF StuckInv
<1>2. ASSUME NEW w \in Workers, Work(w) PROVE StuckInv'
  BY <1>2, WorkLocking, WorkBegun DEF StuckInv
<1>3. CASE UNCHANGED vars
  BY <1>3 DEF vars, pool, StuckInv, Locking, Begun, NotBegun, Needed
<1> QED BY <1>1, <1>2, <1>3 DEF Next

-----------------------------------------------------------------------------
\* A thread of each download has no handle when all who have one wait for lock_.
LEMMA FewHolders ==
    ASSUME StuckInv, EnoughHandles,
           \A w \in Holders : ~IsFree(w),
           \A d \in Downloads : lock[d] # Nobody => lock[d] \notin Holders
    PROVE  Cardinality(Holders) < Needed
<1> DEFINE spare == Workers \ Holders
           first == [d \in Downloads |-> CHOOSE w \in spare : DownloadOf[w] = d]
<1>1. IsFiniteSet(Workers) /\ Holders \in SUBSET Workers
  BY WorkersAssumption DEF Holders
<1>2. /\ IsFiniteSet(Holders) /\ IsFiniteSet(spare) /\ Cardinality(Workers) \in Nat
      /\ Cardinality(Holders) \in Nat /\ Cardinality(spare) \in Nat
  BY <1>1, FS_Subset, FS_Difference, FS_CardinalityType
<1>3. Cardinality(spare) = Cardinality(Workers) - Cardinality(Holders)
  <2>1. Workers \cap Holders = Holders
    BY <1>1
  <2> QED BY <1>1, <2>1, FS_Difference
<1>4. ASSUME NEW d \in Downloads PROVE \E w \in spare : DownloadOf[w] = d
  <2>1. CASE lock[d] # Nobody
    BY <2>1 DEF StuckInv, Locking, Inv, TypeOK, DownloadsOK
  <2>2. CASE lock[d] = Nobody
    BY <2>2 DEF EnoughHandles, IsFree
  <2> QED BY <2>1, <2>2
<1>5. first \in [Downloads -> spare] /\ \A d \in Downloads : DownloadOf[first[d]] = d
  BY <1>4
<1> HIDE DEF first
<1>6. first \in Injection(Downloads, spare)
  BY <1>5 DEF Injection, IsInjective
<1>7. IsFiniteSet(Downloads) /\ Cardinality(Downloads) <= Cardinality(spare)
  BY <1>2, <1>6, FS_Injection
<1>8. Cardinality(Downloads) \in Nat
  BY <1>7, FS_CardinalityType
<1> QED BY <1>2, <1>3, <1>7, <1>8 DEF Needed

\* Where nobody can go on, those that have handles wait for lock_, and those that have lock_ sleep: but then all handles are
\* in use, and there is one more of them than threads that can be waiting so.
LEMMA NotStuck == ASSUME StuckInv, EnoughHandles PROVE NeverStuck
<1> SUFFICES ASSUME NEW x \in Workers, pc[x] # "done", \A w \in Workers : Blocked(w)
             PROVE  FALSE
  BY DEF NeverStuck
<1> USE DEF StuckInv, Inv, TypeOK, WorkersOK, DownloadsOK
<1>1. containerLock = Nobody
  <2>1. \A w \in Workers : pc[w] \notin InGrow
    BY DEF Blocked, InGrow
  <2> QED BY <2>1 DEF Growing, PoolOK
<1>2. toAdd = 0 /\ added = 0
  BY <1>1 DEF Growing
<1>3. \A w \in Workers : /\ pc[w] \in {"asleep", "done", "next", "callback", "check", "store"}
                         /\ pc[w] \notin {"asleep", "done"} => ~IsFree(w)
  BY <1>1 DEF Blocked
<1>4. \A d \in Downloads : lock[d] # Nobody => lock[d] \in Asleep
  BY <1>3 DEF Locking, AskingPcs, Asleep
<1>5. Asleep # {}
  BY <1>3, <1>4, WorkersAssumption DEF Asleep, IsFree
<1>6. Stirring = {}
  BY <1>3 DEF Stirring
<1>7. Len(resources) = 0
  <2>1. Len(resources) \in Nat
    BY LenProperties DEF PoolOK
  <2> QED BY <1>5, <1>6, <2>1, FS_EmptySet DEF NoHandleIsForgotten
<1>8. \A w \in Holders : pc[w] = "callback"
  BY <1>3 DEF Holders, Holding, Using
<1>9. Cardinality(Holders) < Needed
  <2>1. \A w \in Holders : ~IsFree(w)
    BY <1>3, <1>8 DEF Holders
  <2>2. \A d \in Downloads : lock[d] # Nobody => lock[d] \notin Holders
    BY <1>4, <1>8 DEF Asleep
  <2> HIDE DEF StuckInv, Inv, TypeOK, WorkersOK, DownloadsOK
  <2> QED BY <2>1, <2>2, FewHolders
<1>10. ~NotBegun
  BY <1>5 DEF NotBegun, Asleep
<1>11. poolSize >= Needed /\ poolSize = Cardinality(Holders)
  BY <1>2, <1>7, <1>10, ThreadSets DEF Begun, HandlesAccounted, PoolOK
<1> QED BY <1>9, <1>11, NeededIsNumber, ThreadSets

\* The holders of handles that wait for lock_ and the holders of lock_ that wait for a handle never make up the whole client,
\* however many callers it has, if there is a handle more than threads beyond the first of each download and the pool begins
\* with so many: so it is with downloads of one thread but one of two.
THEOREM ThreadsNeverStuck == ASSUME EnoughHandles PROVE Spec => []NeverStuck
<1>1. Init => StuckInv
  BY InitInv, InitStuck DEF StuckInv
<1>2. StuckInv /\ [Next]_vars => StuckInv'
  BY NextInv, NextStuck DEF StuckInv
<1>3. StuckInv => NeverStuck
  BY NotStuck
<1> QED BY <1>1, <1>2, <1>3, PTL DEF Spec

=============================================================================
