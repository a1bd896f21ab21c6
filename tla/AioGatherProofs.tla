-------------------------- MODULE AioGatherProofs ---------------------------
(***************************************************************************)
(* Theorems about AioGather for any number of awaitables.  IInv is the     *)
(* inductive invariant behind all of them.                                 *)
(***************************************************************************)
EXTENDS AioGather, FiniteSetTheorems, FunctionTheorems, SequenceTheorems, TLAPS

-----------------------------------------------------------------------------
(* The inductive invariant *)

\* Until the children are spawned nothing has happened; then all are spawned.
SpawnedAtOnce ==
  /\ host = "spawning" =>
       /\ \A t \in Task : child[t] = "unspawned"
       /\ task_res_q = <<>> /\ results = <<>>
       /\ ~scope /\ ~native
  /\ host # "spawning" => \A t \in Task : child[t] # "unspawned"

\* A queued pair was put by the child it names and says how that child ended.
QueueAgrees ==
  \A i \in 1..Len(task_res_q) :
    \/ /\ task_res_q[i].res = ResultOf(task_res_q[i].id)
       /\ child[task_res_q[i].id] = "returned"
    \/ child[task_res_q[i].id] \in {"raised", "cancelled"}

\* A pair the host took is a result of a child that returned.
ResultsAgree ==
  \A i \in 1..Len(results) :
    /\ results[i].res = ResultOf(results[i].id)
    /\ child[results[i].id] = "returned"

\* No child puts twice and no pair is taken twice.
DistinctIds ==
  /\ \A i, j \in 1..Len(task_res_q) :
       task_res_q[i].id = task_res_q[j].id => i = j
  /\ \A i, j \in 1..Len(results) : results[i].id = results[j].id => i = j
  /\ \A i \in 1..Len(task_res_q), j \in 1..Len(results) :
       task_res_q[i].id # results[j].id

\* The scope is cancelled as soon as something went wrong, and only then.
ScopeAgrees ==
  /\ ~scope => /\ hostExc = "none"
               /\ \A t \in Task : child[t] \notin {"raised", "cancelled"}
  /\ scope /\ SelfCancelling = {} => errors # {} \/ hostExc = "cancelled"

ErrorsAgree ==
  /\ errors = {t \in Task : child[t] = "raised"}
  /\ \A t, u \in errors : t = u
  /\ hostExc = "cancelled" => errors = {}

\* Where the host is and what it has seen.
HostAgrees ==
  /\ Len(results) <= N
  /\ host = "getting" => Len(results) < N /\ hostExc = "none"
  /\ host \in {"exiting", "returned", "raised", "cancelled"}
       => (scope \/ Len(results) = N) /\ (native => scope)
  /\ Ended => Pending = {}
  /\ host = "returned" => errors = {} /\ hostExc = "none"
  /\ host = "raised" => errors # {}
  /\ host = "cancelled" => errors = {} /\ hostExc = "cancelled"

IInv ==
  /\ TypeOK
  /\ SpawnedAtOnce
  /\ QueueAgrees
  /\ ResultsAgree
  /\ DistinctIds
  /\ ScopeAgrees
  /\ ErrorsAgree
  /\ HostAgrees

-----------------------------------------------------------------------------
(* Counting *)

LEMMA IntervalSize == \A n \in Nat : IsFiniteSet(1..n) /\ Cardinality(1..n) = n
<1>. TAKE n \in Nat
<1>. QED
  BY FS_Interval

\* When as many pairs as there are awaitables have been taken, each awaitable
\* has given one: an injective list of N task ids names every task.
LEMMA AllTaken ==
  ASSUME TypeOK, DistinctIds, Len(results) = N
  PROVE  \A t \in Task : \E i \in 1..N : results[i].id = t
<1>. DEFINE f == [i \in 1..N |-> results[i].id]
<1>1. \A i \in 1..N : results[i] \in Item
  BY ElementOfSeq DEF TypeOK
<1>2. f \in Injection(1..N, Task)
  BY <1>1, Fun_IsInj DEF DistinctIds, Item
<1>3. IsFiniteSet(Task) /\ Cardinality(1..N) = Cardinality(Task)
  BY NAssumption, IntervalSize DEF Task
<1>4. f \in Surjection(1..N, Task)
  BY <1>2, <1>3, FS_Injection
<1>. QED
  BY <1>4 DEF Surjection

\* As long as one child has not ended there is a free slot in the queue.
LEMMA SlotFree ==
  ASSUME IInv, NEW p \in Task, child[p] \in Live
  PROVE  Len(task_res_q) < QueueCapacity
<1>. DEFINE L == Len(task_res_q)
            f == [i \in 1..L |-> task_res_q[i].id]
            Others == Task \ {p}
<1>1. L \in Nat /\ \A i \in 1..L : task_res_q[i] \in Item
  BY ElementOfSeq, LenProperties DEF IInv, TypeOK
<1>2. \A i \in 1..L : task_res_q[i].id \in Others
  BY <1>1 DEF IInv, QueueAgrees, Item, Live
<1>3. f \in Injection(1..L, Others)
  BY <1>2, Fun_IsInj DEF IInv, DistinctIds
<1>4. IsFiniteSet(Task) /\ Cardinality(Task) = N
  BY NAssumption, IntervalSize DEF Task
<1>5. IsFiniteSet(Others) /\ Cardinality(Others) = N - 1
  BY <1>4, FS_RemoveElement
<1>6. Cardinality(1..L) <= N - 1
  BY <1>3, <1>5, FS_Injection
<1>7. Cardinality(1..L) = L
  BY <1>1, IntervalSize
<1>. QED
  BY <1>1, <1>6, <1>7, NAssumption DEF QueueCapacity

-----------------------------------------------------------------------------
(* IInv is inductive *)

LEMMA InitIInv == Init => IInv
<1>. SUFFICES ASSUME Init PROVE IInv
  OBVIOUS
<1>1. TypeOK
  BY EmptySeq DEF Init, TypeOK, ChildState, HostState
<1>2. SpawnedAtOnce /\ QueueAgrees /\ ResultsAgree /\ DistinctIds
  BY EmptySeq DEF Init, SpawnedAtOnce, QueueAgrees, ResultsAgree, DistinctIds
<1>3. ScopeAgrees /\ ErrorsAgree /\ HostAgrees
  BY EmptySeq, NAssumption
  DEF Init, ScopeAgrees, ErrorsAgree, HostAgrees, Ended
<1>. QED
  BY <1>1, <1>2, <1>3 DEF IInv

\* Every pair names a task.
LEMMA PairIds ==
  ASSUME TypeOK
  PROVE  /\ Len(task_res_q) \in Nat /\ Len(results) \in Nat
         /\ \A i \in 1..Len(task_res_q) :
              task_res_q[i] \in Item /\ task_res_q[i].id \in Task
         /\ \A i \in 1..Len(results) :
              results[i] \in Item /\ results[i].id \in Task
<1>1. task_res_q \in Seq(Item) /\ results \in Seq(Item)
  BY DEF TypeOK
<1>2. \A p \in Item : p.id \in Task
  BY DEF Item
<1>. QED
  BY <1>1, <1>2, ElementOfSeq, LenProperties

LEMMA SpawnIInv == IInv /\ Spawn => IInv'
<1>. SUFFICES ASSUME IInv, Spawn PROVE IInv'
  OBVIOUS
<1>. USE DEF IInv, Spawn
<1>1. TypeOK'
  BY DEF TypeOK, ChildState, Live, HostState
<1>2. SpawnedAtOnce' /\ QueueAgrees' /\ ResultsAgree' /\ DistinctIds'
  BY EmptySeq DEF SpawnedAtOnce, QueueAgrees, ResultsAgree, DistinctIds, TypeOK
<1>3. ScopeAgrees' /\ ErrorsAgree' /\ HostAgrees'
  BY EmptySeq, NAssumption
  DEF ScopeAgrees, ErrorsAgree, HostAgrees, SpawnedAtOnce, Ended, TypeOK
<1>. QED
  BY <1>1, <1>2, <1>3

\* What the three actions that put have in common: the new pair names a child
\* that no pair named before.
LEMMA PutDistinct ==
  ASSUME IInv, NEW t \in Task, child[t] \in Live,
         NEW res \in {"value", "error"} \X Task, Put(t, res),
         results' = results
  PROVE  /\ task_res_q' \in Seq(Item)
         /\ Len(task_res_q') = Len(task_res_q) + 1
         /\ \A i \in 1..Len(task_res_q) : task_res_q'[i] = task_res_q[i]
         /\ task_res_q'[Len(task_res_q) + 1] = [id |-> t, res |-> res]
         /\ \A i \in 1..Len(task_res_q) : task_res_q[i].id # t
         /\ \A i \in 1..Len(results) : results[i].id # t
         /\ DistinctIds'
<1>. DEFINE item == [id |-> t, res |-> res]
            L == Len(task_res_q)
<1>1. task_res_q \in Seq(Item) /\ results \in Seq(Item) /\ L \in Nat
  BY LenProperties DEF IInv, TypeOK
<1>2. item \in Item
  BY DEF Item
<1>3. task_res_q' = Append(task_res_q, item)
  BY DEF Put, Pair
<1>4. /\ task_res_q' \in Seq(Item)
      /\ Len(task_res_q') = L + 1
      /\ \A i \in 1..L : task_res_q'[i] = task_res_q[i]
      /\ task_res_q'[L + 1] = item
  BY <1>1, <1>2, <1>3, AppendProperties
<1>5. \A i \in 1..L : task_res_q[i].id # t
  BY DEF IInv, QueueAgrees, ResultOf, Live
<1>6. \A i \in 1..Len(results) : results[i].id # t
  BY DEF IInv, ResultsAgree, Live
<1>7. item.id = t
  OBVIOUS
<1>8. ASSUME NEW i \in 1..Len(task_res_q'), NEW j \in 1..Len(task_res_q'),
             task_res_q'[i].id = task_res_q'[j].id
      PROVE  i = j
  <2>1. CASE i \in 1..L /\ j \in 1..L
    BY <1>4, <1>8, <2>1 DEF IInv, DistinctIds
  <2>2. \A k \in 1..L : task_res_q'[k].id # t
    BY <1>4, <1>5
  <2>3. task_res_q'[L + 1].id = t
    BY <1>4, <1>7
  <2>4. (i \in 1..L \/ i = L + 1) /\ (j \in 1..L \/ j = L + 1)
    BY <1>1, <1>4
  <2>. QED
    BY <1>8, <2>1, <2>2, <2>3, <2>4
<1>9. ASSUME NEW i \in 1..Len(task_res_q'), NEW j \in 1..Len(results)
      PROVE  task_res_q'[i].id # results[j].id
  <2>1. CASE i \in 1..L
    BY <1>4, <2>1 DEF IInv, DistinctIds
  <2>2. CASE i = L + 1
    BY <1>4, <1>6, <1>7, <2>2
  <2>. QED
    BY <1>1, <1>4, <2>1, <2>2
<1>10. DistinctIds'
  <2>1. \A i, j \in 1..Len(results') : results'[i].id = results'[j].id => i = j
    BY DEF IInv, DistinctIds
  <2>. QED
    BY <1>8, <1>9, <2>1 DEF DistinctIds
<1>. QED
  BY <1>4, <1>5, <1>6, <1>10

LEMMA ChildReturnsIInv ==
  ASSUME IInv, NEW t \in Task, ChildReturns(t)
  PROVE  IInv'
<1>. DEFINE L == Len(task_res_q)
<1>. USE DEF ChildReturns, MayRun, Live
<1>1. ResultOf(t) \in {"value", "error"} \X Task
  BY DEF ResultOf
<1>2. /\ task_res_q' \in Seq(Item)
      /\ Len(task_res_q') = L + 1
      /\ \A i \in 1..L : task_res_q'[i] = task_res_q[i]
      /\ task_res_q'[L + 1] = [id |-> t, res |-> ResultOf(t)]
      /\ \A i \in 1..L : task_res_q[i].id # t
      /\ \A i \in 1..Len(results) : results[i].id # t
      /\ DistinctIds'
  BY <1>1, PutDistinct
<1>3. /\ child \in [Task -> ChildState] /\ L \in Nat
      /\ child'[t] = "returned"
      /\ \A u \in Task : u # t => child'[u] = child[u]
      /\ \A i \in 1..L : task_res_q[i].id \in Task
      /\ \A i \in 1..Len(results) : results[i].id \in Task
  BY PairIds DEF IInv, TypeOK
<1>4. TypeOK'
  BY <1>2 DEF IInv, TypeOK, ChildState
<1>5. SpawnedAtOnce'
  BY <1>3 DEF IInv, SpawnedAtOnce
<1>6. QueueAgrees'
  <2>1. ASSUME NEW i \in 1..L
        PROVE  /\ task_res_q'[i] = task_res_q[i]
               /\ child'[task_res_q[i].id] = child[task_res_q[i].id]
    BY <1>2, <1>3
  <2>2. ASSUME NEW i \in 1..L
        PROVE  \/ /\ task_res_q'[i].res = ResultOf(task_res_q'[i].id)
                  /\ child'[task_res_q'[i].id] = "returned"
               \/ child'[task_res_q'[i].id] \in {"raised", "cancelled"}
    BY <2>1 DEF IInv, QueueAgrees
  <2>3. /\ task_res_q'[L + 1].res = ResultOf(task_res_q'[L + 1].id)
        /\ child'[task_res_q'[L + 1].id] = "returned"
    BY <1>2, <1>3
  <2>. QED
    BY <1>2, <1>3, <2>2, <2>3 DEF QueueAgrees
<1>7. ResultsAgree'
  BY <1>2, <1>3 DEF IInv, ResultsAgree
<1>8. ScopeAgrees' /\ ErrorsAgree'
  BY <1>3 DEF IInv, ScopeAgrees, ErrorsAgree
<1>9. HostAgrees'
  BY <1>3 DEF IInv, HostAgrees, Ended, Pending
<1>. QED
  BY <1>2, <1>4, <1>5, <1>6, <1>7, <1>8, <1>9 DEF IInv

\* A child that ends with an exception: its own failure or a CancelledError.
LEMMA ChildFailsIInv ==
  ASSUME IInv, NEW t \in Task, ChildRaises(t) \/ ChildSelfCancels(t)
  PROVE  IInv'
<1>. DEFINE L == Len(task_res_q)
<1>1. /\ child[t] \in Live /\ Put(t, ExceptionOf(t)) /\ scope'
      /\ UNCHANGED <<host, hostExc, results, native>>
  BY DEF ChildRaises, ChildSelfCancels, Report, MayRun, Live
<1>2. ExceptionOf(t) \in {"value", "error"} \X Task
  BY DEF ExceptionOf
<1>3. /\ task_res_q' \in Seq(Item)
      /\ Len(task_res_q') = L + 1
      /\ \A i \in 1..L : task_res_q'[i] = task_res_q[i]
      /\ task_res_q'[L + 1] = [id |-> t, res |-> ExceptionOf(t)]
      /\ \A i \in 1..L : task_res_q[i].id # t
      /\ \A i \in 1..Len(results) : results[i].id # t
      /\ DistinctIds'
  BY <1>1, <1>2, PutDistinct
<1>4. /\ child' \in [Task -> ChildState] /\ L \in Nat
      /\ child'[t] \in {"raised", "cancelled"}
      /\ \A u \in Task : u # t => child'[u] = child[u]
      /\ \A i \in 1..L : task_res_q[i].id \in Task
      /\ \A i \in 1..Len(results) : results[i].id \in Task
  BY PairIds DEF IInv, TypeOK, ChildState, ChildRaises, ChildSelfCancels, Report
<1>5. ~scope /\ errors = {} /\ hostExc = "none"
  BY <1>1 DEF Put, IInv, ScopeAgrees, ErrorsAgree
<1>6. TypeOK'
  BY <1>1, <1>3, <1>4 DEF IInv, TypeOK, ChildRaises, ChildSelfCancels, Report
<1>7. SpawnedAtOnce'
  BY <1>1, <1>4 DEF IInv, SpawnedAtOnce, Live
<1>8. QueueAgrees'
  <2>1. ASSUME NEW i \in 1..L
        PROVE  /\ task_res_q'[i] = task_res_q[i]
               /\ child'[task_res_q[i].id] = child[task_res_q[i].id]
    BY <1>3, <1>4
  <2>2. ASSUME NEW i \in 1..L
        PROVE  \/ /\ task_res_q'[i].res = ResultOf(task_res_q'[i].id)
                  /\ child'[task_res_q'[i].id] = "returned"
               \/ child'[task_res_q'[i].id] \in {"raised", "cancelled"}
    BY <2>1 DEF IInv, QueueAgrees
  <2>3. child'[task_res_q'[L + 1].id] \in {"raised", "cancelled"}
    BY <1>3, <1>4
  <2>. QED
    BY <1>3, <1>4, <2>2, <2>3 DEF QueueAgrees
<1>9. ResultsAgree'
  BY <1>1, <1>3, <1>4 DEF IInv, ResultsAgree
<1>10. ErrorsAgree'
  <2>1. \A u \in Task : child[u] # "raised"
    BY <1>5 DEF IInv, ErrorsAgree
  <2>2. CASE ChildRaises(t)
    <3>1. errors' = {t} /\ child'[t] = "raised"
      BY <1>4, <1>5, <2>2 DEF ChildRaises, Report, IInv, TypeOK
    <3>. QED
      BY <1>1, <1>4, <1>5, <2>1, <3>1 DEF ErrorsAgree
  <2>3. CASE ChildSelfCancels(t)
    <3>1. errors' = {} /\ child'[t] = "cancelled"
      BY <1>4, <1>5, <2>3 DEF ChildSelfCancels, IInv, TypeOK
    <3>. QED
      BY <1>1, <1>4, <2>1, <3>1 DEF ErrorsAgree
  <2>. QED
    BY <2>2, <2>3
<1>11. ScopeAgrees'
  BY <1>1, <1>5 DEF ScopeAgrees, ChildRaises, ChildSelfCancels, Report
<1>12. HostAgrees'
  <2>1. host \notin {"returned", "raised", "cancelled"}
    BY <1>1 DEF IInv, HostAgrees, Ended, Pending
  <2>. QED
    BY <1>1, <1>4, <2>1 DEF IInv, HostAgrees, Ended
<1>. QED
  BY <1>3, <1>6, <1>7, <1>8, <1>9, <1>10, <1>11, <1>12 DEF IInv

\* A first step that ends in a suspension.
LEMMA ChildBeginsIInv ==
  ASSUME IInv, NEW t \in Task, ChildBegins(t)
  PROVE  IInv'
<1>. USE DEF ChildBegins
<1>1. /\ child' \in [Task -> ChildState]
      /\ child[t] = "spawned" /\ child'[t] \in {"pending", "unreached"}
      /\ \A u \in Task : u # t => child'[u] = child[u]
      /\ \A i \in 1..Len(task_res_q) : task_res_q[i].id \in Task
      /\ \A i \in 1..Len(results) : results[i].id \in Task
  BY PairIds DEF IInv, TypeOK, ChildState, Live
<1>2. Pending' = Pending
  BY <1>1 DEF Pending, Live
<1>3. TypeOK' /\ SpawnedAtOnce' /\ DistinctIds'
  BY <1>1 DEF IInv, TypeOK, SpawnedAtOnce, DistinctIds
<1>4. QueueAgrees' /\ ResultsAgree'
  BY <1>1 DEF IInv, QueueAgrees, ResultsAgree
<1>5. ScopeAgrees' /\ ErrorsAgree'
  BY <1>1 DEF IInv, ScopeAgrees, ErrorsAgree
<1>6. HostAgrees'
  BY <1>2 DEF IInv, HostAgrees, Ended
<1>. QED
  BY <1>3, <1>4, <1>5, <1>6 DEF IInv

LEMMA ChildCancelledIInv ==
  ASSUME IInv, NEW t \in Task, ChildCancelled(t)
  PROVE  IInv'
<1>. USE DEF ChildCancelled, MayRun, Live
<1>1. /\ child' \in [Task -> ChildState]
      /\ child'[t] = "cancelled"
      /\ \A u \in Task : u # t => child'[u] = child[u]
      /\ \A i \in 1..Len(task_res_q) : task_res_q[i].id \in Task
      /\ \A i \in 1..Len(results) : results[i].id \in Task
  BY PairIds DEF IInv, TypeOK, ChildState
<1>2. TypeOK' /\ SpawnedAtOnce' /\ DistinctIds'
  BY <1>1 DEF IInv, TypeOK, SpawnedAtOnce, DistinctIds
<1>3. QueueAgrees' /\ ResultsAgree'
  BY <1>1 DEF IInv, QueueAgrees, ResultsAgree
<1>4. ScopeAgrees' /\ ErrorsAgree' /\ HostAgrees'
  BY <1>1 DEF IInv, ScopeAgrees, ErrorsAgree, HostAgrees, Ended, Pending
<1>. QED
  BY <1>2, <1>3, <1>4 DEF IInv

LEMMA HostGetsIInv == IInv /\ HostGets => IInv'
<1>. SUFFICES ASSUME IInv, HostGets PROVE IInv'
  OBVIOUS
<1>. DEFINE K == Len(results)
            L == Len(task_res_q)
            head == Head(task_res_q)
<1>. USE DEF HostGets, PairsAwaited
<1>1. /\ task_res_q \in Seq(Item) /\ results \in Seq(Item)
      /\ K \in Nat /\ L \in Nat /\ L > 0
      /\ \A i \in 1..L : task_res_q[i] \in Item /\ task_res_q[i].id \in Task
      /\ head = task_res_q[1]
  BY PairIds, LenProperties, EmptySeq, HeadTailProperties DEF IInv, TypeOK
<1>2. /\ task_res_q' \in Seq(Item)
      /\ Len(task_res_q') = L - 1
      /\ \A i \in 1..(L - 1) : task_res_q'[i] = task_res_q[i + 1]
  BY <1>1, HeadTailProperties
<1>3. /\ results' \in Seq(Item)
      /\ Len(results') = K + 1
      /\ \A i \in 1..K : results'[i] = results[i]
      /\ results'[K + 1] = head
  BY <1>1, AppendProperties
<1>4. head.res = ResultOf(head.id) /\ child[head.id] = "returned"
  BY <1>1 DEF IInv, QueueAgrees, ScopeAgrees
<1>5. TypeOK'
  BY <1>2, <1>3 DEF IInv, TypeOK, HostState
<1>6. SpawnedAtOnce'
  BY DEF IInv, SpawnedAtOnce
<1>7. QueueAgrees'
  BY <1>1, <1>2 DEF IInv, QueueAgrees
<1>8. ResultsAgree'
  BY <1>1, <1>3, <1>4 DEF IInv, ResultsAgree
<1>9. DistinctIds'
  <2>1. ASSUME NEW i \in 1..(L - 1), NEW j \in 1..(L - 1),
               task_res_q'[i].id = task_res_q'[j].id
        PROVE  i = j
    <3>1. i + 1 \in 1..L /\ j + 1 \in 1..L
      BY <1>1
    <3>2. i + 1 = j + 1
      BY <1>2, <2>1, <3>1 DEF IInv, DistinctIds
    <3>. QED
      BY <3>2
  <2>2. \A j \in 1..K : results[j].id # head.id
    BY <1>1 DEF IInv, DistinctIds
  <2>3. \A i, j \in 1..(K + 1) : results'[i].id = results'[j].id => i = j
    BY <1>1, <1>3, <2>2 DEF IInv, DistinctIds
  <2>4. ASSUME NEW i \in 1..(L - 1), NEW j \in 1..(K + 1)
        PROVE  task_res_q'[i].id # results'[j].id
    <3>1. i + 1 \in 1..L /\ 1 \in 1..L /\ i + 1 # 1
      BY <1>1
    <3>2. task_res_q'[i] = task_res_q[i + 1]
      BY <1>2
    <3>3. CASE j \in 1..K
      BY <1>3, <3>1, <3>2, <3>3 DEF IInv, DistinctIds
    <3>4. CASE j = K + 1
      BY <1>1, <1>3, <3>1, <3>2, <3>4 DEF IInv, DistinctIds
    <3>. QED
      BY <1>1, <3>3, <3>4
  <2>. QED
    BY <1>2, <1>3, <2>1, <2>3, <2>4 DEF DistinctIds
<1>10. ScopeAgrees' /\ ErrorsAgree'
  BY DEF IInv, ScopeAgrees, ErrorsAgree
<1>11. HostAgrees'
  BY <1>1, <1>3, NAssumption DEF IInv, HostAgrees, Ended
<1>. QED
  BY <1>5, <1>6, <1>7, <1>8, <1>9, <1>10, <1>11 DEF IInv

LEMMA HostInterruptedIInv == IInv /\ HostInterrupted => IInv'
<1>. SUFFICES ASSUME IInv, HostInterrupted PROVE IInv'
  OBVIOUS
<1>. USE DEF IInv, HostInterrupted, ExceptionOfBody, ExceptionOfLoop
<1>1. TypeOK'
  BY DEF TypeOK, HostState
<1>2. SpawnedAtOnce' /\ QueueAgrees' /\ ResultsAgree' /\ DistinctIds'
  BY DEF SpawnedAtOnce, QueueAgrees, ResultsAgree, DistinctIds
<1>3. ~scope => errors = {}
  BY DEF ScopeAgrees, ErrorsAgree
<1>4. ScopeAgrees' /\ ErrorsAgree' /\ HostAgrees'
  BY <1>3 DEF ScopeAgrees, ErrorsAgree, HostAgrees, Ended
<1>. QED
  BY <1>1, <1>2, <1>4

\* A host that waits for children has a cancelled scope: had it taken N pairs
\* there would be nobody to wait for.
LEMMA WaitingMeansCancelled ==
  ASSUME IInv, host = "exiting", Pending # {}
  PROVE  scope
<1>1. PICK p \in Task : child[p] \in Live
  BY DEF Pending
<1>2. SUFFICES ASSUME Len(results) = N PROVE FALSE
  BY DEF IInv, HostAgrees
<1>3. PICK i \in 1..N : results[i].id = p
  BY <1>2, AllTaken DEF IInv
<1>. QED
  BY <1>1, <1>2, <1>3 DEF IInv, ResultsAgree, Live

LEMMA CancelHostIInv == IInv /\ CancelHost => IInv'
<1>. SUFFICES ASSUME IInv, CancelHost PROVE IInv'
  OBVIOUS
<1>. USE DEF CancelHost
<1>1. TypeOK' /\ SpawnedAtOnce' /\ QueueAgrees' /\ ResultsAgree' /\ DistinctIds'
  BY DEF IInv, TypeOK, SpawnedAtOnce, QueueAgrees, ResultsAgree, DistinctIds
<1>2. ScopeAgrees' /\ ErrorsAgree'
  BY DEF IInv, ScopeAgrees, ErrorsAgree
<1>3. HostAgrees'
  BY WaitingMeansCancelled DEF IInv, HostAgrees, Ended, Pending
<1>. QED
  BY <1>1, <1>2, <1>3 DEF IInv

LEMMA GroupExitIInv == IInv /\ GroupExit => IInv'
<1>. SUFFICES ASSUME IInv, GroupExit PROVE IInv'
  OBVIOUS
<1>. USE DEF GroupExit, ChildrenAwaited
<1>1. TypeOK' /\ SpawnedAtOnce' /\ QueueAgrees' /\ ResultsAgree' /\ DistinctIds'
  BY DEF IInv, TypeOK, HostState, SpawnedAtOnce, QueueAgrees, ResultsAgree,
         DistinctIds
<1>2. ScopeAgrees' /\ ErrorsAgree'
  BY DEF IInv, ScopeAgrees, ErrorsAgree
<1>3. HostAgrees'
  BY DEF IInv, TypeOK, HostAgrees, Ended, Pending, ErrorsAgree
<1>. QED
  BY <1>1, <1>2, <1>3 DEF IInv

LEMMA NextIInv == IInv /\ [Next]_vars => IInv'
<1>. SUFFICES ASSUME IInv, [Next]_vars PROVE IInv'
  OBVIOUS
<1>1. ASSUME NEW t \in Task, ChildStep(t) PROVE IInv'
  BY <1>1, ChildBeginsIInv, ChildReturnsIInv, ChildFailsIInv, ChildCancelledIInv
  DEF ChildStep
<1>2. CASE HostStep
  BY <1>2, SpawnIInv, HostGetsIInv, HostInterruptedIInv, GroupExitIInv
  DEF HostStep
<1>3. CASE CancelHost
  BY <1>3, CancelHostIInv
<1>4. CASE UNCHANGED vars
  BY <1>4
  DEF vars, IInv, TypeOK, SpawnedAtOnce, QueueAgrees, ResultsAgree, DistinctIds,
      ScopeAgrees, ErrorsAgree, HostAgrees, Ended, Pending
<1>. QED
  BY <1>1, <1>2, <1>3, <1>4 DEF Next, Terminated

THEOREM Invariance == Spec => []IInv
BY InitIInv, NextIInv, PTL DEF Spec

-----------------------------------------------------------------------------
(* Safety *)

\* Every variable keeps its type.
THEOREM TypeCorrect == Spec => []TypeOK
<1>1. IInv => TypeOK
  BY DEF IInv
<1>. QED
  BY <1>1, Invariance, PTL

\* aio_gather never hands a queued exception to its caller as a result.
THEOREM ResultsAreValues == Spec => []NoExceptionAsResult
<1>1. IInv => NoExceptionAsResult
  BY DEF IInv, ResultsAgree, ResultOf, NoExceptionAsResult
<1>. QED
  BY <1>1, Invariance, PTL

\* The task group of aio_gather has at most one exception to raise.
THEOREM OneFailure == Spec => []FirstFailureWins
<1>1. ASSUME IInv PROVE FirstFailureWins
  <2>1. CASE errors = {}
    BY <2>1, FS_EmptySet DEF FirstFailureWins
  <2>2. CASE errors # {}
    <3>1. PICK t \in Task : t \in errors
      BY <1>1, <2>2 DEF IInv, TypeOK
    <3>2. errors = {t}
      BY <1>1, <3>1 DEF IInv, ErrorsAgree
    <3>3. Cardinality(errors) = 1
      BY <3>2, FS_Singleton
    <3>. QED
      BY <3>3 DEF FirstFailureWins
  <2>. QED
    BY <2>1, <2>2
<1>. QED
  BY <1>1, Invariance, PTL

\* The queue of aio_gather has room for the pair of every child that is running.
THEOREM QueueHasRoom == Spec => []PutNeverBlocks
<1>1. ASSUME IInv PROVE PutNeverBlocks
  BY <1>1, SlotFree DEF PutNeverBlocks, Pending
<1>. QED
  BY <1>1, Invariance, PTL

\* The pair of a child that returned is in the queue or with the host.
Queued(t) == \E i \in 1..Len(task_res_q) : task_res_q[i].id = t
Received(t) == \E i \in 1..Len(results) : results[i].id = t
PairsKept == \A t \in Task : child[t] = "returned" => Queued(t) \/ Received(t)

LEMMA PutKeepsPairs ==
  ASSUME IInv, PairsKept, NEW t \in Task, ChildReturns(t) \/ ChildRaises(t) \/ ChildSelfCancels(t)
  PROVE  PairsKept'
<1>. DEFINE L == Len(task_res_q)
<1>1. PICK res \in {"value", "error"} \X Task : Put(t, res)
  BY DEF ChildReturns, ChildRaises, ChildSelfCancels, ResultOf, ExceptionOf
<1>2. /\ Len(task_res_q') = L + 1 /\ L \in Nat
      /\ \A i \in 1..L : task_res_q'[i] = task_res_q[i]
      /\ task_res_q'[L + 1].id = t
  BY <1>1, AppendProperties, LenProperties DEF IInv, TypeOK, Put, Pair, Item
<1>3. \A u \in Task : u # t => child'[u] = child[u]
  BY DEF ChildReturns, ChildRaises, ChildSelfCancels, IInv, TypeOK
<1>4. results' = results
  BY DEF ChildReturns, ChildRaises, ChildSelfCancels
<1>5. ASSUME NEW u \in Task, child'[u] = "returned"
      PROVE  \/ \E i \in 1..Len(task_res_q') : task_res_q'[i].id = u
             \/ \E i \in 1..Len(results') : results'[i].id = u
  <2>1. CASE u = t
    BY <1>2, <2>1
  <2>2. CASE u # t
    BY <1>2, <1>3, <1>4, <1>5, <2>2 DEF PairsKept, Queued, Received
  <2>. QED
    BY <2>1, <2>2
<1>. QED
  BY <1>5 DEF PairsKept, Queued, Received

LEMMA GetKeepsPairs ==
  ASSUME IInv, PairsKept, HostGets
  PROVE  PairsKept'
<1>. DEFINE K == Len(results)
            L == Len(task_res_q)
<1>1. /\ K \in Nat /\ L \in Nat /\ L > 0
      /\ task_res_q \in Seq(Item) /\ results \in Seq(Item)
      /\ Head(task_res_q) = task_res_q[1] /\ Head(task_res_q) \in Item
  BY LenProperties, EmptySeq, HeadTailProperties DEF HostGets, IInv, TypeOK
<1>2. /\ Len(task_res_q') = L - 1
      /\ \A i \in 1..(L - 1) : task_res_q'[i] = task_res_q[i + 1]
  BY <1>1, HeadTailProperties DEF HostGets
<1>3. /\ Len(results') = K + 1
      /\ \A i \in 1..K : results'[i] = results[i]
      /\ results'[K + 1] = task_res_q[1]
  BY <1>1, AppendProperties DEF HostGets
<1>4. ASSUME NEW t \in Task, child[t] = "returned"
      PROVE  \/ \E i \in 1..Len(task_res_q') : task_res_q'[i].id = t
             \/ \E i \in 1..Len(results') : results'[i].id = t
  <2>1. CASE Received(t)
    BY <1>1, <1>3, <2>1 DEF Received
  <2>2. ASSUME NEW i \in 1..L, task_res_q[i].id = t
        PROVE  \/ \E j \in 1..Len(task_res_q') : task_res_q'[j].id = t
               \/ \E j \in 1..Len(results') : results'[j].id = t
    <3>1. CASE i = 1
      <4>1. K + 1 \in 1..Len(results') /\ results'[K + 1].id = t
        BY <1>1, <1>3, <2>2, <3>1
      <4>. QED
        BY <4>1
    <3>2. CASE i # 1
      <4>1. i - 1 \in 1..(L - 1) /\ (i - 1) + 1 = i
        BY <1>1, <3>2
      <4>2. task_res_q'[i - 1].id = t
        BY <1>2, <2>2, <4>1
      <4>. QED
        BY <1>2, <4>1, <4>2
    <3>. QED
      BY <3>1, <3>2
  <2>. QED
    BY <1>4, <2>1, <2>2 DEF PairsKept, Queued
<1>5. child' = child
  BY DEF HostGets
<1>. QED
  BY <1>4, <1>5 DEF PairsKept, Queued, Received

LEMMA NextPairsKept == IInv /\ PairsKept /\ [Next]_vars => PairsKept'
<1>. SUFFICES ASSUME IInv, PairsKept, [Next]_vars PROVE PairsKept'
  OBVIOUS
<1>1. ASSUME NEW t \in Task, ChildCancelled(t) \/ ChildBegins(t) PROVE PairsKept'
  BY <1>1 DEF ChildCancelled, ChildBegins, PairsKept, Queued, Received, IInv, TypeOK
<1>2. CASE Spawn
  BY <1>2 DEF Spawn, PairsKept
<1>3. CASE HostInterrupted \/ GroupExit \/ CancelHost \/ UNCHANGED vars
  BY <1>3 DEF HostInterrupted, GroupExit, CancelHost, vars, PairsKept, Queued, Received
<1>. QED
  BY <1>1, <1>2, <1>3, PutKeepsPairs, GetKeepsPairs DEF Next, ChildStep, HostStep, Terminated

\* When all children have returned and the queue is empty, the host has them all.
LEMMA AllReceived ==
  ASSUME IInv, \A t \in Task : Received(t)
  PROVE  Len(results) = N
<1>. DEFINE K == Len(results)
            f == [i \in 1..K |-> results[i].id]
<1>1. K \in Nat /\ \A i \in 1..K : results[i].id \in Task
  BY PairIds, LenProperties DEF IInv, TypeOK
<1>2. f \in Surjection(1..K, Task)
  BY <1>1, Fun_IsSurj DEF Received
<1>3. /\ IsFiniteSet(Task) /\ Cardinality(Task) = N
      /\ IsFiniteSet(1..K) /\ Cardinality(1..K) = K
  BY <1>1, NAssumption, IntervalSize DEF Task
<1>4. N <= K
  BY <1>2, <1>3, FS_Surjection
<1>. QED
  BY <1>1, <1>4, NAssumption DEF IInv, HostAgrees

\* The host of aio_gather never waits in task_res_q.get() for a pair that nobody is
\* left to put: no task of the group is left out of the count of the loop.
THEOREM HostNotStranded == Spec => []HostIsNotStranded
<1>1. Init => PairsKept
  BY DEF Init, PairsKept
<1>2. ASSUME IInv, PairsKept PROVE HostIsNotStranded
  <2>1. SUFFICES ASSUME host = "getting", task_res_q = <<>>, ~scope, Pending = {} PROVE FALSE
    BY DEF HostIsNotStranded
  <2>2. \A t \in Task : child[t] = "returned"
    BY <1>2, <2>1 DEF IInv, TypeOK, ChildState, Live, SpawnedAtOnce, ScopeAgrees, Pending
  <2>3. \A t \in Task : Received(t)
    BY <1>2, <2>1, <2>2 DEF PairsKept, Queued
  <2>4. Len(results) = N
    BY <1>2, <2>3, AllReceived
  <2>. QED
    BY <1>2, <2>1, <2>4, NAssumption DEF IInv, HostAgrees
<1>. QED
  BY <1>1, <1>2, Invariance, NextPairsKept, PTL DEF Spec

\* When no awaitable raises CancelledError by itself, a cancelled caller of
\* aio_gather does not get a normal return.
THEOREM CancellationSeen ==
  ASSUME SelfCancelling = {}
  PROVE  Spec => []CancellationNotSwallowed
<1>1. IInv => CancellationNotSwallowed
  BY DEF IInv, ScopeAgrees, HostAgrees, CancellationNotSwallowed, Ended
<1>. QED
  BY <1>1, Invariance, PTL

-----------------------------------------------------------------------------
(* The result of a normal return *)

\* Leaving the group undisturbed means that every awaitable has been taken as a
\* value.
LEMMA UndisturbedMeansAllTaken ==
  ASSUME IInv, host \in {"exiting", "returned"}, ~scope
  PROVE  /\ Len(results) = N
         /\ \A t \in Task : child[t] = "returned"
         /\ Taken = {[id |-> t, res |-> ResultOf(t)] : t \in Task}
<1>1. Len(results) = N
  BY DEF IInv, HostAgrees
<1>2. \A t \in Task : \E i \in 1..N : results[i].id = t
  BY <1>1, AllTaken DEF IInv
<1>3. \A i \in 1..N : /\ results[i] \in Item
                      /\ results[i].id \in Task
                      /\ results[i].res = ResultOf(results[i].id)
                      /\ child[results[i].id] = "returned"
  BY <1>1, PairIds DEF IInv, ResultsAgree
<1>4. \A i \in 1..N :
        results[i] = [id |-> results[i].id, res |-> ResultOf(results[i].id)]
  BY <1>3 DEF Item
<1>5. Taken = {[id |-> t, res |-> ResultOf(t)] : t \in Task}
  BY <1>1, <1>2, <1>3, <1>4 DEF Taken
<1>. QED
  BY <1>1, <1>2, <1>3, <1>5

\* Among the pairs of all tasks exactly i - 1 have an id below i, so that the
\* i-th pair of the sorted list is the pair of task i.
LEMMA PairsBelow ==
  ASSUME NEW t \in Task
  PROVE  LET All == {[id |-> u, res |-> ResultOf(u)] : u \in Task}
         IN  Cardinality({q \in All : q.id < t}) = t - 1
<1>. DEFINE All == {[id |-> u, res |-> ResultOf(u)] : u \in Task}
            Below == {q \in All : q.id < t}
            f == [u \in 1..(t - 1) |-> [id |-> u, res |-> ResultOf(u)]]
<1>1. t \in Nat /\ t >= 1 /\ t <= N /\ N \in Nat
  BY NAssumption DEF Task
<1>2. \A u \in 1..(t - 1) : u \in Task /\ u < t
  BY <1>1 DEF Task
<1>3. \A u \in Task : u < t => u \in 1..(t - 1)
  BY <1>1 DEF Task
<1>4. f \in [1..(t - 1) -> Below]
  BY <1>2
<1>5. \A a, b \in 1..(t - 1) : f[a] = f[b] => a = b
  <2>1. \A a \in 1..(t - 1) : f[a].id = a
    OBVIOUS
  <2>. QED
    BY <2>1
<1>6. \A q \in Below : \E u \in 1..(t - 1) : f[u] = q
  BY <1>3
<1>7. f \in Bijection(1..(t - 1), Below)
  BY <1>4, <1>5, <1>6, Fun_IsBij
<1>8. Cardinality(Below) = Cardinality(1..(t - 1))
  BY <1>1, <1>7, FS_Bijection, IntervalSize DEF ExistsBijection
<1>9. Cardinality(1..(t - 1)) = t - 1
  BY <1>1, IntervalSize
<1>. QED
  BY <1>8, <1>9

LEMMA SortedInOrder ==
  ASSUME IInv, host \in {"exiting", "returned"}, ~scope
  PROVE  Output = [t \in Task |-> ResultOf(t)]
<1>. DEFINE PairOf(t) == [id |-> t, res |-> ResultOf(t)]
            Rank(p) == Cardinality({q \in Taken : q.id < p.id})
<1>1. Len(results) = N /\ Taken = {PairOf(t) : t \in Task}
  BY UndisturbedMeansAllTaken
<1>2. \A t \in Task : Rank(PairOf(t)) = t - 1
  BY <1>1, PairsBelow
<1>3. ASSUME NEW t \in Task
      PROVE  (CHOOSE p \in Taken : Rank(p) = t - 1) = PairOf(t)
  <2>1. PairOf(t) \in Taken /\ Rank(PairOf(t)) = t - 1
    BY <1>1, <1>2
  <2>2. ASSUME NEW p \in Taken, Rank(p) = t - 1
        PROVE  p = PairOf(t)
    <3>1. PICK u \in Task : p = PairOf(u)
      BY <1>1
    <3>2. u - 1 = t - 1
      BY <1>2, <2>2, <3>1
    <3>3. u = t
      BY <3>2, NAssumption DEF Task
    <3>. QED
      BY <3>1, <3>3
  <2>. QED
    BY <2>1, <2>2
<1>4. ASSUME NEW t \in Task
      PROVE  SortedPairs[t] = PairOf(t)
  <2>1. t \in 1..Len(results)
    BY <1>1 DEF Task
  <2>2. SortedPairs[t] = CHOOSE p \in Taken : Rank(p) = t - 1
    BY <2>1 DEF SortedPairs
  <2>. QED
    BY <1>3, <2>2
<1>5. \A t \in Task : PairOf(t).res = ResultOf(t)
  OBVIOUS
<1>6. \A t \in Task : SortedPairs[t].res = ResultOf(t)
  BY <1>4, <1>5
<1>. QED
  BY <1>1, <1>6 DEF Output, Task

\* aio_gather returns the results of all its awaitables in the order in which
\* they were passed, whatever the order in which they ended.
THEOREM ResultsInOrder ==
  ASSUME SelfCancelling = {}
  PROVE  Spec => []ReturnedInOrder
<1>1. IInv => ReturnedInOrder
  BY SortedInOrder DEF ReturnedInOrder, IInv, ScopeAgrees, HostAgrees
<1>. QED
  BY <1>1, Invariance, PTL

-----------------------------------------------------------------------------
(* Refinement *)

LEMMA SettledValues ==
  ASSUME NEW t \in Task, child[t] \in ChildState
  PROVE  /\ Settled[t] = "pending" <=> child[t] \in Live \cup {"unspawned"}
         /\ Settled[t] = "value" <=> child[t] = "returned"
         /\ Settled[t] = "error" <=> child[t] = "raised"
         /\ Settled[t] = "dropped" <=> child[t] = "cancelled"
BY DEF Settled, SettledAs, ChildState, Live

\* The awaitables that failed are those whose exceptions the group recorded.
LEMMA FailedIsErrors == IInv => Abstract!Failed = errors
<1>. SUFFICES ASSUME IInv PROVE Abstract!Failed = errors
  OBVIOUS
<1>1. \A t \in Task : Settled[t] = "error" <=> child[t] = "raised"
  BY SettledValues DEF IInv, TypeOK
<1>. QED
  BY <1>1 DEF Abstract!Failed, Task, IInv, ErrorsAgree

\* A step in which one child ends, seen through the refinement mapping.
LEMMA ChildSettles ==
  ASSUME IInv, NEW t \in Task, MayRun(t),
         NEW how \in {"returned", "raised", "cancelled"},
         child' = [child EXCEPT ![t] = how],
         UNCHANGED <<host, hostExc, results>>
  PROVE  Abstract!Settle(t, SettledAs(how))
<1>0. child[t] \in Live
  BY DEF MayRun, Live
<1>1. child \in [Task -> ChildState] /\ ~Ended
  BY <1>0 DEF IInv, TypeOK, HostAgrees, Pending
<1>2. Settled[t] = "pending"
  BY <1>0 DEF Settled, SettledAs, Live
<1>3. Settled' = [Settled EXCEPT ![t] = SettledAs(how)]
  BY <1>1 DEF Settled
<1>4. Ended' = Ended /\ Output' = Output
  BY DEF Ended, Output, SortedPairs, Taken
<1>. QED
  BY <1>1, <1>2, <1>3, <1>4 DEF Abstract!Settle

\* While the scope is not cancelled the abstract call is open.
LEMMA OpenScope == IInv /\ ~scope => Abstract!Open
  BY FailedIsErrors DEF Abstract!Open, IInv, ScopeAgrees, ErrorsAgree

LEMMA ChildStepRefines ==
  ASSUME SelfCancelling = {}, IInv, NEW t \in Task, ChildStep(t), ~ChildBegins(t)
  PROVE  Abstract!GatherNext
<1>1. CASE ChildReturns(t)
  <2>1. Abstract!Settle(t, "value")
    BY <1>1, ChildSettles DEF ChildReturns, SettledAs, Live
  <2>2. Abstract!Open
    BY <1>1, OpenScope DEF ChildReturns, Put
  <2>. QED
    BY <2>1, <2>2 DEF Abstract!Value, Abstract!GatherNext, Task
<1>2. CASE ChildRaises(t)
  <2>1. Abstract!Settle(t, "error")
    BY <1>2, ChildSettles DEF ChildRaises, SettledAs, Live
  <2>2. Abstract!Open
    BY <1>2, OpenScope DEF ChildRaises, Put
  <2>. QED
    BY <2>1, <2>2 DEF Abstract!Error, Abstract!GatherNext, Task
<1>3. CASE ChildCancelled(t)
  <2>1. Abstract!Settle(t, "dropped")
    BY <1>3, ChildSettles DEF ChildCancelled, SettledAs, Live
  <2>2. ~Abstract!Open
    BY <1>3, FailedIsErrors DEF ChildCancelled, IInv, ScopeAgrees, Abstract!Open
  <2>. QED
    BY <2>1, <2>2 DEF Abstract!Drop, Abstract!GatherNext, Task
<1>. QED
  BY <1>1, <1>2, <1>3 DEF ChildStep, ChildSelfCancels

\* The first step of a child, if it is not its last, does not settle it.
LEMMA BeginningIsSilent ==
  ASSUME IInv, NEW t \in Task, ChildBegins(t)
  PROVE  UNCHANGED Abstract!gatherVars
<1>1. /\ child \in [Task -> ChildState]
      /\ child[t] \in Live /\ child'[t] \in Live
      /\ \A u \in Task : u # t => child'[u] = child[u]
  BY DEF ChildBegins, Live, IInv, TypeOK
<1>2. \A u \in Task : SettledAs(child'[u]) = SettledAs(child[u])
  <2>1. SettledAs(child'[t]) = SettledAs(child[t])
    BY <1>1 DEF SettledAs, Live
  <2>. QED
    BY <1>1, <2>1
<1>3. Settled' = Settled
  BY <1>2 DEF Settled
<1>4. UNCHANGED <<host, hostExc, results>>
  BY DEF ChildBegins
<1>. QED
  BY <1>3, <1>4 DEF Abstract!gatherVars, Ended, Output, SortedPairs, Taken

\* Spawning and taking a pair are invisible to the caller.
LEMMA SilentSteps ==
  ASSUME IInv, Spawn \/ HostGets \/ CancelHost \/ UNCHANGED vars
  PROVE  UNCHANGED Abstract!gatherVars
<1>1. Settled' = Settled
  <2>1. CASE Spawn
    <3>1. \A t \in Task : child[t] = "unspawned" /\ child'[t] = "spawned"
      BY <2>1 DEF Spawn, IInv, SpawnedAtOnce
    <3>. QED
      BY <3>1 DEF Settled, SettledAs, Live
  <2>2. CASE UNCHANGED child
    BY <2>2 DEF Settled
  <2>. QED
    BY <2>1, <2>2 DEF HostGets, CancelHost, vars
<1>2. /\ UNCHANGED hostExc
      /\ Ended' = Ended
      /\ (host = "returned")' = (host = "returned")
      /\ Ended => UNCHANGED <<host, results>>
  BY DEF Spawn, HostGets, CancelHost, vars, Ended
<1>3. Ended => Output' = Output
  BY <1>2 DEF Output, SortedPairs, Taken
<1>. QED
  BY <1>1, <1>2, <1>3 DEF Abstract!gatherVars, Ended

LEMMA HostInterruptedRefines ==
  ASSUME IInv, HostInterrupted
  PROVE  Abstract!CallerCancel \/ UNCHANGED Abstract!gatherVars
<1>1. Settled' = Settled /\ ~Ended /\ ~Ended'
  BY DEF HostInterrupted, Settled, Ended
<1>2. host # "returned" /\ host' # "returned"
  BY DEF HostInterrupted
<1>3. CASE scope
  <2>1. hostExc' = hostExc
    BY <1>3 DEF HostInterrupted, ExceptionOfBody, ExceptionOfLoop, IInv, HostAgrees
  <2>. QED
    BY <1>1, <1>2, <2>1 DEF Abstract!gatherVars
<1>4. CASE ~scope
  <2>1. Abstract!Failed = {}
    BY <1>4, FailedIsErrors DEF IInv, ScopeAgrees, ErrorsAgree
  <2>2. hostExc' = "cancelled"
    BY <1>4 DEF HostInterrupted, ExceptionOfBody, ExceptionOfLoop
  <2>. QED
    BY <1>1, <1>2, <2>1, <2>2 DEF Abstract!CallerCancel
<1>. QED
  BY <1>3, <1>4

LEMMA GroupExitRefines ==
  ASSUME SelfCancelling = {}, IInv, GroupExit
  PROVE  Abstract!GatherNext
<1>1. Settled' = Settled /\ hostExc' = hostExc /\ ~Ended /\ Ended'
  BY DEF GroupExit, Settled, Ended
<1>2. Abstract!AllSettled
  <2>1. \A t \in Task : child[t] \notin Live \cup {"unspawned"}
    BY DEF GroupExit, ChildrenAwaited, IInv, SpawnedAtOnce, Pending
  <2>. QED
    BY <2>1, SettledValues
    DEF Abstract!AllSettled, Task, IInv, TypeOK
<1>3. Abstract!Failed = errors
  BY FailedIsErrors
<1>4. CASE host' = "returned"
  <2>1. host = "exiting" /\ errors = {} /\ hostExc = "none" /\ ~scope
    BY <1>4 DEF GroupExit, IInv, TypeOK, ScopeAgrees
  <2>2. \A t \in Task : Settled[t] = "value"
    BY <2>1, UndisturbedMeansAllTaken, SettledValues DEF IInv, TypeOK
  <2>3. Output' = [t \in Task |-> ResultOf(t)]
    <3>1. Output' = Output
      BY DEF GroupExit, Output, SortedPairs, Taken
    <3>. QED
      BY <2>1, <3>1, SortedInOrder
  <2>4. Abstract!Return
    BY <1>1, <1>3, <1>4, <2>1, <2>2, <2>3
    DEF Abstract!Return, Abstract!Open, Task, Abstract!ResultOf, ResultOf
  <2>. QED
    BY <2>4 DEF Abstract!GatherNext
<1>5. CASE host' = "raised"
  <2>1. errors # {} /\ host # "returned"
    BY <1>5 DEF GroupExit
  <2>2. Abstract!Raise
    BY <1>1, <1>2, <1>3, <1>5, <2>1 DEF Abstract!Raise
  <2>. QED
    BY <2>2 DEF Abstract!GatherNext
<1>6. CASE host' = "cancelled"
  <2>1. errors = {} /\ hostExc = "cancelled" /\ host # "returned"
    BY <1>6 DEF GroupExit
  <2>2. Abstract!EndCancelled
    BY <1>1, <1>2, <1>3, <1>6, <2>1 DEF Abstract!EndCancelled
  <2>. QED
    BY <2>2 DEF Abstract!GatherNext
<1>. QED
  BY <1>4, <1>5, <1>6 DEF GroupExit

\* aio_gather keeps the promise of Gather: all results in order, or the first
\* failure, or a cancellation, and every awaitable is over by then.
THEOREM Refinement ==
  ASSUME SelfCancelling = {}
  PROVE  Spec => ImplementsGather
<1>1. Init => Abstract!GatherInit
  <2>. SUFFICES ASSUME Init PROVE Abstract!GatherInit
    OBVIOUS
  <2>1. Settled = [t \in Task |-> "pending"]
    BY DEF Init, Settled, SettledAs, Live
  <2>. QED
    BY <2>1 DEF Init, Abstract!GatherInit, Task, Ended
<1>2. IInv /\ [Next]_vars => [Abstract!GatherNext]_Abstract!gatherVars
  <2>. SUFFICES ASSUME IInv, [Next]_vars
                PROVE  Abstract!GatherNext \/ UNCHANGED Abstract!gatherVars
    OBVIOUS
  <2>1. ASSUME NEW t \in Task, ChildStep(t)
        PROVE  Abstract!GatherNext \/ UNCHANGED Abstract!gatherVars
    BY <2>1, ChildStepRefines, BeginningIsSilent
  <2>2. CASE Spawn \/ HostGets \/ CancelHost \/ UNCHANGED vars
    BY <2>2, SilentSteps
  <2>3. CASE HostInterrupted
    BY <2>3, HostInterruptedRefines DEF Abstract!GatherNext
  <2>4. CASE GroupExit
    BY <2>4, GroupExitRefines
  <2>. QED
    BY <2>1, <2>2, <2>3, <2>4 DEF Next, HostStep, Terminated
<1>. QED
  BY <1>1, <1>2, Invariance, PTL DEF Spec, ImplementsGather, Abstract!GatherSpec
=============================================================================
