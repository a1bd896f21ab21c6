----------------------------- MODULE AioGather ------------------------------
(***************************************************************************)
(* aio_gather of utils/asynctools.py: a host task spawns one child per     *)
(* awaitable in an anyio task group; each child puts its (task_id, result) *)
(* pair in a bounded queue; the host takes N pairs and sorts them.         *)
(*                                                                         *)
(* The event loop runs one task at a time, so an action is what a task     *)
(* does between two suspension points.  The task group and the queue are   *)
(* those of anyio 1.x (setup.cfg pins anyio < 2.0.0), external to this     *)
(* repository:                                                             *)
(*  - a child's exception is recorded by the group and cancels the scope   *)
(*    of the group; both happen in the step in which the child ends;       *)
(*  - get and put start with a cancellation point, so in a cancelled scope *)
(*    they raise CancelledError whatever the queue holds;                  *)
(*  - the scope is cancelled once, and only tasks that have begun receive  *)
(*    it: a child that makes its first step later is not disturbed before  *)
(*    its put;                                                             *)
(*  - a CancelledError that leaves a child is not recorded as a failure;   *)
(*  - leaving the group waits for every child.                             *)
(* The loop runs ready tasks in the order in which they became ready: the  *)
(* first steps of all children, in the order of spawning, come before      *)
(* anything that the children or the host do after waiting.                *)
(***************************************************************************)
EXTENDS Naturals, Sequences, FiniteSets

CONSTANTS
  N,               \* number of awaitables
  SelfCancelling   \* the awaitables that may end in a CancelledError of their own

ASSUME NAssumption == N \in Nat

Task == 1..N

ASSUME SelfCancellingAssumption == SelfCancelling \subseteq Task

VARIABLES
  child,       \* the state of each _send_task_res_to_q task
  task_res_q,  \* pairs put and not yet taken
  scope,       \* cancel_called of the group's cancel scope
  errors,      \* the children whose exceptions the group has recorded
  host,        \* where the task awaiting aio_gather is
  hostExc,     \* the exception with which the host left the body of the group
  results,     \* pairs taken by the host, in the order taken
  native       \* someone called cancel() on the host task

vars == <<child, task_res_q, scope, errors, host, hostExc, results, native>>

QueueCapacity == N

ResultOf(t) == <<"value", t>>
ExceptionOf(t) == <<"error", t>>

Item == [id : Task, res : {"value", "error"} \X Task]

\* A spawned child has not run yet; an unreached one has begun in a scope that was
\* cancelled already, a pending one before.
Live == {"spawned", "pending", "unreached"}
ChildState == Live \cup {"unspawned", "returned", "raised", "cancelled"}
HostState == {"spawning", "getting", "exiting", "returned", "raised", "cancelled"}

TypeOK ==
  /\ child \in [Task -> ChildState]
  /\ task_res_q \in Seq(Item)
  /\ scope \in BOOLEAN
  /\ errors \subseteq Task
  /\ host \in HostState
  /\ hostExc \in {"none", "cancelled"}
  /\ results \in Seq(Item)
  /\ native \in BOOLEAN

Init ==
  /\ child = [t \in Task |-> "unspawned"]
  /\ task_res_q = <<>>
  /\ scope = FALSE
  /\ errors = {}
  /\ host = "spawning"
  /\ hostExc = "none"
  /\ results = <<>>
  /\ native = FALSE

Pending == {t \in Task : child[t] \in Live}

AllBegun == \A t \in Task : child[t] # "spawned"

Ended == host \in {"returned", "raised", "cancelled"}

-----------------------------------------------------------------------------
(* The children *)

\* task_group.spawn never suspends: no child runs before all are spawned.
Spawn ==
  /\ host = "spawning"
  /\ child' = [t \in Task |-> "spawned"]
  /\ host' = IF N = 0 THEN "exiting" ELSE "getting"
  /\ UNCHANGED <<task_res_q, scope, errors, hostExc, results, native>>

\* The children in turn make their first steps, then any of them goes on.
MayRun(t) ==
  \/ child[t] = "spawned" /\ \A u \in Task : u < t => child[u] # "spawned"
  \/ child[t] \in {"pending", "unreached"} /\ AllBegun

\* The first step of a child ends in a suspension.
ChildBegins(t) ==
  /\ child[t] = "spawned" /\ MayRun(t)
  /\ child' = [child EXCEPT ![t] = IF scope THEN "unreached" ELSE "pending"]
  /\ UNCHANGED <<task_res_q, scope, errors, host, hostExc, results, native>>

Pair(t, res) == [id |-> t, res |-> res]

\* await res_q.put((task_id, task_res)) in the finally clause.
Put(t, res) ==
  /\ ~scope
  /\ Len(task_res_q) < QueueCapacity
  /\ task_res_q' = Append(task_res_q, Pair(t, res))

ChildReturns(t) ==
  /\ MayRun(t)
  /\ Put(t, ResultOf(t))
  /\ child' = [child EXCEPT ![t] = "returned"]
  /\ UNCHANGED <<scope, errors, host, hostExc, results, native>>

\* Mutant: the children are spawned in a group that a failure does not cancel.
ReportAlone(t) == errors' = errors \cup {t} /\ UNCHANGED scope

\* An exception leaves the child and reaches the group.
Report(t) == errors' = errors \cup {t} /\ scope' = TRUE

\* The pair holding the exception is put before the exception is raised again.
ChildRaises(t) ==
  /\ MayRun(t)
  /\ Put(t, ExceptionOf(t))
  /\ child' = [child EXCEPT ![t] = "raised"]
  /\ Report(t)
  /\ UNCHANGED <<host, hostExc, results, native>>

\* The awaitable itself raises CancelledError, which BaseException covers.
ChildSelfCancels(t) ==
  /\ t \in SelfCancelling
  /\ MayRun(t)
  /\ Put(t, ExceptionOf(t))
  /\ child' = [child EXCEPT ![t] = "cancelled"]
  /\ scope' = TRUE
  /\ UNCHANGED <<errors, host, hostExc, results, native>>

\* In a cancelled scope a child ends by the CancelledError it receives, or by
\* the one that put raises in place of whatever result or exception it had.  An
\* unreached one does so when its awaitable ends by itself.
ChildCancelled(t) ==
  /\ MayRun(t)
  /\ scope
  /\ child' = [child EXCEPT ![t] = "cancelled"]
  /\ UNCHANGED <<task_res_q, scope, errors, host, hostExc, results, native>>

-----------------------------------------------------------------------------
(* The host *)

\* Mutants: range(aio_tasks_num + 1) and range(aio_tasks_num - 1).
OneMore == N + 1
OneLess == N - 1

\* for _ in range(aio_tasks_num)
PairsAwaited == N

\* One turn of the loop: yield await task_res_q.get()
HostGets ==
  /\ host = "getting" /\ AllBegun
  /\ ~scope /\ ~native
  /\ task_res_q # <<>>
  /\ results' = Append(results, Head(task_res_q))
  /\ task_res_q' = Tail(task_res_q)
  /\ host' = IF Len(results') = PairsAwaited THEN "exiting" ELSE "getting"
  /\ UNCHANGED <<child, scope, errors, hostExc, native>>

\* The loop has no handler: the CancelledError that ends get leaves the body.
ExceptionOfLoop == "cancelled"

\* A CancelledError counts as the host's own only if nobody had cancelled the
\* scope before.
ExceptionOfBody == IF scope THEN "none" ELSE ExceptionOfLoop

\* A CancelledError ends the pending get, even one whose item has arrived, and
\* cancels the scope.
HostInterrupted ==
  /\ host = "getting" /\ AllBegun
  /\ scope \/ native
  /\ hostExc' = ExceptionOfBody
  /\ scope' = TRUE
  /\ host' = "exiting"
  /\ UNCHANGED <<child, task_res_q, errors, results, native>>

\* The caller's task is cancelled while it is suspended: in get, or in the wait
\* for the children, which absorbs it.
CancelHost ==
  /\ host = "getting" \/ (host = "exiting" /\ Pending # {})
  /\ native' = TRUE
  /\ UNCHANGED <<child, task_res_q, scope, errors, host, hostExc, results>>

ChildrenAwaited == Pending = {}

\* __aexit__ of the task group, once no child is left.
GroupExit ==
  /\ host = "exiting"
  /\ ChildrenAwaited
  /\ host' = IF errors # {} THEN "raised"
             ELSE IF hostExc = "cancelled" THEN "cancelled" ELSE "returned"
  /\ UNCHANGED <<child, task_res_q, scope, errors, hostExc, results, native>>

Terminated == Ended /\ UNCHANGED vars

ChildStep(t) ==
  \/ ChildBegins(t)
  \/ ChildReturns(t) \/ ChildRaises(t) \/ ChildSelfCancels(t) \/ ChildCancelled(t)

HostStep == Spawn \/ HostGets \/ HostInterrupted \/ GroupExit

Next ==
  \/ \E t \in Task : ChildStep(t)
  \/ HostStep
  \/ CancelHost
  \/ Terminated

Spec == Init /\ [][Next]_vars

CancellationArrives(t) == child[t] = "pending" /\ ChildCancelled(t)

\* The loop runs a ready host and a new child, and delivers a cancellation to the
\* children that have begun; an awaitable does not have to end unless it is
\* cancelled.
FairSpec ==
  /\ Spec
  /\ WF_vars(HostStep)
  /\ \A t \in Task : WF_vars(ChildBegins(t)) /\ WF_vars(CancellationArrives(t))

-----------------------------------------------------------------------------
(* What aio_gather returns *)

Taken == {results[i] : i \in 1..Len(results)}

\* Mutant: the sort is left out.
PairsAsTaken == results

\* sorted(result_pairs_gen, key=itemgetter(0)): position i holds the pair with
\* i - 1 smaller task ids.
SortedPairs ==
  [i \in 1..Len(results) |->
     CHOOSE p \in Taken : Cardinality({q \in Taken : q.id < p.id}) = i - 1]

\* map(itemgetter(1), sorted_result_pairs)
Output == [i \in 1..Len(results) |-> SortedPairs[i].res]

-----------------------------------------------------------------------------
(* Properties *)

\* A caller that gets a tuple gets the result of every awaitable, each at the
\* position of its awaitable, although they are queued in completion order.
ReturnedInOrder == host = "returned" => Output = [t \in Task |-> ResultOf(t)]

\* The exceptions that the children put in the queue are never handed to the
\* caller as results: the scope is cancelled before the host can take one.
NoExceptionAsResult == \A i \in 1..Len(results) : results[i].res[1] = "value"

\* The group never has two exceptions to report, so the caller sees the
\* exception of a handler and not an ExceptionGroup: the put in the finally
\* clause turns every later failure into a CancelledError.
FirstFailureWins == Cardinality(errors) <= 1

\* put never has to wait for a slot: the queue is as large as the task list.
PutNeverBlocks == Pending # {} => Len(task_res_q) < QueueCapacity

\* A host that waits in get waits for something: a pair in the queue, a cancellation,
\* or a child that has not ended and will put its pair or cancel the scope.
HostIsNotStranded ==
  host = "getting" => task_res_q # <<>> \/ scope \/ native \/ Pending # {}

\* A cancelled caller never sees a normal return.
CancellationNotSwallowed == native /\ Ended => host \in {"cancelled", "raised"}

\* The children that no cancellation of the scope will end, or not yet.
Stragglers == {t \in Task : child[t] \in {"spawned", "unreached"}}

\* Once a child has failed, and those have ended that had not begun when it failed,
\* the call raises, even if the others would never have ended by themselves: they
\* are cancelled and waited for.
FailureIsRaised == errors # {} /\ Stragglers = {} ~> host = "raised"

\* The call ends once its awaitables are done, or its host is cancelled and no
\* awaitable is left that had not begun when another one failed.
EndsWhenSettled ==
  (native /\ Stragglers = {}) \/ (host = "getting" /\ Pending = {}) ~> Ended

\* The queue discipline implements the all-or-nothing promise of Gather.
SettledAs(c) ==
  CASE c \in Live \cup {"unspawned"} -> "pending"
    [] c = "returned" -> "value"
    [] c = "raised" -> "error"
    [] c = "cancelled" -> "dropped"

Settled == [t \in Task |-> SettledAs(child[t])]

Abstract == INSTANCE Gather WITH
  Task <- Task,
  settled <- Settled,
  callerCancelled <- (hostExc = "cancelled"),
  outcome <- IF Ended THEN host ELSE "none",
  output <- IF host = "returned" THEN Output ELSE <<>>

ImplementsGather == Abstract!GatherSpec
=============================================================================
