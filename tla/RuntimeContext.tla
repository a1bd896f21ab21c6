--------------------------- MODULE RuntimeContext ---------------------------
(***************************************************************************)
(* RUNTIME_CONTEXT, the _ContextMap of runtime/utils.py: attributes kept   *)
(* in context variables.  Each task has a context of its own, a copy of    *)
(* the one its creator had; the tokens that can undo an assignment are     *)
(* kept in one map that all tasks share.  Reading changes nothing, and an  *)
(* attribute that is not declared is refused in every operation.           *)
(***************************************************************************)

CONSTANTS
  Task,
  Root,      \* the task of the server, which starts with an empty context
  Name,      \* the attributes that are declared
  Value,
  Unset      \* no value, no token

ASSUME RootAssumption == Root \in Task
ASSUME UnsetAssumption == Unset \notin Value

VARIABLES
  alive,      \* the tasks that have been created
  context,    \* what each context holds, a matter of contextvars
  token_map,  \* the token of the last assignment of each attribute
  raised,     \* what the last operation raised
  heritage,   \* history: the values a task or, before, its creator has assigned
  before      \* history: what a task saw before its last assignment

vars == <<alive, context, token_map, raised, heritage, before>>

Content == Value \cup {Unset}
Token == [owner : Task, old_value : Content, used : BOOLEAN]
NoToken == [owner |-> Root, old_value |-> Unset, used |-> TRUE]
Error == {"nothing", "KeyError", "ValueError", "RuntimeError"}

TypeOK ==
  /\ alive \subseteq Task
  /\ context \in [Task -> [Name -> Content]]
  /\ token_map \in [Name -> [held : BOOLEAN, token : Token]]
  /\ raised \in Error
  /\ heritage \in [Task -> [Name -> SUBSET Value]]
  /\ before \in [Task -> [Name -> Content]]

Nothing == [held |-> FALSE, token |-> NoToken]
Held(token) == [held |-> TRUE, token |-> token]

Init ==
  /\ alive = {Root}
  /\ context = [t \in Task |-> [n \in Name |-> Unset]]
  /\ token_map = [n \in Name |-> Nothing]
  /\ raised = "nothing"
  /\ heritage = [t \in Task |-> [n \in Name |-> {}]]
  /\ before = [t \in Task |-> [n \in Name |-> Unset]]

-----------------------------------------------------------------------------

\* asyncio.create_task copies the context of the task that calls it.
CreateTask(t, u) ==
  /\ t \in alive
  /\ u \notin alive
  /\ alive' = alive \cup {u}
  /\ context' = [context EXCEPT ![u] = context[t]]
  /\ heritage' = [heritage EXCEPT ![u] = heritage[t]]
  /\ before' = [before EXCEPT ![u] = before[t]]
  /\ raised' = "nothing"
  /\ UNCHANGED token_map

\* Mutant: the first token of an attribute is kept.
FirstToken(n, token) == IF token_map[n].held THEN token_map[n] ELSE Held(token)

\* Whatever token was there is replaced.
LastToken(n, token) == Held(token)

SetAttr(t, n, v) ==
  /\ t \in alive
  /\ LET token == [owner |-> t, old_value |-> context[t][n], used |-> FALSE]
     IN token_map' = [token_map EXCEPT ![n] = LastToken(n, token)]
  /\ context' = [context EXCEPT ![t][n] = v]
  /\ before' = [before EXCEPT ![t][n] = context[t][n]]
  /\ heritage' = [heritage EXCEPT ![t][n] = @ \cup {v}]
  /\ raised' = "nothing"
  /\ UNCHANGED alive

\* What ContextVar.reset raises in task t.
ErrorOfReset(t, token) ==
  IF token.used THEN "RuntimeError" ELSE IF token.owner # t THEN "ValueError" ELSE "nothing"

\* Mutant: the old value is assigned again instead of resetting the variable.
ErrorOfAssignment(t, n) == IF token_map[n].held THEN "nothing" ELSE "KeyError"

\* What __delattr__ raises in task t for a declared attribute.
ErrorOfDelete(t, n) ==
  IF token_map[n].held THEN ErrorOfReset(t, token_map[n].token) ELSE "KeyError"

TokenDeleted(n) == Nothing

\* An exception leaves the variable and the map as they are.
DelAttr(t, n) ==
  /\ t \in alive
  /\ raised' = ErrorOfDelete(t, n)
  /\ \/ /\ raised' = "nothing"
        /\ context' = [context EXCEPT ![t][n] = token_map[n].token.old_value]
        /\ token_map' = [token_map EXCEPT ![n] = TokenDeleted(n)]
     \/ /\ raised' # "nothing"
        /\ UNCHANGED <<context, token_map>>
  /\ UNCHANGED <<alive, heritage, before>>

Next ==
  \E t \in Task :
    \/ \E u \in Task : CreateTask(t, u)
    \/ \E n \in Name : DelAttr(t, n) \/ \E v \in Value : SetAttr(t, n, v)

Spec == Init /\ [][Next]_vars

-----------------------------------------------------------------------------
(* Properties *)

\* A task never sees a value that was assigned by another one, but for what its
\* creator had assigned before: not even by deleting what others have assigned.
OnlyOwnOrInherited ==
  \A t \in Task : \A n \in Name :
    context[t][n] # Unset => context[t][n] \in heritage[t][n]

\* Deleting an attribute never meets a token that has been used up: the map is
\* in step with the variables.
NoTokenTwice == raised # "RuntimeError"

\* A task whose deletion succeeds gets back what it saw before its last
\* assignment, whatever other tasks have assigned in between.
DeleteUndoesLast ==
  [][\A t \in Task : \A n \in Name :
       t \in alive /\ token_map[n].held /\ token_map'[n] = Nothing /\ token_map[n].token.owner = t
         => context'[t][n] = before[t][n]]_vars
=============================================================================
