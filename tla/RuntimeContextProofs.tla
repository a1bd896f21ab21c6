------------------------ MODULE RuntimeContextProofs ------------------------
(***************************************************************************)
(* Theorems about RuntimeContext, for any tasks, attributes and values.    *)
(***************************************************************************)
EXTENDS RuntimeContext, TLAPS

\* A token in the map undoes the last assignment of its task.
TokenInStep(n) ==
  LET token == token_map[n].token
  IN token_map[n].held =>
       /\ ~token.used
       /\ token.owner \in alive
       /\ token.old_value = before[token.owner][n]

\* What a task saw before its last assignment was its own or inherited, too.
BeforeIsHeritage ==
  \A t \in Task : \A n \in Name : before[t][n] # Unset => before[t][n] \in heritage[t][n]

IInv ==
  /\ TypeOK
  /\ OnlyOwnOrInherited
  /\ NoTokenTwice
  /\ BeforeIsHeritage
  /\ \A n \in Name : TokenInStep(n)

LEMMA InitIInv == Init => IInv
BY RootAssumption, UnsetAssumption
   DEF Init, IInv, TypeOK, OnlyOwnOrInherited, NoTokenTwice, BeforeIsHeritage, TokenInStep,
       Content, Token, NoToken, Nothing, Error

LEMMA CreateTaskIInv ==
  ASSUME IInv, NEW t \in Task, NEW u \in Task, CreateTask(t, u)
  PROVE  IInv'
<1> USE DEF IInv, CreateTask, TypeOK
<1>1. TypeOK'
  BY DEF Error, Content
<1>2. OnlyOwnOrInherited'
  BY DEF OnlyOwnOrInherited
<1>3. NoTokenTwice'
  BY DEF NoTokenTwice
<1>4. BeforeIsHeritage'
  BY DEF BeforeIsHeritage
<1>5. ASSUME NEW n \in Name PROVE TokenInStep(n)'
  BY <1>5 DEF TokenInStep
<1> QED BY <1>1, <1>2, <1>3, <1>4, <1>5

LEMMA SetAttrIInv ==
  ASSUME IInv, NEW t \in Task, NEW n \in Name, NEW v \in Value, SetAttr(t, n, v)
  PROVE  IInv'
<1> USE DEF IInv, SetAttr, TypeOK
<1>1. TypeOK'
  BY DEF Error, Content, Token, LastToken, Held
<1>2. OnlyOwnOrInherited'
  BY DEF OnlyOwnOrInherited
<1>3. NoTokenTwice'
  BY DEF NoTokenTwice
<1>4. BeforeIsHeritage'
  BY DEF BeforeIsHeritage, OnlyOwnOrInherited
<1>5. ASSUME NEW m \in Name PROVE TokenInStep(m)'
  BY <1>5 DEF TokenInStep, LastToken, Held
<1> QED BY <1>1, <1>2, <1>3, <1>4, <1>5

\* A deletion that succeeds is made by the task that assigned last.
LEMMA DeletedByOwner ==
  ASSUME IInv, NEW t \in Task, NEW n \in Name, DelAttr(t, n), raised' = "nothing"
  PROVE  /\ token_map[n].held /\ token_map[n].token.owner = t
         /\ context' = [context EXCEPT ![t][n] = before[t][n]]
         /\ token_map' = [token_map EXCEPT ![n] = Nothing]
BY DEF DelAttr, ErrorOfDelete, ErrorOfReset, IInv, TypeOK, TokenInStep, TokenDeleted

LEMMA DelAttrIInv ==
  ASSUME IInv, NEW t \in Task, NEW n \in Name, DelAttr(t, n)
  PROVE  IInv'
<1>1. UNCHANGED <<alive, heritage, before>>
  BY DEF DelAttr
<1>2. raised' \in Error /\ NoTokenTwice'
  BY DEF DelAttr, ErrorOfDelete, ErrorOfReset, IInv, TypeOK, TokenInStep, NoTokenTwice, Error
<1>3. CASE raised' = "nothing"
  <2>1. /\ context' = [context EXCEPT ![t][n] = before[t][n]]
        /\ token_map' = [token_map EXCEPT ![n] = Nothing]
    BY <1>3, DeletedByOwner
  <2>2. TypeOK'
    BY <1>1, <1>2, <2>1, RootAssumption DEF IInv, TypeOK, Nothing, NoToken, Token, Content
  <2>3. OnlyOwnOrInherited'
    BY <1>1, <2>1 DEF IInv, TypeOK, OnlyOwnOrInherited, BeforeIsHeritage
  <2>4. ASSUME NEW m \in Name PROVE TokenInStep(m)'
    BY <1>1, <2>1, <2>4 DEF IInv, TypeOK, TokenInStep, Nothing
  <2> QED BY <1>1, <1>2, <2>2, <2>3, <2>4 DEF IInv, BeforeIsHeritage
<1>4. CASE raised' # "nothing"
  <2>1. UNCHANGED <<context, token_map>>
    BY <1>4 DEF DelAttr
  <2> QED
    BY <1>1, <1>2, <2>1
       DEF IInv, TypeOK, OnlyOwnOrInherited, BeforeIsHeritage, TokenInStep
<1> QED BY <1>3, <1>4

LEMMA StutterIInv == ASSUME IInv, UNCHANGED vars PROVE IInv'
BY DEF IInv, vars, TypeOK, OnlyOwnOrInherited, NoTokenTwice, BeforeIsHeritage, TokenInStep

\* Together: the invariant holds whatever tasks do to the context.
THEOREM ContextInvariance == Spec => []IInv
<1>1. Init => IInv
  BY InitIInv
<1>2. IInv /\ [Next]_vars => IInv'
  <2> SUFFICES ASSUME IInv, [Next]_vars PROVE IInv'
    OBVIOUS
  <2>1. CASE Next
    BY <2>1, CreateTaskIInv, SetAttrIInv, DelAttrIInv DEF Next
  <2>2. CASE UNCHANGED vars
    BY <2>2, StutterIInv
  <2> QED BY <2>1, <2>2
<1> QED BY <1>1, <1>2, PTL DEF Spec

\* Contexts and the map of tokens keep their types.
THEOREM ContextTypeCorrect == Spec => []TypeOK
<1>1. IInv => TypeOK
  BY DEF IInv
<1> QED BY <1>1, ContextInvariance, PTL

\* No task sees a value that is neither its own nor inherited, by whatever
\* assignments and deletions of _ContextMap.
THEOREM Isolation == Spec => []OnlyOwnOrInherited
<1>1. IInv => OnlyOwnOrInherited
  BY DEF IInv
<1> QED BY <1>1, ContextInvariance, PTL

\* The shared map never offers a token that has been used.
THEOREM TokensUsedOnce == Spec => []NoTokenTwice
<1>1. IInv => NoTokenTwice
  BY DEF IInv
<1> QED BY <1>1, ContextInvariance, PTL

\* A successful deletion takes back exactly the last assignment of its task.
THEOREM DeletionUndoes == Spec => DeleteUndoesLast
<1> DEFINE Undone ==
      \A t \in Task : \A n \in Name :
        t \in alive /\ token_map[n].held /\ token_map'[n] = Nothing /\ token_map[n].token.owner = t
          => context'[t][n] = before[t][n]
<1>1. IInv /\ [Next]_vars => [Undone]_vars
  <2> SUFFICES ASSUME IInv, Next, NEW t \in Task, NEW n \in Name,
                      token_map[n].held, token_map'[n] = Nothing,
                      token_map[n].token.owner = t
               PROVE  context'[t][n] = before[t][n]
    OBVIOUS
  <2>1. ASSUME NEW s \in Task, NEW u \in Task, CreateTask(s, u) PROVE FALSE
    BY <2>1 DEF CreateTask, Nothing
  <2>2. ASSUME NEW s \in Task, NEW m \in Name, NEW v \in Value, SetAttr(s, m, v) PROVE FALSE
    BY <2>2 DEF SetAttr, LastToken, Held, Nothing, IInv, TypeOK
  <2>3. ASSUME NEW s \in Task, NEW m \in Name, DelAttr(s, m)
        PROVE  context'[t][n] = before[t][n]
    <3>1. raised' = "nothing"
      BY <2>3 DEF DelAttr, Nothing
    <3>2. /\ token_map[m].token.owner = s
          /\ context' = [context EXCEPT ![s][m] = before[s][m]]
          /\ token_map' = [token_map EXCEPT ![m] = Nothing]
      BY <2>3, <3>1, DeletedByOwner
    <3>3. m = n
      BY <3>2 DEF Nothing, IInv, TypeOK
    <3> QED BY <3>2, <3>3 DEF IInv, TypeOK
  <2> QED BY <2>1, <2>2, <2>3 DEF Next
<1> QED BY <1>1, ContextInvariance, PTL DEF Spec, DeleteUndoesLast
=============================================================================
