------------------------ MODULE EventDispatchProofs -------------------------
(***************************************************************************)
(* Safety of EventDispatch for any number of routers of any strategies,    *)
(* with any number of callbacks, and of ActionRun, which makes an exit     *)
(* status of what the dispatch ends with.                                  *)
(***************************************************************************)
EXTENDS ActionRun, TLAPS

-----------------------------------------------------------------------------
(* What the callbacks c of a router r look like when its dispatch          *)
(* coroutine is in state b and its first unfit callback is u.              *)

\* Callback k is the one the router is at: those before it have returned.
SequentialShape(r, b, c) ==
  \E k \in 1..(Matching[r] + 1) :
    /\ \A j \in Callback(r) : /\ j < k => c[j] = "returned"
                              /\ j > k => c[j] = "idle"
    /\ b = "value" => k > Matching[r]
    /\ b # "value" => k \in Callback(r)
    /\ b \in {"running", "unreached"} => c[k] = b
    /\ b = "error" => c[k] = "raised"
    /\ b = "cancelled" => c[k] = "cancelled"

ConcurrentShape(r, u, b, c) ==
  /\ u <= Matching[r] =>
       /\ b = "error"
       /\ c = [i \in Callback(r) |-> IF i = u THEN "raised" ELSE "idle"]
  /\ u > Matching[r] =>
       /\ \A i \in Callback(r) : c[i] # "idle"
       /\ \A i, j \in Callback(r) : c[i] = "raised" /\ c[j] = "raised" => i = j
       /\ b \notin {"running", "unreached"} => \A i \in Callback(r) : c[i] \notin Live
       /\ b = "value" => \A i \in Callback(r) : c[i] = "returned"
       /\ b = "error" => \E i \in Callback(r) : c[i] = "raised"

NonBlockingShape(r, u, b, c) ==
  /\ b = IF u > Matching[r] THEN "value" ELSE "error"
  /\ \A i \in Callback(r) : /\ i < u => c[i] # "idle"
                            /\ i = u => c[i] = "raised"
                            /\ i > u => c[i] = "idle"

Shape(r, u, b, c) ==
  /\ b = "unstarted" => c = [i \in Callback(r) |-> "idle"]
  /\ b # "unstarted" =>
       /\ Strategy[r] = "sequential" => SequentialShape(r, b, c)
       /\ Strategy[r] = "concurrent" => ConcurrentShape(r, u, b, c)
       /\ Strategy[r] = "nonblocking" => NonBlockingShape(r, u, b, c)

Shapes == \A r \in Router : Shape(r, unfit[r], body[r], call[r])

-----------------------------------------------------------------------------
(* What the gather over the routers knows of them                          *)

SettledAgrees ==
  \A r \in Router :
    /\ settled[r] = "value" => body[r] = "value"
    /\ settled[r] = "error" => body[r] = "error"
    /\ settled[r] = "pending" <=> body[r] \in {"unstarted", "running", "unreached"}

OneError ==
  \A r, s \in Router : settled[r] = "error" /\ settled[s] = "error" => r = s

OutcomeAgrees ==
  /\ outcome # "none" => \A r \in Router : settled[r] # "pending"
  /\ outcome = "returned" => \A r \in Router : settled[r] = "value"
  /\ outcome = "raised" => \E r \in Router : settled[r] = "error"

CallIsFunction == call = [r \in Router |-> call[r]]

GatherInv == OneError /\ OutcomeAgrees

IInv == TypeOK /\ CallIsFunction /\ Shapes /\ SettledAgrees /\ GatherInv

LEMMA ConstantTypes ==
  /\ \A r \in Router : Strategy[r] \in Strategies
  /\ \A r \in Router : Matching[r] \in Nat
  BY StrategyAssumption, MatchingAssumption DEF Router

LEMMA InitIInv == Init => IInv
<1>. SUFFICES ASSUME Init PROVE IInv
  OBVIOUS
<1>. USE ConstantTypes DEF Init, Gathered!GatherInit, Router
<1>1. unfit \in [Router -> Nat] /\ \A r \in Router : unfit[r] \in 1..(Matching[r] + 1)
  <2>1. ASSUME NEW r \in Router PROVE unfit[r] \in 1..(Matching[r] + 1)
    <3>1. PICK s \in Router : unfit[r] \in 1..(Matching[s] + 1)
      OBVIOUS
    <3>2. unfit[r] \in Nat /\ unfit[r] >= 1
      BY <3>1
    <3>. QED
      BY <3>2
  <2>. QED
    BY <2>1
<1>2. TypeOK
  BY <1>1 DEF TypeOK, BodyState, CallState, Live
<1>3. CallIsFunction /\ Shapes
  BY DEF CallIsFunction, Shapes, Shape
<1>4. SettledAgrees /\ GatherInv
  BY DEF SettledAgrees, GatherInv, OneError, OutcomeAgrees
<1>. QED
  BY <1>2, <1>3, <1>4 DEF IInv

-----------------------------------------------------------------------------
(* Steps of one router *)

\* What the gather makes of a step of the coroutine of router r.
LEMMA StepSettles ==
  ASSUME NEW r \in Router, NEW calls, NEW state, Step(r, calls, state)
  PROVE  /\ UNCHANGED <<unfit, callerCancelled, outcome, output>>
         /\ \/ state \in {"running", "unreached"} /\ settled' = settled
            \/ /\ settled[r] = "pending"
               /\ \E how \in {"value", "error", "dropped"} :
                    /\ settled' = [settled EXCEPT ![r] = how]
                    /\ how \in {"value", "error"} => state = how /\ Gathered!Open
                    /\ how = "dropped" => ~Gathered!Open
                    /\ state \in {"value", "error", "cancelled"}
<1>. USE DEF Step, Settles, Gathered!Settle, gatherVars
<1>1. CASE state \in {"running", "unreached"} /\ UNCHANGED gatherVars
  BY <1>1
<1>2. CASE state = "value" /\ Gathered!Value(r)
  BY <1>2 DEF Gathered!Value
<1>3. CASE state = "error" /\ Gathered!Error(r)
  BY <1>3 DEF Gathered!Error
<1>4. CASE state \in {"value", "error", "cancelled"} /\ Gathered!Drop(r)
  BY <1>4 DEF Gathered!Drop
<1>. QED
  BY <1>1, <1>2, <1>3, <1>4

\* A step of a router that is not settled keeps the invariant if it leaves the
\* router in a good shape.
LEMMA StepIInv ==
  ASSUME IInv, NEW r \in Router, settled[r] = "pending",
         NEW calls \in [Callback(r) -> CallState],
         NEW state \in BodyState \ {"unstarted"},
         Step(r, calls, state),
         Shape(r, unfit[r], state, calls)
  PROVE  IInv'
<1>1. /\ body' = [body EXCEPT ![r] = state]
      /\ call' = [call EXCEPT ![r] = calls]
      /\ UNCHANGED <<unfit, callerCancelled, outcome, output>>
  BY StepSettles DEF Step
<1>2. call'[r] = calls /\ \A s \in Router \ {r} : call'[s] = call[s]
  BY <1>1 DEF IInv, CallIsFunction
<1>3. body'[r] = state /\ \A s \in Router \ {r} : body'[s] = body[s]
  BY <1>1 DEF IInv, TypeOK
<1>4. /\ settled' \in [Router -> {"pending", "value", "error", "dropped"}]
      /\ \A s \in Router \ {r} : settled'[s] = settled[s]
      /\ \/ state \in {"running", "unreached"} /\ settled'[r] = "pending"
         \/ /\ state \in {"value", "error", "cancelled"}
            /\ settled'[r] \in {"value", "error", "dropped"}
            /\ settled'[r] \in {"value", "error"} => state = settled'[r] /\ Gathered!Open
  BY StepSettles DEF IInv, TypeOK
<1>5. TypeOK'
  <2>1. \A s \in Router : call'[s] \in [Callback(s) -> CallState]
    BY <1>2 DEF IInv, TypeOK
  <2>. QED
    BY <1>1, <1>4, <2>1 DEF IInv, TypeOK
<1>6. CallIsFunction'
  BY <1>1 DEF IInv, CallIsFunction
<1>7. Shapes'
  BY <1>1, <1>2, <1>3 DEF IInv, Shapes
<1>8. SettledAgrees'
  BY <1>3, <1>4 DEF IInv, SettledAgrees
<1>9. OneError'
  <2>1. Gathered!Open => \A s \in Router : settled[s] # "error"
    BY DEF Gathered!Open, Gathered!Failed, Router
  <2>. QED
    BY <1>4, <2>1 DEF IInv, GatherInv, OneError
<1>10. OutcomeAgrees'
  <2>1. outcome = "none"
    BY DEF IInv, GatherInv, OutcomeAgrees
  <2>. QED
    BY <1>1, <2>1 DEF OutcomeAgrees
<1>. QED
  BY <1>5, <1>6, <1>7, <1>8, <1>9, <1>10 DEF IInv, GatherInv

\* A router that has not started, or whose dispatch goes on, is not settled.
LEMMA UnsettledRouter ==
  ASSUME IInv, NEW r \in Router, body[r] \in {"unstarted", "running", "unreached"}
  PROVE  settled[r] = "pending"
  BY DEF IInv, SettledAgrees

\* One turn of the loop of a sequential router, when all callbacks before i have
\* returned and those from i on are idle.
LEMMA ProceedIInv ==
  ASSUME IInv, NEW r \in Router, Strategy[r] = "sequential", settled[r] = "pending",
         NEW calls \in [Callback(r) -> CallState],
         NEW i \in 1..(Matching[r] + 1),
         \A j \in Callback(r) : /\ j < i => calls[j] = "returned"
                                /\ j >= i => calls[j] = "idle",
         Proceed(r, calls, i)
  PROVE  IInv'
<1>. USE ConstantTypes
<1>1. CASE i > Matching[r] /\ Step(r, calls, "value")
  <2>1. SequentialShape(r, "value", calls)
    BY <1>1 DEF SequentialShape, Callback
  <2>2. Shape(r, unfit[r], "value", calls)
    BY <2>1 DEF Shape
  <2>. QED
    BY <1>1, <2>2, StepIInv DEF BodyState
<1>2. CASE i \in Callback(r) /\ i = unfit[r] /\ Step(r, [calls EXCEPT ![i] = "raised"], "error")
  <2> DEFINE new == [calls EXCEPT ![i] = "raised"]
  <2>1. new \in [Callback(r) -> CallState] /\ new[i] = "raised"
        /\ \A j \in Callback(r) \ {i} : new[j] = calls[j]
    BY <1>2 DEF CallState
  <2>. HIDE DEF new
  <2>2. SequentialShape(r, "error", new)
    <3>1. \A j \in Callback(r) : /\ j < i => new[j] = "returned"
                                 /\ j > i => new[j] = "idle"
      BY <1>2, <2>1 DEF Callback
    <3>. QED
      BY <1>2, <2>1, <3>1 DEF SequentialShape
  <2>3. Shape(r, unfit[r], "error", new)
    BY <2>2 DEF Shape
  <2>4. Step(r, new, "error")
    BY <1>2 DEF new
  <2>. QED
    BY <2>1, <2>3, <2>4, StepIInv DEF BodyState
<1>3. CASE i \in Callback(r) /\ i # unfit[r] /\ Step(r, [calls EXCEPT ![i] = InScope], InScope)
  <2> DEFINE new == [calls EXCEPT ![i] = InScope]
  <2>0. InScope \in {"running", "unreached"}
    BY DEF InScope
  <2>1. new \in [Callback(r) -> CallState] /\ new[i] = InScope
        /\ \A j \in Callback(r) \ {i} : new[j] = calls[j]
    BY <1>3, <2>0 DEF CallState, Live
  <2>. HIDE DEF new
  <2>2. ASSUME NEW b \in {"running", "unreached"}, new[i] = b PROVE SequentialShape(r, b, new)
    <3>1. \A j \in Callback(r) : /\ j < i => new[j] = "returned"
                                 /\ j > i => new[j] = "idle"
      BY <1>3, <2>1 DEF Callback
    <3>2. b \notin {"value", "error", "cancelled"}
      OBVIOUS
    <3>. QED
      BY <1>3, <2>2, <3>1, <3>2 DEF SequentialShape
  <2>3. Shape(r, unfit[r], InScope, new)
    BY <2>0, <2>1, <2>2 DEF Shape
  <2>4. Step(r, new, InScope)
    BY <1>3 DEF new
  <2>5. InScope \in BodyState \ {"unstarted"}
    BY <2>0 DEF BodyState
  <2>. QED
    BY <2>1, <2>3, <2>4, <2>5, StepIInv
<1>. QED
  BY <1>1, <1>2, <1>3 DEF Proceed

-----------------------------------------------------------------------------
(* The actions *)

LEMMA StartIInv ==
  ASSUME IInv, NEW r \in Router,
         StartSequential(r) \/ StartConcurrent(r) \/ StartNonBlocking(r)
  PROVE  IInv'
<1>. USE ConstantTypes
<1>1. body[r] = "unstarted" /\ settled[r] = "pending"
  BY UnsettledRouter DEF StartSequential, StartConcurrent, StartNonBlocking, Begins
<1>2. call[r] = [i \in Callback(r) |-> "idle"] /\ call[r] \in [Callback(r) -> CallState]
  BY <1>1 DEF IInv, Shapes, Shape, TypeOK
<1>3. unfit[r] \in 1..(Matching[r] + 1)
  BY DEF IInv, TypeOK
<1>4. CASE StartSequential(r)
  <2>1. Proceed(r, call[r], 1) /\ Strategy[r] = "sequential" /\ 1 \in 1..(Matching[r] + 1)
    BY <1>4 DEF StartSequential
  <2>2. \A j \in Callback(r) : /\ j < 1 => call[r][j] = "returned"
                               /\ j >= 1 => call[r][j] = "idle"
    BY <1>2 DEF Callback
  <2>. QED
    BY <1>1, <1>2, <2>1, <2>2, ProceedIInv
<1>5. CASE StartConcurrent(r)
  <2> DEFINE state == IF AllFit(r) THEN InScope ELSE "error"
  <2>1. Step(r, GatheredCalls(r), state)
    BY <1>5 DEF StartConcurrent
  <2>2. GatheredCalls(r) \in [Callback(r) -> CallState] /\ state \in BodyState \ {"unstarted"}
    BY DEF GatheredCalls, CallState, BodyState, InScope, Live
  <2>3. ConcurrentShape(r, unfit[r], state, GatheredCalls(r))
    BY <1>3 DEF ConcurrentShape, GatheredCalls, AllFit, InScope
  <2>4. Shape(r, unfit[r], state, GatheredCalls(r))
    BY <1>5, <2>3 DEF Shape, StartConcurrent, InScope
  <2>. QED
    BY <1>1, <2>1, <2>2, <2>4, StepIInv
<1>6. CASE StartNonBlocking(r)
  <2> DEFINE state == IF AllFit(r) THEN "value" ELSE "error"
  <2>1. Step(r, ScheduledCalls(r), state)
    BY <1>6 DEF StartNonBlocking
  <2>2. ScheduledCalls(r) \in [Callback(r) -> CallState] /\ state \in BodyState \ {"unstarted"}
    BY DEF ScheduledCalls, CallState, BodyState, Live
  <2>3. NonBlockingShape(r, unfit[r], state, ScheduledCalls(r))
    BY <1>3 DEF NonBlockingShape, ScheduledCalls, AllFit, Callback
  <2>4. Shape(r, unfit[r], state, ScheduledCalls(r))
    BY <1>6, <2>3 DEF Shape, StartNonBlocking
  <2>. QED
    BY <1>1, <2>1, <2>2, <2>4, StepIInv
<1>. QED
  BY <1>4, <1>5, <1>6

\* A callback that is not over keeps its router going, if that one is blocking, and
\* is the one that a sequential router is at.
LEMMA LiveCallback ==
  ASSUME IInv, NEW r \in Router, NEW i \in Callback(r), call[r][i] \in Live
  PROVE  /\ body[r] # "unstarted"
         /\ r \in Blocking => body[r] \in {"running", "unreached"} /\ settled[r] = "pending"
         /\ Strategy[r] = "sequential" =>
              \A j \in Callback(r) : /\ j < i => call[r][j] = "returned"
                                     /\ j > i => call[r][j] = "idle"
<1>. USE ConstantTypes
<1>1. Shape(r, unfit[r], body[r], call[r]) /\ body[r] \in BodyState
  BY DEF IInv, Shapes, TypeOK
<1>2. body[r] # "unstarted"
  BY <1>1 DEF Shape, Live
<1>3. unfit[r] \in 1..(Matching[r] + 1)
  BY DEF IInv, TypeOK
<1>4. CASE Strategy[r] = "sequential"
  <2>1. PICK k \in 1..(Matching[r] + 1) :
          /\ \A j \in Callback(r) : /\ j < k => call[r][j] = "returned"
                                    /\ j > k => call[r][j] = "idle"
          /\ body[r] = "value" => k > Matching[r]
          /\ body[r] # "value" => k \in Callback(r)
          /\ body[r] = "error" => call[r][k] = "raised"
          /\ body[r] = "cancelled" => call[r][k] = "cancelled"
    BY <1>1, <1>2, <1>4 DEF Shape, SequentialShape
  <2>2. i = k
    BY <2>1 DEF Callback, Live
  <2>3. body[r] \in {"running", "unreached"}
    BY <1>1, <1>2, <2>1, <2>2 DEF BodyState, Callback, Live
  <2>. QED
    BY <1>2, <2>1, <2>2, <2>3, UnsettledRouter
<1>5. CASE Strategy[r] = "concurrent"
  <2>1. ConcurrentShape(r, unfit[r], body[r], call[r])
    BY <1>1, <1>2, <1>5 DEF Shape
  <2>2. unfit[r] > Matching[r]
    BY <1>3, <2>1 DEF ConcurrentShape, Live
  <2>3. body[r] \in {"running", "unreached"}
    BY <2>1, <2>2 DEF ConcurrentShape
  <2>. QED
    BY <1>2, <1>5, <2>3, UnsettledRouter
<1>6. CASE Strategy[r] = "nonblocking"
  BY <1>2, <1>6 DEF Blocking
<1>. QED
  BY <1>4, <1>5, <1>6 DEF Strategies

\* A callback with a task of its own begins or ends.
LEMMA OwnTaskIInv ==
  ASSUME IInv, NEW r \in Router, NEW i \in Callback(r), call[r][i] \in Live,
         Strategy[r] # "sequential",
         NEW state \in CallState \ {"idle"},
         Strategy[r] = "concurrent" /\ state = "raised" => ~Some(r, "raised"),
         CallStep(r, i, state)
  PROVE  IInv'
<1>. USE ConstantTypes
<1> DEFINE new == [call[r] EXCEPT ![i] = state]
<1>1. call[r] \in [Callback(r) -> CallState] /\ body[r] \in BodyState
      /\ unfit[r] \in 1..(Matching[r] + 1)
  BY DEF IInv, TypeOK
<1>2. new \in [Callback(r) -> CallState] /\ new[i] = state
      /\ \A j \in Callback(r) \ {i} : new[j] = call[r][j]
  BY <1>1
<1>3. body[r] # "unstarted" /\ (r \in Blocking => body[r] \in {"running", "unreached"})
  BY LiveCallback
<1>4. /\ call' = [call EXCEPT ![r] = new]
      /\ UNCHANGED <<unfit, body, settled, callerCancelled, outcome, output>>
  BY DEF CallStep, gatherVars
<1>5. Shape(r, unfit[r], body[r], call[r])
  BY DEF IInv, Shapes
<1>. HIDE DEF new
<1>6. Shape(r, unfit[r], body[r], new)
  <2>1. CASE Strategy[r] = "concurrent"
    <3>1. body[r] \in {"running", "unreached"} /\ ConcurrentShape(r, unfit[r], body[r], call[r])
      BY <1>3, <1>5, <2>1 DEF Shape, Blocking
    <3>2. \A j \in Callback(r) : state = "raised" => call[r][j] # "raised"
      BY <2>1 DEF Some
    <3>3. ConcurrentShape(r, unfit[r], body[r], new)
      BY <1>1, <1>2, <3>1, <3>2 DEF ConcurrentShape
    <3>. QED
      BY <1>3, <2>1, <3>3 DEF Shape
  <2>2. CASE Strategy[r] = "nonblocking"
    <3>1. NonBlockingShape(r, unfit[r], body[r], call[r])
      BY <1>3, <1>5, <2>2 DEF Shape
    <3>2. NonBlockingShape(r, unfit[r], body[r], new)
      BY <1>1, <1>2, <3>1 DEF NonBlockingShape, Callback, Live
    <3>. QED
      BY <1>3, <2>2, <3>2 DEF Shape
  <2>. QED
    BY <2>1, <2>2 DEF Strategies
<1>7. call'[r] = new /\ \A s \in Router \ {r} : call'[s] = call[s]
  BY <1>4 DEF IInv, CallIsFunction
<1>8. TypeOK'
  <2>1. \A s \in Router : call'[s] \in [Callback(s) -> CallState]
    BY <1>2, <1>7 DEF IInv, TypeOK
  <2>. QED
    BY <1>4, <2>1 DEF IInv, TypeOK
<1>9. CallIsFunction' /\ Shapes'
  BY <1>4, <1>6, <1>7 DEF IInv, CallIsFunction, Shapes
<1>10. SettledAgrees' /\ GatherInv'
  BY <1>4 DEF IInv, SettledAgrees, GatherInv, OneError, OutcomeAgrees
<1>. QED
  BY <1>8, <1>9, <1>10 DEF IInv

\* A callback of router r ends without another one being called.
LEMMA EndsIInv ==
  ASSUME IInv, NEW r \in Router, NEW i \in Callback(r), call[r][i] \in Live,
         NEW state \in {"returned", "raised", "cancelled"},
         Strategy[r] = "sequential" => state # "returned",
         Strategy[r] = "concurrent" /\ state = "raised" => ~Some(r, "raised"),
         Ends(r, i, state)
  PROVE  IInv'
<1>. USE ConstantTypes
<1>1. CASE Strategy[r] # "sequential"
  BY <1>1, OwnTaskIInv DEF Ends, CallState
<1>2. CASE Strategy[r] = "sequential"
  <2> DEFINE new == [call[r] EXCEPT ![i] = state]
             end == IF state = "raised" THEN "error" ELSE "cancelled"
  <2>1. new \in [Callback(r) -> CallState] /\ new[i] = state
        /\ \A j \in Callback(r) \ {i} : new[j] = call[r][j]
    BY DEF IInv, TypeOK, CallState
  <2>2. Step(r, new, end)
    BY <1>2 DEF Ends
  <2>. HIDE DEF new
  <2>3. \A j \in Callback(r) : /\ j < i => new[j] = "returned"
                               /\ j > i => new[j] = "idle"
    BY <1>2, <2>1, LiveCallback DEF Callback
  <2>4. SequentialShape(r, end, new)
    BY <1>2, <2>1, <2>3 DEF SequentialShape, Callback
  <2>5. Shape(r, unfit[r], end, new)
    BY <1>2, <2>4 DEF Shape
  <2>6. settled[r] = "pending"
    BY <1>2, LiveCallback DEF Blocking
  <2>. QED
    BY <2>1, <2>2, <2>5, <2>6, StepIInv DEF BodyState
<1>. QED
  BY <1>1, <1>2

LEMMA CallbackStepIInv ==
  ASSUME IInv, NEW r \in Router, NEW i \in Callback(r), CallbackStep(r, i)
  PROVE  IInv'
<1>. USE ConstantTypes
<1>1. call[r][i] \in Live
  BY DEF CallbackStep, CallbackBegins, CallbackReturns, CallbackRaises, CallbackCancelled,
         MayStep, Live
<1>2. CASE CallbackReturns(r, i) /\ Strategy[r] = "sequential"
  <2> DEFINE new == [call[r] EXCEPT ![i] = "returned"]
  <2>1. new \in [Callback(r) -> CallState] /\ new[i] = "returned"
        /\ \A j \in Callback(r) \ {i} : new[j] = call[r][j]
    BY DEF IInv, TypeOK, CallState
  <2>2. Proceed(r, new, i + 1)
    BY <1>2 DEF CallbackReturns
  <2>. HIDE DEF new
  <2>3. \A j \in Callback(r) : /\ j < i + 1 => new[j] = "returned"
                               /\ j >= i + 1 => new[j] = "idle"
    BY <1>1, <1>2, <2>1, LiveCallback DEF Callback
  <2>4. settled[r] = "pending" /\ i + 1 \in 1..(Matching[r] + 1)
    BY <1>1, <1>2, LiveCallback DEF Blocking, Callback
  <2>. QED
    BY <1>2, <2>1, <2>2, <2>3, <2>4, ProceedIInv
<1>3. CASE CallbackReturns(r, i) /\ Strategy[r] # "sequential"
  BY <1>1, <1>3, EndsIInv DEF CallbackReturns
<1>4. CASE CallbackRaises(r, i)
  <2>1. Strategy[r] = "concurrent" => ~Some(r, "raised")
    BY <1>4 DEF CallbackRaises, Undisturbed, ScopeCancelled, Blocking
  <2>. QED
    BY <1>1, <1>4, <2>1, EndsIInv DEF CallbackRaises
<1>5. CASE CallbackCancelled(r, i)
  BY <1>1, <1>5, EndsIInv DEF CallbackCancelled
<1>6. CASE CallbackBegins(r, i)
  <2>1. PICK state \in {"running", "unreached"} : CallStep(r, i, state)
    BY <1>6 DEF CallbackBegins
  <2>2. Strategy[r] # "sequential"
    BY <1>6 DEF CallbackBegins
  <2>3. state \in CallState \ {"idle"} /\ state # "raised"
    BY DEF CallState, Live
  <2>. QED
    BY <1>1, <2>1, <2>2, <2>3, OwnTaskIInv
<1>. QED
  BY <1>2, <1>3, <1>4, <1>5, <1>6 DEF CallbackStep

LEMMA ConcurrentEndsIInv ==
  ASSUME IInv, NEW r \in Router, ConcurrentEnds(r)
  PROVE  IInv'
<1>1. Strategy[r] = "concurrent" /\ body[r] \in {"running", "unreached"} /\ settled[r] = "pending"
  BY UnsettledRouter DEF ConcurrentEnds
<1>2. ConcurrentShape(r, unfit[r], body[r], call[r])
  BY <1>1 DEF IInv, Shapes, Shape
<1>3. call[r] \in [Callback(r) -> CallState]
  BY DEF IInv, TypeOK
<1>4. \A i \in Callback(r) : call[r][i] \notin Live
  BY DEF ConcurrentEnds
<1>5. ConcurrentShape(r, unfit[r], EndOfCalls(r), call[r])
  BY <1>1, <1>2, <1>3, <1>4 DEF ConcurrentShape, EndOfCalls, Some, CallState
<1>6. EndOfCalls(r) \in BodyState \ {"unstarted"}
  BY DEF EndOfCalls, BodyState
<1>7. Shape(r, unfit[r], EndOfCalls(r), call[r])
  BY <1>1, <1>5, <1>6 DEF Shape
<1>. QED
  BY <1>1, <1>3, <1>6, <1>7, StepIInv DEF ConcurrentEnds

LEMMA CallerCancelledIInv ==
  ASSUME IInv, CallerCancelled
  PROVE  IInv'
<1>. USE DEF CallerCancelled, Gathered!CallerCancel, IInv
<1>1. TypeOK' /\ CallIsFunction' /\ Shapes' /\ SettledAgrees'
  BY DEF TypeOK, CallIsFunction, Shapes, SettledAgrees
<1>2. GatherInv'
  BY DEF GatherInv, OneError, OutcomeAgrees
<1>. QED
  BY <1>1, <1>2

LEMMA DispatchEndsIInv ==
  ASSUME IInv, DispatchEnds
  PROVE  IInv'
<1>1. /\ UNCHANGED <<unfit, body, call, settled, callerCancelled>>
      /\ outcome' \in {"returned", "raised", "cancelled"}
  BY DEF DispatchEnds, Gathered!Return, Gathered!Raise, Gathered!EndCancelled
<1>2. TypeOK' /\ CallIsFunction' /\ Shapes' /\ SettledAgrees'
  BY <1>1 DEF IInv, TypeOK, CallIsFunction, Shapes, SettledAgrees
<1>3. OneError'
  BY <1>1 DEF IInv, GatherInv, OneError
<1>4. OutcomeAgrees'
  BY <1>1 DEF OutcomeAgrees, DispatchEnds, Gathered!Return, Gathered!Raise,
              Gathered!EndCancelled, Gathered!AllSettled, Gathered!Failed,
              Router
<1>. QED
  BY <1>2, <1>3, <1>4 DEF IInv, GatherInv

LEMMA NextIInv == IInv /\ [Next]_vars => IInv'
<1>. SUFFICES ASSUME IInv, [Next]_vars PROVE IInv'
  OBVIOUS
<1>1. ASSUME NEW r \in Router, RouterStep(r) PROVE IInv'
  BY <1>1, StartIInv, ConcurrentEndsIInv DEF RouterStep
<1>2. ASSUME NEW r \in Router, NEW i \in Callback(r), CallbackStep(r, i) PROVE IInv'
  BY <1>2, CallbackStepIInv
<1>3. CASE CallerCancelled \/ DispatchEnds
  BY <1>3, CallerCancelledIInv, DispatchEndsIInv
<1>4. CASE UNCHANGED vars
  BY <1>4
  DEF vars, gatherVars, IInv, TypeOK, CallIsFunction, Shapes, SettledAgrees, GatherInv,
      OneError, OutcomeAgrees
<1>. QED
  BY <1>1, <1>2, <1>3, <1>4 DEF Next, Over

-----------------------------------------------------------------------------
(* Theorems *)

\* The inductive invariant holds in every reachable state of a dispatch.
THEOREM DispatchInvariance == Spec => []IInv
  BY InitIInv, NextIInv, PTL DEF Spec

\* Every variable of EventDispatch keeps its type.
THEOREM DispatchTypeCorrect == Spec => []TypeOK
<1>1. IInv => TypeOK
  BY DEF IInv
<1>. QED
  BY <1>1, DispatchInvariance, PTL

\* However dispatch_via ends, no callback of a blocking router is still running.
THEOREM NothingOutlives == Spec => []NothingOutlivesDispatch
<1>1. IInv => NothingOutlivesDispatch
  <2>. SUFFICES ASSUME IInv, outcome # "none", NEW r \in Blocking,
                       NEW i \in Callback(r), call[r][i] \in Live
                PROVE  FALSE
    BY DEF NothingOutlivesDispatch
  <2>1. settled[r] = "pending"
    BY LiveCallback DEF Blocking
  <2>. QED
    BY <2>1 DEF IInv, GatherInv, OutcomeAgrees, Blocking
<1>. QED
  BY <1>1, DispatchInvariance, PTL

LEMMA ReturnedHandled == IInv => ReturnedMeansHandled
<1>. SUFFICES ASSUME IInv, outcome = "returned", NEW r \in Router, NEW i \in Callback(r)
              PROVE  call[r][i] = "returned" \/ (r \notin Blocking /\ call[r][i] # "idle")
  BY DEF ReturnedMeansHandled
<1>1. body[r] = "value"
  BY DEF IInv, GatherInv, OutcomeAgrees, SettledAgrees
<1>2. Shape(r, unfit[r], "value", call[r]) /\ unfit[r] \in 1..(Matching[r] + 1)
  BY <1>1 DEF IInv, Shapes, TypeOK
<1>3. CASE Strategy[r] = "sequential"
  BY <1>2, <1>3, ConstantTypes DEF Shape, SequentialShape, Callback
<1>4. CASE Strategy[r] = "concurrent"
  BY <1>2, <1>4, ConstantTypes DEF Shape, ConcurrentShape
<1>5. CASE Strategy[r] = "nonblocking"
  BY <1>2, <1>5, ConstantTypes DEF Shape, NonBlockingShape, Callback, Blocking
<1>. QED
  BY <1>3, <1>4, <1>5, ConstantTypes DEF Strategies

\* A dispatch that returns has run all blocking callbacks to their ends and has
\* scheduled all the others.
THEOREM ReturnMeansHandled == Spec => []ReturnedMeansHandled
  BY ReturnedHandled, DispatchInvariance, PTL

LEMMA CulpritOfFailure == IInv => OneCulprit
<1>1. ASSUME IInv, NEW r \in Router, settled[r] = "error"
      PROVE  \E i \in Callback(r) : Culprits(r) = {i}
  <2>1. Shape(r, unfit[r], "error", call[r]) /\ unfit[r] \in 1..(Matching[r] + 1)
    BY <1>1 DEF IInv, SettledAgrees, Shapes, TypeOK
  <2>2. SUFFICES \E i \in Callback(r) :
                   \A j \in Callback(r) :
                     call[r][j] = "raised" /\ (r \in Blocking \/ j = unfit[r]) <=> j = i
    BY DEF Culprits
  <2>3. CASE Strategy[r] = "sequential"
    <3>1. PICK k \in 1..(Matching[r] + 1) :
            /\ \A j \in Callback(r) : /\ j < k => call[r][j] = "returned"
                                      /\ j > k => call[r][j] = "idle"
            /\ k \in Callback(r) /\ call[r][k] = "raised"
      BY <2>1, <2>3 DEF Shape, SequentialShape
    <3>. QED
      BY <2>3, <3>1, ConstantTypes DEF Blocking, Callback
  <2>4. CASE Strategy[r] = "concurrent"
    <3>1. ConcurrentShape(r, unfit[r], "error", call[r]) /\ r \in Blocking
      BY <2>1, <2>4 DEF Shape, Blocking
    <3>2. CASE unfit[r] <= Matching[r]
      <4>1. unfit[r] \in Callback(r)
        BY <2>1, <3>2, ConstantTypes DEF Callback
      <4>2. call[r] = [i \in Callback(r) |-> IF i = unfit[r] THEN "raised" ELSE "idle"]
        BY <3>1, <3>2 DEF ConcurrentShape
      <4>3. \A j \in Callback(r) : call[r][j] = "raised" <=> j = unfit[r]
        BY <4>2
      <4>. QED
        BY <3>1, <4>1, <4>3
    <3>3. CASE unfit[r] > Matching[r]
      BY <3>1, <3>3 DEF ConcurrentShape
    <3>. QED
      BY <2>1, <3>2, <3>3, ConstantTypes
  <2>5. CASE Strategy[r] = "nonblocking"
    <3>1. NonBlockingShape(r, unfit[r], "error", call[r]) /\ r \notin Blocking
      BY <2>1, <2>5 DEF Shape, Blocking
    <3>2. unfit[r] \in Callback(r)
      BY <2>1, <3>1, ConstantTypes DEF NonBlockingShape, Callback
    <3>. QED
      BY <3>1, <3>2 DEF NonBlockingShape
  <2>. QED
    BY <2>3, <2>4, <2>5, ConstantTypes DEF Strategies
<1>2. IInv => OneCulprit
  <2>. SUFFICES ASSUME IInv, outcome = "raised" PROVE OneCulprit
    BY DEF OneCulprit
  <2>1. PICK r \in Router : settled[r] = "error"
    BY DEF IInv, GatherInv, OutcomeAgrees
  <2>2. \A s \in Router : settled[s] = "error" <=> s = r
    BY <2>1 DEF IInv, GatherInv, OneError
  <2>. QED
    BY <1>1, <2>1, <2>2 DEF OneCulprit
<1>. QED
  BY <1>2

\* A failed dispatch has exactly one failed router, and that one has exactly one
\* callback to blame.
THEOREM SingleCulprit == Spec => []OneCulprit
  BY CulpritOfFailure, DispatchInvariance, PTL

LEMMA SequentialInOrder == IInv => OneAfterAnother
<1>. SUFFICES ASSUME IInv, NEW r \in Router, NEW i \in Callback(r), NEW j \in Callback(r),
                     Strategy[r] = "sequential", call[r][i] # "idle", j < i
              PROVE  call[r][j] = "returned"
  BY DEF OneAfterAnother
<1>1. SequentialShape(r, body[r], call[r])
  BY DEF IInv, Shapes, Shape
<1>. QED
  BY <1>1, ConstantTypes DEF SequentialShape, Callback

LEMMA ConcurrentAllOrNone == IInv => AllOrNone
<1>. SUFFICES ASSUME IInv, NEW r \in Router, NEW i \in Callback(r) \ {unfit[r]},
                     Strategy[r] = "concurrent", ~AllFit(r)
              PROVE  call[r][i] = "idle"
  BY DEF AllOrNone
<1>1. unfit[r] <= Matching[r] /\ Shape(r, unfit[r], body[r], call[r])
  BY ConstantTypes DEF AllFit, IInv, TypeOK, Shapes
<1>. QED
  BY <1>1 DEF Shape, ConcurrentShape

\* A sequential router calls its callbacks in order, each after the one before it has
\* returned, and a concurrent router runs none if one of them is unfit.
THEOREM StrategiesAreKept == Spec => []StrategiesKept
<1>1. IInv => StrategiesKept
  BY SequentialInOrder, ConcurrentAllOrNone DEF StrategiesKept
<1>. QED
  BY <1>1, DispatchInvariance, PTL

\* What a step does to one router: nothing, a step of its coroutine or a step of one
\* of its callbacks.
LEMMA MovesOfRouter ==
  ASSUME IInv, [Next]_vars, NEW r \in Router
  PROVE  \/ body'[r] = body[r] /\ call'[r] = call[r]
         \/ RouterStep(r)
         \/ \E i \in Callback(r) : CallbackStep(r, i)
<1>1. CallIsFunction /\ body \in [Router -> BodyState]
  BY DEF IInv, TypeOK
<1>2. ASSUME NEW s \in Router, s # r, NEW calls, NEW state, Step(s, calls, state)
      PROVE  body'[r] = body[r] /\ call'[r] = call[r]
  BY <1>1, <1>2 DEF Step, CallIsFunction
<1>3. ASSUME NEW s \in Router, s # r, NEW i, NEW state, CallStep(s, i, state)
      PROVE  body'[r] = body[r] /\ call'[r] = call[r]
  BY <1>1, <1>3 DEF CallStep, CallIsFunction
<1>4. ASSUME NEW s \in Router, s # r, RouterStep(s)
      PROVE  body'[r] = body[r] /\ call'[r] = call[r]
  <2>1. PICK calls, state : Step(s, calls, state)
    BY <1>4 DEF RouterStep, StartSequential, StartConcurrent, StartNonBlocking, ConcurrentEnds, Proceed
  <2>. QED
    BY <1>2, <1>4, <2>1
<1>5. ASSUME NEW s \in Router, s # r, NEW i \in Callback(s), CallbackStep(s, i)
      PROVE  body'[r] = body[r] /\ call'[r] = call[r]
  <2>1. (\E calls, state : Step(s, calls, state)) \/ (\E state : CallStep(s, i, state))
    BY <1>5
    DEF CallbackStep, CallbackBegins, CallbackReturns, CallbackRaises, CallbackCancelled,
        Ends, Proceed
  <2>. QED
    BY <1>2, <1>3, <1>5, <2>1
<1>6. CASE CallerCancelled \/ DispatchEnds \/ UNCHANGED vars
  BY <1>6 DEF CallerCancelled, DispatchEnds, vars
<1>. QED
  BY <1>4, <1>5, <1>6 DEF Next, Over

\* After a router has failed or the caller was cancelled, no blocking router that had
\* begun before calls another callback.
THEOREM NoFurtherCall == Spec => NoCallAfterFailure
<1> DEFINE NoCall ==
      ~Gathered!Open =>
        \A r \in Blocking : body[r] \notin {"unstarted", "unreached"} =>
          \A i \in Callback(r) : call[r][i] = "idle" => call'[r][i] = "idle"
<1>1. ASSUME IInv, [Next]_vars, ~Gathered!Open, NEW r \in Blocking,
             body[r] \notin {"unstarted", "unreached"},
             NEW i \in Callback(r), call[r][i] = "idle"
      PROVE  call'[r][i] = "idle"
  <2>. USE <1>1
  <2>1. r \in Router /\ CallIsFunction /\ call[r] \in [Callback(r) -> CallState]
    BY DEF Blocking, IInv, TypeOK
  <2>2. CASE RouterStep(r)
    <3>1. ConcurrentEnds(r)
      BY <2>2 DEF RouterStep, StartSequential, StartConcurrent, StartNonBlocking, Begins
    <3>. QED
      BY <2>1, <3>1 DEF ConcurrentEnds, Step, CallIsFunction
  <2>3. ASSUME NEW j \in Callback(r), CallbackStep(r, j)
        PROVE  call'[r][i] = "idle"
    <3>1. call[r][j] # "idle"
      BY <2>3 DEF CallbackStep, CallbackBegins, CallbackReturns, CallbackRaises,
                  CallbackCancelled, MayStep
    <3>2. ScopeCancelled(r) /\ ~(Strategy[r] = "sequential" /\ Undisturbed(r))
      BY DEF ScopeCancelled, Undisturbed
    <3>3. PICK state : call' = [call EXCEPT ![r] = [call[r] EXCEPT ![j] = state]]
      BY <2>3, <3>2 DEF CallbackStep, CallbackBegins, CallbackReturns, CallbackRaises,
                        CallbackCancelled, Ends, Step, CallStep
    <3>. QED
      BY <2>1, <3>1, <3>3 DEF CallIsFunction
  <2>. QED
    BY <2>1, <2>2, <2>3, MovesOfRouter
<1>2. IInv /\ [Next]_vars => [NoCall]_vars
  BY <1>1
<1>. QED
  BY <1>2, DispatchInvariance, PTL DEF Spec, NoCallAfterFailure

-----------------------------------------------------------------------------
(* The aio_gather of a concurrent router                                   *)

\* Its callbacks are cancelled only if one of them raised, or because the gather
\* over the routers cannot succeed any more.
CancelledForCause ==
  \A r \in Concurrent :
    AllFit(r) /\ (body[r] = "cancelled" \/ Some(r, "cancelled")) =>
      ~Gathered!Open \/ Some(r, "raised")

\* A step of the coroutine of a router shuts the gather or leaves it as it is.
LEMMA StepShuts ==
  ASSUME IInv, NEW r \in Router, NEW calls, NEW state, Step(r, calls, state)
  PROVE  /\ ~Gathered!Open => ~Gathered!Open'
         /\ state # "error" => Gathered!Open' = Gathered!Open
<1>. USE DEF Gathered!Open, Gathered!Failed, Router
<1>1. callerCancelled' = callerCancelled
  BY StepSettles
<1>2. CASE settled' = settled
  BY <1>1, <1>2
<1>3. CASE settled[r] = "pending" /\ \E how : settled' = [settled EXCEPT ![r] = how]
  <2>1. \A s \in Router : settled[s] = "error" => settled'[s] = "error"
    BY <1>3 DEF IInv, TypeOK
  <2>2. ASSUME state # "error" PROVE \A s \in Router : settled'[s] = "error" => settled[s] = "error"
    <3>1. \A how \in {"value", "dropped"} :
            settled' = [settled EXCEPT ![r] = how] =>
              \A s \in Router : settled'[s] = "error" => settled[s] = "error"
      BY DEF IInv, TypeOK
    <3>2. settled' = settled \/ \E how \in {"value", "dropped"} : settled' = [settled EXCEPT ![r] = how]
      BY <2>2, StepSettles
    <3>. QED
      BY <3>1, <3>2
  <2>. QED
    BY <1>1, <2>1, <2>2
<1>. QED
  BY <1>2, <1>3, StepSettles

\* What a failed router or the cancelled caller has shut stays so.
LEMMA StaysShut ==
  ASSUME IInv, [Next]_vars, ~Gathered!Open
  PROVE  ~Gathered!Open'
<1>1. CASE UNCHANGED <<settled, callerCancelled>>
  BY <1>1 DEF Gathered!Open, Gathered!Failed
<1>2. CASE CallerCancelled
  BY <1>2 DEF CallerCancelled, Gathered!CallerCancel, Gathered!Open
<1>3. CASE DispatchEnds
  BY <1>1, <1>3 DEF DispatchEnds, Gathered!Return, Gathered!Raise, Gathered!EndCancelled
<1>4. ASSUME NEW r \in Router, RouterStep(r)
      PROVE  ~Gathered!Open'
  <2>1. PICK calls, state : Step(r, calls, state)
    BY <1>4 DEF RouterStep, StartSequential, StartConcurrent, StartNonBlocking, ConcurrentEnds, Proceed
  <2>. QED
    BY <2>1, StepShuts
<1>5. ASSUME NEW r \in Router, NEW i \in Callback(r), CallbackStep(r, i)
      PROVE  ~Gathered!Open'
  <2>1. (\E calls, state : Step(r, calls, state)) \/ (\E state : CallStep(r, i, state))
    BY <1>5
    DEF CallbackStep, CallbackBegins, CallbackReturns, CallbackRaises, CallbackCancelled,
        Ends, Proceed
  <2>. QED
    BY <1>1, <2>1, StepShuts DEF CallStep, gatherVars
<1>. QED
  BY <1>1, <1>2, <1>3, <1>4, <1>5 DEF Next, Over, vars, gatherVars

\* What a step may do to a concurrent router.
StartsAll(r) ==
  /\ body[r] = "unstarted"
  /\ call'[r] = GatheredCalls(r)
  /\ AllFit(r) => body'[r] = InScope /\ UNCHANGED gatherVars
  /\ ~AllFit(r) => body'[r] = "error"

EndsAll(r) ==
  /\ body[r] \in {"running", "unreached"} /\ \A i \in Callback(r) : call[r][i] \notin Live
  /\ call'[r] = call[r] /\ body'[r] = EndOfCalls(r)
  /\ EndOfCalls(r) # "error" => Gathered!Open' = Gathered!Open

BeginsOne(r, i) ==
  /\ call[r][i] \in Live
  /\ \E state \in {"running", "unreached"} : call'[r] = [call[r] EXCEPT ![i] = state]
  /\ body'[r] = body[r] /\ UNCHANGED gatherVars

EndsOne(r, i, how) ==
  /\ call[r][i] \in Live
  /\ IF how = "cancelled" THEN ScopeCancelled(r) ELSE ~ScopeCancelled(r)
  /\ call'[r] = [call[r] EXCEPT ![i] = how] /\ body'[r] = body[r]
  /\ UNCHANGED gatherVars

LEMMA ConcurrentMoves ==
  ASSUME IInv, [Next]_vars, NEW r \in Concurrent
  PROVE  \/ body'[r] = body[r] /\ call'[r] = call[r]
         \/ StartsAll(r) \/ EndsAll(r)
         \/ \E i \in Callback(r) : BeginsOne(r, i)
         \/ \E i \in Callback(r), how \in {"returned", "raised", "cancelled"} : EndsOne(r, i, how)
<1>1. r \in Router /\ Strategy[r] = "concurrent" /\ CallIsFunction
      /\ body \in [Router -> BodyState]
  BY DEF Concurrent, IInv, TypeOK
<1>2. ASSUME NEW calls, NEW state, Step(r, calls, state)
      PROVE  /\ call'[r] = calls /\ body'[r] = state
             /\ state \in {"running", "unreached"} => UNCHANGED gatherVars
  BY <1>1, <1>2 DEF Step, CallIsFunction, Settles
<1>3. ASSUME NEW i \in Callback(r), NEW state, CallStep(r, i, state)
      PROVE  /\ call'[r] = [call[r] EXCEPT ![i] = state] /\ body'[r] = body[r]
             /\ UNCHANGED gatherVars
  BY <1>1, <1>3 DEF CallStep, CallIsFunction
<1>4. CASE StartConcurrent(r)
  <2>1. Step(r, GatheredCalls(r), IF AllFit(r) THEN InScope ELSE "error") /\ body[r] = "unstarted"
    BY <1>4 DEF StartConcurrent, Begins
  <2>2. InScope \in {"running", "unreached"}
    BY DEF InScope
  <2>. QED
    BY <1>2, <2>1, <2>2 DEF StartsAll
<1>5. CASE ConcurrentEnds(r)
  <2>1. Step(r, call[r], EndOfCalls(r))
    BY <1>5 DEF ConcurrentEnds
  <2>2. EndOfCalls(r) # "error" => Gathered!Open' = Gathered!Open
    BY <1>1, <2>1, StepShuts
  <2>3. call'[r] = call[r] /\ body'[r] = EndOfCalls(r)
    BY <1>2, <2>1
  <2>. QED
    BY <1>5, <2>2, <2>3 DEF EndsAll, ConcurrentEnds
<1>6. ASSUME NEW i \in Callback(r), CallbackBegins(r, i)
      PROVE  BeginsOne(r, i)
  <2>1. PICK state \in {"running", "unreached"} : CallStep(r, i, state)
    BY <1>6 DEF CallbackBegins
  <2>2. call[r][i] \in Live
    BY <1>6 DEF CallbackBegins, Live
  <2>. QED
    BY <1>3, <2>1, <2>2 DEF BeginsOne
<1>7. ASSUME NEW i \in Callback(r),
             CallbackReturns(r, i) \/ CallbackRaises(r, i) \/ CallbackCancelled(r, i)
      PROVE  \E how \in {"returned", "raised", "cancelled"} : EndsOne(r, i, how)
  <2>1. PICK how \in {"returned", "raised", "cancelled"} :
          /\ Ends(r, i, how) /\ call[r][i] \in Live
          /\ IF how = "cancelled" THEN ScopeCancelled(r) ELSE ~ScopeCancelled(r)
    BY <1>1, <1>7 DEF CallbackReturns, CallbackRaises, CallbackCancelled, MayStep, Live, Undisturbed
  <2>2. CallStep(r, i, how)
    BY <1>1, <2>1 DEF Ends
  <2>. QED
    BY <1>3, <2>1, <2>2 DEF EndsOne
<1>8. RouterStep(r) => StartConcurrent(r) \/ ConcurrentEnds(r)
  BY <1>1 DEF RouterStep, StartSequential, StartNonBlocking
<1>. QED
  BY <1>1, <1>4, <1>5, <1>6, <1>7, <1>8, MovesOfRouter DEF CallbackStep

LEMMA UnfitStays ==
  ASSUME [Next]_vars
  PROVE  unfit' = unfit
<1>1. ASSUME NEW r \in Router, RouterStep(r) PROVE unfit' = unfit
  BY <1>1
  DEF RouterStep, StartSequential, StartConcurrent, StartNonBlocking, ConcurrentEnds, Proceed, Step
<1>2. ASSUME NEW r \in Router, NEW i \in Callback(r), CallbackStep(r, i) PROVE unfit' = unfit
  BY <1>2
  DEF CallbackStep, CallbackBegins, CallbackReturns, CallbackRaises, CallbackCancelled, Ends,
      Proceed, Step, CallStep
<1>. QED
  BY <1>1, <1>2 DEF Next, CallerCancelled, DispatchEnds, Over, vars

LEMMA FitStays ==
  ASSUME [Next]_vars, NEW r \in Concurrent
  PROVE  AllFit(r)' = AllFit(r)
  BY UnfitStays DEF AllFit

LEMMA CauseStays ==
  ASSUME IInv, CancelledForCause, [Next]_vars
  PROVE  CancelledForCause'
<1>. SUFFICES ASSUME NEW r \in Concurrent, AllFit(r),
                     body'[r] = "cancelled" \/ Some(r, "cancelled")', Gathered!Open'
              PROVE  Some(r, "raised")'
  BY FitStays DEF CancelledForCause, Concurrent
<1>1. Gathered!Open /\ r \in Router /\ r \in Blocking /\ Strategy[r] = "concurrent"
  BY StaysShut DEF Concurrent, Blocking
<1>2. body[r] = "cancelled" \/ Some(r, "cancelled") => Some(r, "raised")
  BY <1>1 DEF CancelledForCause
<1>3. call[r] \in [Callback(r) -> CallState]
  BY <1>1 DEF IInv, TypeOK
<1>4. CASE body'[r] = body[r] /\ call'[r] = call[r]
  BY <1>2, <1>4 DEF Some
<1>5. CASE StartsAll(r)
  BY <1>5 DEF StartsAll, GatheredCalls, Some, InScope
<1>6. CASE EndsAll(r)
  BY <1>2, <1>6 DEF EndsAll, EndOfCalls, Some
<1>7. ASSUME NEW i \in Callback(r), NEW how \in CallState \ {"idle"}, call[r][i] \in Live,
             call'[r] = [call[r] EXCEPT ![i] = how], body'[r] = body[r],
             how = "cancelled" => ScopeCancelled(r)
      PROVE  Some(r, "raised")'
  <2>1. \A j \in Callback(r) : call'[r][j] = IF j = i THEN how ELSE call[r][j]
    BY <1>3, <1>7
  <2>2. Some(r, "raised") => Some(r, "raised")'
    BY <1>7, <2>1 DEF Some, Live
  <2>3. CASE how = "cancelled"
    BY <1>1, <1>2, <1>7, <2>2, <2>3 DEF ScopeCancelled
  <2>4. CASE how # "cancelled"
    BY <1>2, <1>7, <2>1, <2>2, <2>4 DEF Some
  <2>. QED
    BY <2>3, <2>4
<1>8. ASSUME NEW i \in Callback(r), BeginsOne(r, i) PROVE Some(r, "raised")'
  BY <1>7, <1>8 DEF BeginsOne, CallState, Live
<1>9. ASSUME NEW i \in Callback(r), NEW how \in {"returned", "raised", "cancelled"},
             EndsOne(r, i, how)
      PROVE  Some(r, "raised")'
  BY <1>7, <1>9 DEF EndsOne, CallState
<1>. QED
  BY <1>4, <1>5, <1>6, <1>8, <1>9, ConcurrentMoves

\* A step of a concurrent router whose callbacks are all fit, seen as a gather.
LEMMA FitStepGathers ==
  ASSUME IInv, CancelledForCause, [Next]_vars, NEW r \in Concurrent, AllFit(r)
  PROVE  [Calls(r)!GatherNext]_(Calls(r)!gatherVars)
<1>. USE DEF Calls!gatherVars
<1>1. /\ r \in Router /\ r \in Blocking /\ Strategy[r] = "concurrent"
      /\ call[r] \in [Callback(r) -> CallState] /\ body[r] \in BodyState
      /\ unfit[r] > Matching[r]
  BY ConstantTypes DEF Concurrent, Blocking, IInv, TypeOK, AllFit
<1>2. /\ SettledCall(r) = [i \in Callback(r) |-> SettledAs(call[r][i])]
      /\ SettledCall(r)' = [i \in Callback(r) |-> SettledAs(call'[r][i])]
      /\ OutcomeOf(r) = EndAs(body[r]) /\ OutcomeOf(r)' = EndAs(body'[r])
  BY FitStays DEF SettledCall, OutcomeOf
<1>3. /\ CancelledIn(r) <=> /\ ~Gathered!Open /\ \A i \in Callback(r) : call[r][i] # "raised"
                            /\ \E i \in Callback(r) : call[r][i] # "returned"
      /\ CancelledIn(r)' <=> /\ ~Gathered!Open'
                             /\ \A i \in Callback(r) : call'[r][i] # "raised"
                             /\ \E i \in Callback(r) : call'[r][i] # "returned"
      /\ CancelledIn(r) \in BOOLEAN /\ CancelledIn(r)' \in BOOLEAN
  BY FitStays DEF CancelledIn, Some
<1>4. body[r] # "unstarted" => ConcurrentShape(r, unfit[r], body[r], call[r])
  BY <1>1 DEF IInv, Shapes, Shape
<1>5. OutcomeOf(r)' = OutcomeOf(r) => OutputOf(r)' = OutputOf(r)
  BY DEF OutputOf
<1>7. CASE body'[r] = body[r] /\ call'[r] = call[r]
  <2>1. /\ SettledCall(r)' = SettledCall(r) /\ OutcomeOf(r)' = OutcomeOf(r)
        /\ OutputOf(r)' = OutputOf(r)
    BY <1>2, <1>5, <1>7
  <2>2. CASE CancelledIn(r)' = CancelledIn(r)
    BY <2>1, <2>2
  <2>3. CASE CancelledIn(r)' # CancelledIn(r)
    <3>1. ~CancelledIn(r) /\ CancelledIn(r)' = TRUE
      BY <1>3, <1>7, <2>3, StaysShut
    <3>2. /\ \A i \in Callback(r) : call[r][i] # "raised"
          /\ \E i \in Callback(r) : call[r][i] # "returned"
          /\ Gathered!Open
      BY <1>3, <1>7, <3>1
    <3>3. body[r] \in {"unstarted", "running", "unreached"}
      BY <1>1, <1>4, <3>2 DEF ConcurrentShape, CancelledForCause, Some, BodyState
    <3>4. OutcomeOf(r) = "none"
      BY <1>2, <3>3 DEF EndAs
    <3>5. Calls(r)!Failed = {}
      BY <1>2, <3>2 DEF Calls!Failed, SettledAs
    <3>6. Calls(r)!CallerCancel
      BY <2>1, <3>1, <3>4, <3>5 DEF Calls!CallerCancel
    <3>. QED
      BY <3>6 DEF Calls!GatherNext
  <2>. QED
    BY <2>2, <2>3
<1>8. ASSUME UNCHANGED gatherVars PROVE Gathered!Open' = Gathered!Open
  BY <1>8 DEF gatherVars, Gathered!Open, Gathered!Failed
<1>9. CASE StartsAll(r)
  <2>1. Gathered!Open' = Gathered!Open
    BY <1>8, <1>9 DEF StartsAll
  <2>2. \A i \in Callback(r) : call[r][i] = "idle" /\ call'[r][i] = "called"
    BY <1>1, <1>9 DEF StartsAll, GatheredCalls, IInv, Shapes, Shape
  <2>3. SettledCall(r)' = SettledCall(r)
    BY <1>2, <2>2 DEF SettledAs
  <2>4. OutcomeOf(r)' = OutcomeOf(r)
    BY <1>2, <1>9 DEF EndAs, StartsAll, InScope
  <2>5. CancelledIn(r)' = CancelledIn(r)
    BY <1>3, <2>1, <2>2
  <2>. QED
    BY <1>5, <2>3, <2>4, <2>5
<1>10. CASE EndsAll(r)
  <2>1. /\ SettledCall(r)' = SettledCall(r) /\ OutcomeOf(r) = "none" /\ OutputOf(r) = <<>>
        /\ OutcomeOf(r)' = EndAs(EndOfCalls(r))
    BY <1>2, <1>10 DEF EndsAll, EndAs, OutputOf
  <2>2. CancelledIn(r)' = CancelledIn(r)
    <3>1. CASE EndOfCalls(r) = "error"
      BY <1>3, <1>10, <3>1 DEF EndsAll, EndOfCalls, Some
    <3>2. CASE EndOfCalls(r) # "error"
      BY <1>3, <1>10, <3>2 DEF EndsAll
    <3>. QED
      BY <3>1, <3>2
  <2>3. \A i \in Callback(r) : call[r][i] \in {"returned", "raised", "cancelled"}
    BY <1>1, <1>4, <1>10 DEF ConcurrentShape, EndsAll, Some, CallState, Live
  <2>4. Calls(r)!AllSettled
    BY <1>2, <2>3 DEF Calls!AllSettled, SettledAs
  <2>5. CASE Some(r, "raised")
    <3>1. OutcomeOf(r)' = "raised" /\ OutputOf(r)' = <<>>
      BY <2>1, <2>5 DEF EndOfCalls, EndAs, OutputOf
    <3>2. Calls(r)!Failed # {}
      BY <1>2, <2>5 DEF Calls!Failed, SettledAs, Some
    <3>3. Calls(r)!Raise
      BY <2>1, <2>2, <2>4, <3>1, <3>2 DEF Calls!Raise
    <3>. QED
      BY <3>3 DEF Calls!GatherNext
  <2>6. ASSUME ~Some(r, "raised") PROVE Calls(r)!Failed = {}
    BY <1>2, <2>6 DEF Calls!Failed, SettledAs, Some
  <2>7. CASE ~Some(r, "raised") /\ Some(r, "cancelled")
    <3>1. OutcomeOf(r)' = "cancelled" /\ OutputOf(r)' = <<>>
      BY <2>1, <2>7 DEF EndOfCalls, EndAs, OutputOf
    <3>2. CancelledIn(r)
      BY <1>3, <2>7 DEF Some, CancelledForCause
    <3>3. Calls(r)!EndCancelled
      BY <2>1, <2>2, <2>4, <2>6, <2>7, <3>1, <3>2 DEF Calls!EndCancelled
    <3>. QED
      BY <3>3 DEF Calls!GatherNext
  <2>8. CASE ~Some(r, "raised") /\ ~Some(r, "cancelled")
    <3>1. OutcomeOf(r)' = "returned"
      BY <2>1, <2>8 DEF EndOfCalls, EndAs
    <3>2. \A i \in Callback(r) : call[r][i] = "returned"
      BY <2>3, <2>8 DEF Some
    <3>3. ~CancelledIn(r)
      BY <1>3, <3>2
    <3>4. \A i \in Callback(r) : SettledCall(r)[i] = "value"
      BY <1>2, <3>2 DEF SettledAs
    <3>5. OutputOf(r)' = [i \in Callback(r) |-> Calls(r)!ResultOf(i)]
      BY <3>1 DEF OutputOf, Calls!ResultOf
    <3>6. Calls(r)!Return
      BY <2>1, <2>2, <2>6, <2>8, <3>1, <3>3, <3>4, <3>5 DEF Calls!Return, Calls!Open
    <3>. QED
      BY <3>6 DEF Calls!GatherNext
  <2>. QED
    BY <2>5, <2>7, <2>8
<1>11. ASSUME NEW i \in Callback(r), BeginsOne(r, i)
       PROVE  UNCHANGED Calls(r)!gatherVars
  <2>1. PICK state \in {"running", "unreached"} :
          \A j \in Callback(r) : call'[r][j] = IF j = i THEN state ELSE call[r][j]
    BY <1>1, <1>11 DEF BeginsOne
  <2>2. SettledAs(state) = SettledAs(call[r][i])
    BY <1>11 DEF BeginsOne, Live, SettledAs
  <2>3. SettledCall(r)' = SettledCall(r)
    BY <1>2, <2>1, <2>2
  <2>4. OutcomeOf(r)' = OutcomeOf(r)
    BY <1>2, <1>11 DEF BeginsOne
  <2>5. Gathered!Open' = Gathered!Open /\ call[r][i] \in Live
    BY <1>8, <1>11 DEF BeginsOne
  <2>6. /\ (\E j \in Callback(r) : call'[r][j] = "raised") <=> \E j \in Callback(r) : call[r][j] = "raised"
        /\ \E j \in Callback(r) : call'[r][j] # "returned"
        /\ \E j \in Callback(r) : call[r][j] # "returned"
    BY <2>1, <2>5 DEF Live
  <2>7. CancelledIn(r)' = CancelledIn(r)
    BY <1>3, <2>5, <2>6
  <2>. QED
    BY <1>5, <2>3, <2>4, <2>7
<1>12. ASSUME NEW i \in Callback(r),
              NEW how \in {"returned", "raised", "cancelled"}, EndsOne(r, i, how)
       PROVE  Calls(r)!GatherNext
  <2>1. /\ call[r][i] \in Live /\ body'[r] = body[r] /\ UNCHANGED gatherVars
        /\ \A j \in Callback(r) : call'[r][j] = IF j = i THEN how ELSE call[r][j]
    BY <1>1, <1>12 DEF EndsOne
  <2>2. body[r] \in {"running", "unreached"}
    BY <1>1, <2>1, LiveCallback
  <2>3. /\ OutcomeOf(r) = "none" /\ OutcomeOf(r)' = "none"
        /\ OutputOf(r)' = OutputOf(r)
    BY <1>2, <1>5, <2>1, <2>2 DEF EndAs
  <2>4. SettledCall(r)[i] = "pending"
    BY <1>2, <2>1 DEF SettledAs, Live
  <2>5. SettledCall(r)' = [SettledCall(r) EXCEPT ![i] = SettledAs(how)]
    BY <1>2, <2>1
  <2>6. Calls(r)!Failed = {} <=> ~Some(r, "raised")
    BY <1>2 DEF Calls!Failed, SettledAs, Some
  <2>7. CASE how # "cancelled"
    <3>1. Gathered!Open /\ ~Some(r, "raised")
      BY <1>1, <1>12, <2>7 DEF EndsOne, ScopeCancelled
    <3>2. ~CancelledIn(r) /\ CancelledIn(r)' = CancelledIn(r)
      BY <1>3, <1>8, <2>1, <3>1
    <3>3. Calls(r)!Settle(i, SettledAs(how)) /\ Calls(r)!Open
      BY <2>3, <2>4, <2>5, <2>6, <3>1, <3>2 DEF Calls!Settle, Calls!Open
    <3>4. Calls(r)!Value(i) \/ Calls(r)!Error(i)
      BY <2>7, <3>3 DEF Calls!Value, Calls!Error, SettledAs
    <3>. QED
      BY <3>4 DEF Calls!GatherNext
  <2>8. CASE how = "cancelled"
    <3>1. ~Gathered!Open \/ Some(r, "raised")
      BY <1>1, <1>12, <2>8 DEF EndsOne, ScopeCancelled, CancelledForCause
    <3>2. CancelledIn(r)' = CancelledIn(r) /\ (CancelledIn(r) \/ Some(r, "raised"))
      BY <1>3, <1>8, <2>1, <2>8, <3>1 DEF Some, Live
    <3>3. Calls(r)!Settle(i, "dropped") /\ ~Calls(r)!Open
      BY <2>3, <2>4, <2>5, <2>6, <2>8, <3>2 DEF Calls!Settle, Calls!Open, SettledAs
    <3>. QED
      BY <3>3 DEF Calls!Drop, Calls!GatherNext
  <2>. QED
    BY <2>7, <2>8
<1>. QED
  BY <1>7, <1>9, <1>10, <1>11, <1>12, ConcurrentMoves

\* The callbacks of a concurrent router are gathered as Gather promises.
THEOREM ConcurrentGather == Spec => ConcurrentRoutersGather
<1> DEFINE Gathers == \A r \in Concurrent : [Calls(r)!GatherNext]_(Calls(r)!gatherVars)
<1>1. Init => \A r \in Concurrent : Calls(r)!GatherInit
  <2>. SUFFICES ASSUME Init, NEW r \in Concurrent PROVE Calls(r)!GatherInit
    OBVIOUS
  <2>1. /\ r \in Router /\ body[r] = "unstarted" /\ Gathered!Open
        /\ \A i \in Callback(r) : call[r][i] = "idle"
    BY DEF Concurrent, Init, Gathered!GatherInit, Gathered!Open, Gathered!Failed
  <2>2. SettledCall(r) = [i \in Callback(r) |-> "pending"]
    BY <2>1 DEF SettledCall, SettledAs
  <2>3. CancelledIn(r) = FALSE /\ OutcomeOf(r) = "none" /\ OutputOf(r) = <<>>
    BY <2>1 DEF CancelledIn, OutcomeOf, EndAs, OutputOf
  <2>. QED
    BY <2>2, <2>3 DEF Calls!GatherInit, Callback
<1>2. Init => CancelledForCause
  BY DEF Init, CancelledForCause, Concurrent, Some
<1>3. IInv /\ CancelledForCause /\ [Next]_vars => CancelledForCause'
  BY CauseStays
<1>4. ASSUME IInv, CancelledForCause, [Next]_vars, NEW r \in Concurrent
      PROVE  [Calls(r)!GatherNext]_(Calls(r)!gatherVars)
  <2>1. CASE AllFit(r)
    BY <1>4, <2>1, FitStepGathers
  <2>2. CASE ~AllFit(r)
    BY <1>4, <2>2, FitStays
    DEF Calls!gatherVars, SettledCall, CancelledIn, OutcomeOf, OutputOf
  <2>. QED
    BY <2>1, <2>2
<1>5. IInv /\ CancelledForCause /\ [Next]_vars => [Gathers]_vars
  BY <1>4
<1>. QED
  BY <1>1, <1>2, <1>3, <1>5, DispatchInvariance, PTL DEF Spec, ConcurrentRoutersGather

-----------------------------------------------------------------------------
(* The runner for GitHub Actions                                           *)

ReasonTypes ==
  /\ reason = [r \in Router |-> reason[r]]
  /\ \A r \in Router : reason[r] \in [Callback(r) -> Reason]

\* Until the process exits the dispatch goes on as it does anywhere else.
ActionInv ==
  /\ ReasonTypes
  /\ process \in {"starting", "dispatching"} => IInv
  /\ SuccessMeansHandled /\ CrashFails /\ FailureIsNotSuccess

LEMMA ReasonKinds ==
  ASSUME NEW why \in Reason
  PROVE  /\ why.code \in Nat /\ CodeOf(why) = why.code
         /\ why.code % 256 = 0 => why = Success \/ why.code >= 256
         /\ why.kind = "failure" /\ why.code < 256 => why.code % 256 \notin {Success.code, Neutral.code}
<1>. USE DEF Crash, Success, Neutral, Failure
<1>1. CASE why \in {Crash, Success, Neutral}
  BY <1>1 DEF CodeOf
<1>2. CASE \E code \in FailureCodes : why = Failure(code) /\ code \notin {Success.code, Neutral.code}
  <2>1. PICK code \in FailureCodes : why = Failure(code) /\ code \notin {0, 78}
    BY <1>2
  <2>2. code \in Nat
    BY <2>1, FailureCodesAssumption
  <2>3. why.code = code /\ CodeOf(why) = code
    BY <2>1 DEF CodeOf
  <2>. QED
    BY <2>1, <2>2, <2>3
<1>. QED
  BY <1>1, <1>2 DEF Reason, FailureOrError

LEMMA ActionInitInv ==
  ASSUME ActionInit
  PROVE  ActionInv
<1>1. IInv
  BY InitIInv DEF ActionInit
<1>2. ReasonTypes
  BY DEF ActionInit, ReasonTypes, Reason
<1>. QED
  BY <1>1, <1>2 DEF ActionInit, ActionInv, SuccessMeansHandled, CrashFails, FailureIsNotSuccess

LEMMA DispatchingInv ==
  ASSUME ActionInv,
         \/ EventRead \/ DispatchSteps
         \/ \E r \in Router : \E i \in Callback(r) : \E why \in Reason : CallbackFails(r, i, why)
  PROVE  ActionInv'
<1>1. process \in {"starting", "dispatching"} /\ process' = "dispatching" /\ IInv
  BY DEF EventRead, DispatchSteps, CallbackFails, ActionInv
<1>2. IInv'
  <2>1. CASE EventRead
    BY <1>1, <2>1, NextIInv DEF EventRead
  <2>2. CASE DispatchSteps
    <3>1. [Next]_vars
      BY <2>2 DEF DispatchSteps, Next, CallbackStep
    <3>. QED
      BY <1>1, <3>1, NextIInv
  <2>3. ASSUME NEW r \in Router, NEW i \in Callback(r), CallbackRaises(r, i)
        PROVE  IInv'
    BY <1>1, <2>3, CallbackStepIInv DEF CallbackStep
  <2>. QED
    BY <2>1, <2>2, <2>3 DEF CallbackFails
<1>3. ReasonTypes'
  <2>1. CASE EventRead \/ DispatchSteps
    BY <2>1 DEF EventRead, DispatchSteps, ActionInv, ReasonTypes
  <2>2. ASSUME NEW r \in Router, NEW i \in Callback(r), NEW why \in Reason, CallbackFails(r, i, why)
        PROVE  ReasonTypes'
    <3>1. reason' = [reason EXCEPT ![r] = [reason[r] EXCEPT ![i] = why]]
      BY <2>2 DEF CallbackFails
    <3>2. [reason[r] EXCEPT ![i] = why] \in [Callback(r) -> Reason]
      BY DEF ActionInv, ReasonTypes
    <3>3. /\ reason'[r] = [reason[r] EXCEPT ![i] = why]
          /\ \A s \in Router \ {r} : reason'[s] = reason[s]
      BY <3>1 DEF ActionInv, ReasonTypes
    <3>. QED
      BY <3>1, <3>2, <3>3 DEF ActionInv, ReasonTypes
  <2>. QED
    BY <2>1, <2>2
<1>. QED
  BY <1>1, <1>2, <1>3 DEF ActionInv, SuccessMeansHandled, CrashFails, FailureIsNotSuccess

\* What asyncio.run cancels at the exit is neither to blame nor has it returned.
LEMMA ExitKeeps ==
  ASSUME NEW end, NEW code, Exit(end, code)
  PROVE  /\ process' = end /\ status' = code % 256
         /\ UNCHANGED <<unfit, body, settled, callerCancelled, outcome, output, reason>>
         /\ \A r \in Router : \A i \in Callback(r) :
              /\ call[r][i] = "returned" <=> call'[r][i] = "returned"
              /\ call[r][i] = "raised" <=> call'[r][i] = "raised"
         /\ \A r \in Router : Culprits(r)' = Culprits(r)
         /\ Reasons' = Reasons
<1>1. /\ process' = end /\ status' = code % 256
      /\ UNCHANGED <<unfit, body, settled, callerCancelled, outcome, output, reason>>
  BY DEF Exit, gatherVars
<1>2. \A r \in Router : \A i \in Callback(r) :
        call'[r][i] = IF call[r][i] \in Live THEN "cancelled" ELSE call[r][i]
  BY DEF Exit
<1>3. \A r \in Router : \A i \in Callback(r) :
        /\ call[r][i] = "returned" <=> call'[r][i] = "returned"
        /\ call[r][i] = "raised" <=> call'[r][i] = "raised"
  BY <1>2 DEF Live
<1>4. \A r \in Router : Culprits(r)' = Culprits(r)
  BY <1>1, <1>3 DEF Culprits
<1>5. Reasons' = Reasons
  BY <1>1, <1>4 DEF Reasons
<1>. QED
  BY <1>1, <1>3, <1>4, <1>5

\* The exception of the one callback to blame.
LEMMA ReportedCulprit ==
  ASSUME IInv, ReasonTypes, outcome = "raised", NEW end, NEW code, Exit(end, code)
  PROVE  Reported' = Reported /\ Reported \in Reasons /\ Reported \in Reason
<1>1. PICK r \in Router : /\ \A s \in Router : settled[s] = "error" <=> s = r
                         /\ \E i \in Callback(r) : Culprits(r) = {i}
  BY CulpritOfFailure DEF OneCulprit
<1>2. PICK i \in Callback(r) : Culprits(r) = {i}
  BY <1>1
<1>3. /\ (CHOOSE s \in Router : settled[s] = "error") = r
      /\ (CHOOSE s \in Router : settled'[s] = "error") = r
  BY <1>1, ExitKeeps
<1>4. /\ (CHOOSE j \in Callback(r) : j \in Culprits(r)) = i
      /\ (CHOOSE j \in Callback(r) : j \in Culprits(r)') = i
  BY <1>2, ExitKeeps
<1>5. Reported = reason[r][i]
  BY <1>3, <1>4 DEF Reported
<1>6. Reported' = reason'[r][i]
  BY <1>3, <1>4 DEF Reported
<1>7. Reported' = Reported
  BY <1>5, <1>6, ExitKeeps
<1>8. Reported \in Reasons /\ Reported \in Reason
  BY <1>2, <1>5 DEF Reasons, ReasonTypes
<1>. QED
  BY <1>7, <1>8

\* A dispatch that returned has nobody to blame.
LEMMA NobodyToBlame ==
  ASSUME IInv, outcome = "returned"
  PROVE  Reasons = {}
<1>1. SUFFICES ASSUME NEW r \in Router, NEW i \in Culprits(r)
               PROVE  FALSE
  BY DEF Reasons
<1>2. i \in Callback(r) /\ call[r][i] = "raised" /\ (r \in Blocking \/ i = unfit[r])
  BY DEF Culprits
<1>3. r \notin Blocking /\ i = unfit[r]
  BY <1>2, ReturnedHandled DEF ReturnedMeansHandled
<1>4. body[r] = "value" /\ Strategy[r] = "nonblocking"
  BY <1>3 DEF IInv, GatherInv, OutcomeAgrees, SettledAgrees, Blocking
<1>5. NonBlockingShape(r, unfit[r], "value", call[r])
  BY <1>4 DEF IInv, Shapes, Shape
<1>6. unfit[r] > Matching[r]
  BY <1>5 DEF NonBlockingShape
<1>. QED
  BY <1>2, <1>3, <1>6, ConstantTypes DEF Callback

LEMMA ExitInv ==
  ASSUME ActionInv, EventUnreadable \/ Processed \/ Failed \/ Interrupted
  PROVE  ActionInv'
<1>1. IInv /\ ReasonTypes
  BY DEF ActionInv, EventUnreadable, Processed, Failed, Interrupted
<1>2. PICK end, code : end \in {"exited", "interrupted"} /\ Exit(end, code)
  BY DEF EventUnreadable, Processed, Failed, Interrupted
<1>3. process' \in {"exited", "interrupted"} /\ ReasonTypes'
  BY <1>1, <1>2, ExitKeeps DEF ReasonTypes
<1>4. CASE EventUnreadable
  <2>1. status' = 1
    BY <1>4, ExitKeeps DEF EventUnreadable, Crash
  <2>. QED
    BY <1>3, <2>1 DEF ActionInv, SuccessMeansHandled, CrashFails, FailureIsNotSuccess, Success, Neutral
<1>5. CASE Processed
  <2>1. Exit("exited", Success.code) /\ outcome = "returned"
    BY <1>5 DEF Processed
  <2>2. Reasons' = {} /\ outcome' = "returned"
    BY <1>1, <2>1, ExitKeeps, NobodyToBlame
  <2>3. \A r \in Blocking : \A i \in Callback(r) : call'[r][i] = "returned"
    <3>1. \A r \in Blocking : r \in Router
      BY DEF Blocking
    <3>2. \A r \in Blocking : \A i \in Callback(r) : call[r][i] = "returned"
      BY <1>1, <2>1, <3>1, ReturnedHandled DEF ReturnedMeansHandled
    <3>. QED
      BY <2>1, <3>1, <3>2, ExitKeeps
  <2>. QED
    BY <1>3, <2>2, <2>3 DEF ActionInv, SuccessMeansHandled, CrashFails, FailureIsNotSuccess
<1>6. CASE Failed
  <2>1. Exit("exited", CodeOf(Reported)) /\ outcome = "raised"
    BY <1>6 DEF Failed
  <2>2. /\ Reported' = Reported /\ Reported \in Reasons /\ Reported \in Reason
        /\ Reasons' = Reasons /\ status' = CodeOf(Reported) % 256
    BY <1>1, <2>1, ReportedCulprit, ExitKeeps
  <2>3. /\ status' = Reported.code % 256
        /\ Reported.code % 256 = 0 => Reported = Success \/ Reported.code >= 256
        /\ Reported.kind = "failure" /\ Reported.code < 256 => Reported.code % 256 \notin {Success.code, Neutral.code}
    BY <2>2, ReasonKinds
  <2>4. SuccessMeansHandled'
    BY <2>2, <2>3 DEF SuccessMeansHandled
  <2>5. CrashFails'
    <3>1. Reported = Crash => status' = 1
      BY <2>3 DEF Crash
    <3>. QED
      BY <2>2, <3>1 DEF CrashFails
  <2>6. FailureIsNotSuccess'
    BY <2>2, <2>3 DEF FailureIsNotSuccess
  <2>. QED
    BY <1>3, <2>4, <2>5, <2>6 DEF ActionInv
<1>7. CASE Interrupted
  <2>1. process' = "interrupted"
    BY <1>7, ExitKeeps DEF Interrupted
  <2>. QED
    BY <1>3, <2>1 DEF ActionInv, SuccessMeansHandled, CrashFails, FailureIsNotSuccess
<1>. QED
  BY <1>4, <1>5, <1>6, <1>7

LEMMA ActionStutterInv ==
  ASSUME ActionInv, UNCHANGED actionVars
  PROVE  ActionInv'
<1>1. UNCHANGED <<vars, process, reason, status>> /\ UNCHANGED <<unfit, call, settled, outcome>>
  BY DEF actionVars, vars, gatherVars
<1>2. process' \in {"starting", "dispatching"} => IInv'
  BY <1>1, NextIInv DEF ActionInv
<1>3. ReasonTypes'
  BY <1>1 DEF ActionInv, ReasonTypes
<1>4. Reasons' = Reasons /\ Reported' = Reported
  BY <1>1 DEF Reasons, Reported, Culprits
<1>. QED
  BY <1>1, <1>2, <1>3, <1>4 DEF ActionInv, SuccessMeansHandled, CrashFails, FailureIsNotSuccess

\* What the exit status of the action says holds for any routers and callbacks,
\* and for any return codes that callbacks give to ActionFailure.
THEOREM ActionInvariance == ActionSpec => []ActionInv
<1>1. ActionInit => ActionInv
  BY ActionInitInv
<1>2. ActionInv /\ [ActionNext]_actionVars => ActionInv'
  BY DispatchingInv, ExitInv, ActionStutterInv DEF ActionNext, Exited
<1>. QED
  BY <1>1, <1>2, PTL DEF ActionSpec

\* run exits with 0 only after every callback of a blocking router returned, or
\* for a callback that asked for it, by ActionSuccess or a code beyond a byte.
THEOREM StatusOfSuccess == ActionSpec => []SuccessMeansHandled
<1>1. ActionInv => SuccessMeansHandled
  BY DEF ActionInv
<1>. QED
  BY <1>1, ActionInvariance, PTL

\* An ordinary exception of a callback makes run exit with 1.
THEOREM StatusOfCrash == ActionSpec => []CrashFails
<1>1. ActionInv => CrashFails
  BY DEF ActionInv
<1>. QED
  BY <1>1, ActionInvariance, PTL

\* An ActionFailure is not taken for a success or for a neutral end.
THEOREM StatusOfFailure == ActionSpec => []FailureIsNotSuccess
<1>1. ActionInv => FailureIsNotSuccess
  BY DEF ActionInv
<1>. QED
  BY <1>1, ActionInvariance, PTL
=============================================================================
