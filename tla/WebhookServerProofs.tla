------------------------ MODULE WebhookServerProofs -------------------------
(***************************************************************************)
(* Safety of WebhookServer for any number of connections, deliveries,      *)
(* installations and handlers.                                             *)
(***************************************************************************)
EXTENDS WebhookServer, FiniteSetTheorems, TLAPS

-----------------------------------------------------------------------------
(* The inductive invariant *)

HandlerIsFunction == handler = [e \in Event |-> handler[e]]

\* A delivery that is being read has no task yet and is on one connection only.
ConnInv ==
  /\ \A c \in Conn : conn[c].pc = "reading" =>
       HeadersAccepted(conn[c].request) /\ task[conn[c].event] = "none"
  /\ \A c, d \in Conn :
       conn[c] # Idle /\ conn[d] # Idle /\ conn[c].event = conn[d].event => c = d

\* What the handlers of e are to see.
Proper(e) ==
  [github_event |-> e,
   app_installation |-> InstallOf[e],
   app_installation_client |-> IF InstallOf[e] = NoInstall THEN Unset ELSE InstallOf[e]]

\* What e sets before the lookup.
Unbound(e) ==
  [github_event |-> e, app_installation |-> NoInstall, app_installation_client |-> Unset]

\* A connection never sets anything, so an event task starts with nothing set,
\* and nothing but its own steps changes what it sees.
ContextInv ==
  /\ \A c \in Conn : ctx[c] = EmptyContext
  /\ \A e \in Event :
       /\ task[e] = "created" => ctx[e] = EmptyContext
       /\ task[e] = "lookup" =>
            /\ InstallOf[e] # NoInstall
            /\ ctx[e] = Unbound(e)
       /\ task[e] = "sleep" => ctx[e] = Proper(e)
       /\ task[e] = "dispatch" => view[e] = Proper(e)

\* Handlers run only while their event is dispatched; one of them fails at most,
\* and only a dispatch that is over has had its failure captured.
HandlerInv ==
  \A e \in Event :
    /\ task[e] # "dispatch" => \A h \in Routes[e] : handler[e][h] # "running"
    /\ \A g, h \in Routes[e] : handler[e][g] = "raised" /\ handler[e][h] = "raised" => g = h
    /\ e \in captured <=> task[e] = "done" /\ \E h \in Routes[e] : handler[e][h] = "raised"

\* After a shutdown nothing is accepted, and what is left has been told to stop.
ShutdownInv ==
  /\ server \in {"stopping", "stopped", "closed"} =>
       /\ \A c \in Conn : conn[c] = Idle
       /\ \A e \in Event : Active(e) => e \in cancelled
  /\ server = "closed" => \A e \in Event : ~Active(e)

IInv == /\ TypeOK /\ HandlerIsFunction /\ ConnInv /\ OnlyTrustedDeliveries
        /\ ContextInv /\ HandlerInv /\ ShutdownInv

LEMMA ServingType ==
  ASSUME TypeOK, NEW c \in Conn, conn[c] # Idle
  PROVE  /\ conn[c].event \in Event /\ conn[c].request \in Request
         /\ conn[c].pc \in {"reading", "responding"}
         /\ conn[c] = Serving(conn[c].pc, conn[c].event, conn[c].request)
<1>1. PICK pc \in {"reading", "responding"}, e \in Event, r \in Request : conn[c] = Serving(pc, e, r)
  BY DEF TypeOK, ConnState
<1>. QED
  BY <1>1 DEF Serving

LEMMA EmptyContextType == EmptyContext \in Context
  BY DEF EmptyContext, Context

LEMMA InitIInv ==
  ASSUME Init
  PROVE  IInv
<1>1. TypeOK /\ HandlerIsFunction
  BY EmptyContextType DEF Init, TypeOK, ConnState, HandlerIsFunction, ServerState, TaskState, HandlerState
<1>2. ConnInv /\ OnlyTrustedDeliveries /\ ContextInv
  BY DEF Init, ConnInv, OnlyTrustedDeliveries, ContextInv, Idle
<1>3. HandlerInv /\ ShutdownInv
  BY DEF Init, HandlerInv, ShutdownInv
<1>. QED
  BY <1>1, <1>2, <1>3 DEF IInv

\* What only event tasks and their handlers can disturb.
LEMMA RestKept ==
  ASSUME IInv, UNCHANGED <<secret, task, origin, ctx, handler, view, captured>>
  PROVE  OnlyTrustedDeliveries' /\ ContextInv' /\ HandlerInv'
<1>1. OnlyTrustedDeliveries'
  BY DEF IInv, OnlyTrustedDeliveries
<1>2. ContextInv'
  BY DEF IInv, ContextInv, Unbound, Proper
<1>3. HandlerInv'
  BY DEF IInv, HandlerInv
<1>. QED
  BY <1>1, <1>2, <1>3

-----------------------------------------------------------------------------
(* run_forever *)

LEMMA ServerIInv ==
  ASSUME IInv, ServerStep
  PROVE  IInv'
<1>1. /\ UNCHANGED <<secret, task, origin, ctx, handler, view, captured>>
      /\ server' \in ServerState
      /\ conn' = conn \/ conn' = [c \in Conn |-> Idle]
      /\ cancelled' = cancelled \/ cancelled' = {e \in Event : Active(e)}
  BY DEF ServerStep, StartServing, PrepareFails, Shutdown, StopSite, CloseLoop,
         eventVars, ServerState, TasksOfLoop
<1>2. TypeOK' /\ HandlerIsFunction'
  BY <1>1 DEF IInv, TypeOK, ConnState, HandlerIsFunction
<1>3. ConnInv'
  <2>1. CASE conn' = conn
    BY <1>1, <2>1 DEF IInv, ConnInv, HeadersAccepted
  <2>2. CASE conn' = [c \in Conn |-> Idle]
    BY <2>2 DEF ConnInv, Idle
  <2>. QED
    BY <1>1, <2>1, <2>2
<1>4. OnlyTrustedDeliveries' /\ ContextInv' /\ HandlerInv'
  BY <1>1, RestKept
<1>5. ShutdownInv'
  <2>1. CASE StartServing \/ PrepareFails
    BY <2>1 DEF StartServing, PrepareFails, ShutdownInv
  <2>2. CASE Shutdown
    BY <2>2 DEF Shutdown, TasksOfLoop, eventVars, ShutdownInv, Active
  <2>3. CASE StopSite
    BY <2>3 DEF StopSite, eventVars, IInv, ShutdownInv, Active
  <2>4. CASE CloseLoop
    BY <2>4 DEF CloseLoop, eventVars, IInv, ShutdownInv, Active
  <2>. QED
    BY <2>1, <2>2, <2>3, <2>4 DEF ServerStep
<1>. QED
  BY <1>2, <1>3, <1>4, <1>5 DEF IInv

-----------------------------------------------------------------------------
(* The HTTP entry point *)

LEMMA ReceiveIInv ==
  ASSUME IInv, NEW c \in Conn, NEW e \in Event, NEW r \in Request, Receive(c, e, r)
  PROVE  IInv'
<1>. DEFINE pc == IF HeadersAccepted(r) THEN "reading" ELSE "responding"
<1>1. /\ server = "serving" /\ conn[c] = Idle /\ task[e] = "none"
      /\ \A d \in Conn : conn[d] # Idle => conn[d].event # e
      /\ conn' = [conn EXCEPT ![c] = Serving(pc, e, r)]
      /\ UNCHANGED <<secret, server, task, origin, ctx, handler, view, captured, cancelled>>
  BY DEF Receive, AcceptsRequests, Presentable, eventVars
<1>2. conn'[c] = Serving(pc, e, r) /\ \A d \in Conn \ {c} : conn'[d] = conn[d]
  BY <1>1 DEF IInv, TypeOK
<1>3. TypeOK' /\ HandlerIsFunction'
  <2>1. conn' \in [Conn -> ConnState]
    BY <1>1 DEF IInv, TypeOK, ConnState
  <2>. QED
    BY <1>1, <2>1 DEF IInv, TypeOK, HandlerIsFunction
<1>4. ConnInv'
  <2>1. \A d \in Conn : conn'[d].pc = "reading" =>
          HeadersAccepted(conn'[d].request) /\ task[conn'[d].event] = "none"
    BY <1>1, <1>2 DEF IInv, ConnInv, Serving
  <2>2. \A d, f \in Conn :
          conn'[d] # Idle /\ conn'[f] # Idle /\ conn'[d].event = conn'[f].event => d = f
    BY <1>1, <1>2 DEF IInv, ConnInv, Serving
  <2>. QED
    BY <1>1, <2>1, <2>2 DEF ConnInv, HeadersAccepted
<1>5. OnlyTrustedDeliveries' /\ ContextInv' /\ HandlerInv'
  BY <1>1, RestKept
<1>6. ShutdownInv'
  BY <1>1 DEF ShutdownInv
<1>. QED
  BY <1>3, <1>4, <1>5, <1>6 DEF IInv

\* What both halves of a request do to its connection.
LEMMA ConnectionMoves ==
  ASSUME IInv, NEW c \in Conn, conn[c] # Idle,
         \/ conn' = [conn EXCEPT ![c].pc = "responding"]
         \/ conn' = [conn EXCEPT ![c] = Idle]
  PROVE  /\ conn' \in [Conn -> ConnState]
         /\ conn'[c].pc # "reading"
         /\ conn'[c] # Idle => conn'[c].event = conn[c].event
         /\ \A d \in Conn \ {c} : conn'[d] = conn[d]
<1>1. /\ conn[c].event \in Event /\ conn[c].request \in Request
      /\ conn[c] = Serving(conn[c].pc, conn[c].event, conn[c].request)
  BY ServingType DEF IInv
<1>2. CASE conn' = [conn EXCEPT ![c].pc = "responding"]
  <2>1. conn' = [conn EXCEPT ![c] = Serving("responding", conn[c].event, conn[c].request)]
    BY <1>1, <1>2 DEF Serving
  <2>. QED
    BY <1>1, <2>1 DEF IInv, TypeOK, ConnState, Serving
<1>3. CASE conn' = [conn EXCEPT ![c] = Idle]
  BY <1>3 DEF IInv, TypeOK, ConnState, Idle
<1>. QED
  BY <1>2, <1>3

LEMMA ReadBodyIInv ==
  ASSUME IInv, NEW c \in Conn, ReadBody(c)
  PROVE  IInv'
<1>. DEFINE e == conn[c].event
            r == conn[c].request
<1>1. /\ conn[c].pc = "reading" /\ conn' = [conn EXCEPT ![c].pc = "responding"]
      /\ UNCHANGED <<secret, server, handler, view, cancelled, captured>>
  BY DEF ReadBody
<1>2. conn[c] # Idle
  BY <1>1 DEF Idle
<1>3. e \in Event /\ r \in Request /\ HeadersAccepted(r) /\ task[e] = "none"
  BY <1>1, <1>2, ServingType DEF IInv, ConnInv
<1>4. /\ conn' \in [Conn -> ConnState]
      /\ conn'[c].pc # "reading"
      /\ conn'[c] # Idle => conn'[c].event = e
      /\ \A d \in Conn \ {c} : conn'[d] = conn[d]
  BY <1>1, <1>2, ConnectionMoves
<1>5. \A d \in Conn : conn'[d].pc = "reading" => d # c /\ conn[d] # Idle /\ conn[d].event # e
  <2>1. SUFFICES ASSUME NEW d \in Conn, conn'[d].pc = "reading"
                 PROVE  d # c /\ conn[d] # Idle /\ conn[d].event # e
    OBVIOUS
  <2>2. d # c
    BY <1>4, <2>1
  <2>3. conn'[d] = conn[d]
    BY <1>4, <2>2
  <2>4. conn[d] # Idle
    BY <2>1, <2>3 DEF Idle
  <2>. QED
    BY <1>2, <2>2, <2>4 DEF IInv, ConnInv
<1>6. ShutdownInv /\ server \notin {"stopping", "stopped", "closed"}
  BY <1>2 DEF IInv, ShutdownInv
<1>7. ShutdownInv'
  BY <1>1, <1>6 DEF ShutdownInv
<1>8. \A d, f \in Conn :
        conn'[d] # Idle /\ conn'[f] # Idle /\ conn'[d].event = conn'[f].event => d = f
  <2>1. \A d, f \in Conn :
          conn[d] # Idle /\ conn[f] # Idle /\ conn[d].event = conn[f].event => d = f
    BY DEF IInv, ConnInv
  <2>2. \A d \in Conn : conn'[d] # Idle => conn[d] # Idle /\ conn'[d].event = conn[d].event
    BY <1>2, <1>4
  <2>. QED
    BY <2>1, <2>2
<1>. HIDE DEF e, r
<1>9. CASE BodyAccepted(r)
  <2>1. /\ task' = [task EXCEPT ![e] = "created"]
        /\ origin' = [origin EXCEPT ![e] = <<c, r>>]
        /\ ctx' = [ctx EXCEPT ![e] = ctx[c]]
    BY <1>9 DEF ReadBody, e, r
  <2>2. /\ task'[e] = "created" /\ \A f \in Event \ {e} : task'[f] = task[f]
        /\ origin'[e] = <<c, r>> /\ \A f \in Event \ {e} : origin'[f] = origin[f]
    BY <1>3, <2>1 DEF IInv, TypeOK
  <2>3. ctx'[e] = EmptyContext /\ \A x \in (Conn \cup Event) \ {e} : ctx'[x] = ctx[x]
    BY <1>3, <2>1 DEF IInv, TypeOK, ContextInv
  <2>4. TypeOK' /\ HandlerIsFunction'
    <3>1. ctx[c] \in Context
      BY DEF IInv, TypeOK
    <3>2. task' \in [Event -> TaskState]
      BY <2>1 DEF IInv, TypeOK, TaskState
    <3>3. origin' \in [Event -> {Unset} \cup (Conn \X Request)]
      BY <1>3, <2>1 DEF IInv, TypeOK
    <3>4. ctx' \in [Conn \cup Event -> Context]
      BY <2>1, <3>1 DEF IInv, TypeOK
    <3>. QED
      BY <1>1, <1>4, <3>2, <3>3, <3>4 DEF IInv, TypeOK, HandlerIsFunction
  <2>5. ConnInv'
    <3>1. \A d \in Conn : conn'[d].pc = "reading" =>
            HeadersAccepted(conn'[d].request) /\ task'[conn'[d].event] = "none"
      <4>1. SUFFICES ASSUME NEW d \in Conn, conn'[d].pc = "reading"
                     PROVE  HeadersAccepted(conn'[d].request) /\ task'[conn'[d].event] = "none"
        OBVIOUS
      <4>2. d # c /\ conn'[d] = conn[d] /\ conn[d].event # e /\ conn[d].event \in Event
        BY <1>4, <1>5, <4>1, ServingType DEF IInv
      <4>. QED
        BY <2>2, <4>1, <4>2 DEF IInv, ConnInv
    <3>. QED
      BY <1>1, <1>8, <3>1 DEF ConnInv, HeadersAccepted
  <2>6. OnlyTrustedDeliveries'
    <3>1. /\ r.method = "POST" /\ r.wellFormed
          /\ r.signature = IF secret THEN "good" ELSE "none"
      <4>1. r.signature \in {"none", "good", "bad"} /\ secret \in BOOLEAN
        BY <1>3 DEF IInv, TypeOK, Request
      <4>. QED
        BY <1>3, <1>9, <4>1 DEF HeadersAccepted, BodyAccepted
    <3>2. origin'[e][2] = r
      BY <2>2
    <3>. QED
      BY <1>1, <2>2, <3>1, <3>2 DEF IInv, OnlyTrustedDeliveries
  <2>7. ContextInv'
    <3>1. e \notin Conn
      BY <1>3, TaskAssumption
    <3>. QED
      BY <1>1, <2>2, <2>3, <3>1 DEF IInv, ContextInv, Unbound, Proper
  <2>8. HandlerInv'
    BY <1>1, <1>3, <2>2 DEF IInv, HandlerInv
  <2>. QED
    BY <1>7, <2>4, <2>5, <2>6, <2>7, <2>8 DEF IInv
<1>10. CASE ~ BodyAccepted(r)
  <2>1. UNCHANGED <<task, origin, ctx>>
    BY <1>10 DEF ReadBody, e, r
  <2>2. TypeOK' /\ HandlerIsFunction'
    BY <1>1, <1>4, <2>1 DEF IInv, TypeOK, HandlerIsFunction
  <2>3. ConnInv'
    BY <1>1, <1>4, <1>5, <1>8, <2>1 DEF IInv, ConnInv, HeadersAccepted
  <2>4. OnlyTrustedDeliveries' /\ ContextInv' /\ HandlerInv'
    BY <1>1, <2>1, RestKept
  <2>. QED
    BY <1>7, <2>2, <2>3, <2>4 DEF IInv
<1>. QED
  BY <1>9, <1>10

LEMMA AnswerIInv ==
  ASSUME IInv, NEW c \in Conn, Answer(c)
  PROVE  IInv'
<1>1. /\ conn[c].pc = "responding" /\ conn' = [conn EXCEPT ![c] = Idle]
      /\ UNCHANGED <<secret, server, task, origin, ctx, handler, view, captured, cancelled>>
  BY DEF Answer, eventVars
<1>2. conn[c] # Idle
  BY <1>1 DEF Idle
<1>3. /\ conn' \in [Conn -> ConnState]
      /\ conn'[c].pc # "reading" /\ \A d \in Conn \ {c} : conn'[d] = conn[d]
  BY <1>1, <1>2, ConnectionMoves
<1>4. conn'[c] = Idle
  BY <1>1 DEF IInv, TypeOK
<1>5. TypeOK' /\ HandlerIsFunction'
  BY <1>1, <1>3 DEF IInv, TypeOK, HandlerIsFunction
<1>6. ConnInv'
  BY <1>1, <1>3, <1>4 DEF IInv, ConnInv, HeadersAccepted
<1>7. OnlyTrustedDeliveries' /\ ContextInv' /\ HandlerInv'
  BY <1>1, RestKept
<1>8. ShutdownInv'
  BY <1>1, <1>3, <1>4 DEF IInv, ShutdownInv, Active
<1>. QED
  BY <1>5, <1>6, <1>7, <1>8 DEF IInv

-----------------------------------------------------------------------------
(* route_github_event *)

\* What no step of an event task on its way can disturb.
LEMMA TaskMoves ==
  ASSUME IInv, NEW e \in Event, Active(e), NEW state \in TaskState \ {"none"},
         task' = [task EXCEPT ![e] = state],
         UNCHANGED <<secret, server, conn, origin, cancelled>>
  PROVE  /\ task' \in [Event -> TaskState]
         /\ task'[e] = state /\ \A f \in Event \ {e} : task'[f] = task[f]
         /\ ConnInv' /\ OnlyTrustedDeliveries' /\ ShutdownInv'
<1>1. task' \in [Event -> TaskState] /\ task'[e] = state /\ \A f \in Event \ {e} : task'[f] = task[f]
  BY DEF IInv, TypeOK
<1>2. task[e] # "none"
  BY DEF Active
<1>3. ConnInv'
  <2>1. \A c \in Conn : conn[c].pc = "reading" =>
          HeadersAccepted(conn[c].request) /\ task'[conn[c].event] = "none"
    <3>1. SUFFICES ASSUME NEW c \in Conn, conn[c].pc = "reading"
                   PROVE  HeadersAccepted(conn[c].request) /\ task'[conn[c].event] = "none"
      OBVIOUS
    <3>2. conn[c].event \in Event
      BY <3>1, ServingType DEF IInv, Idle
    <3>. QED
      BY <1>1, <1>2, <3>1, <3>2 DEF IInv, ConnInv
  <2>. QED
    BY <2>1 DEF IInv, ConnInv, HeadersAccepted
<1>4. OnlyTrustedDeliveries'
  BY <1>1, <1>2 DEF IInv, OnlyTrustedDeliveries
<1>5. ShutdownInv'
  BY <1>1 DEF IInv, ShutdownInv, Active
<1>. QED
  BY <1>1, <1>3, <1>4, <1>5

LEMMA ContextIs ==
  ASSUME NEW e, NEW i, NEW client,
         NEW x \in [github_event : {e}, app_installation : {i}, app_installation_client : {client}]
  PROVE  x = [github_event |-> e, app_installation |-> i, app_installation_client |-> client]
  OBVIOUS

LEMMA BoundContext ==
  ASSUME NEW e, NEW i
  PROVE  [Unbound(e) EXCEPT !.app_installation = i, !.app_installation_client = i] =
           [github_event |-> e, app_installation |-> i, app_installation_client |-> i]
<1>1. [Unbound(e) EXCEPT !.app_installation = i, !.app_installation_client = i] \in
        [github_event : {e}, app_installation : {i}, app_installation_client : {i}]
  BY DEF Unbound
<1>. QED
  BY <1>1, ContextIs

LEMMA StartRoutingIInv ==
  ASSUME IInv, NEW e \in Event, StartRouting(e)
  PROVE  IInv'
<1>. DEFINE new == ContextOfEvent(e)
            state == IF InstallOf[e] = NoInstall THEN "sleep" ELSE "lookup"
<1>1. /\ task[e] = "created" /\ task' = [task EXCEPT ![e] = state]
      /\ ctx' = [ctx EXCEPT ![e] = new]
      /\ UNCHANGED <<secret, server, conn, origin, handler, view, cancelled, captured>>
  BY DEF StartRouting, Runs, SetContext
<1>2. new = Unbound(e)
  <2>1. ctx[e] = EmptyContext
    BY <1>1 DEF IInv, ContextInv
  <2>2. [EmptyContext EXCEPT !.github_event = e, !.app_installation = NoInstall] \in
          [github_event : {e}, app_installation : {NoInstall}, app_installation_client : {Unset}]
    BY DEF EmptyContext
  <2>3. new = [EmptyContext EXCEPT !.github_event = e, !.app_installation = NoInstall]
    BY <2>1 DEF ContextOfEvent
  <2>. QED
    BY <2>2, <2>3, ContextIs DEF Unbound
<1>3. new \in Context
  BY <1>2 DEF Unbound, Context
<1>4. InstallOf[e] = NoInstall => new = Proper(e)
  BY <1>2 DEF Unbound, Proper
<1>. HIDE DEF new
<1>5. /\ task' \in [Event -> TaskState]
      /\ task'[e] = state /\ \A f \in Event \ {e} : task'[f] = task[f]
      /\ ConnInv' /\ OnlyTrustedDeliveries' /\ ShutdownInv'
  <2>1. Active(e) /\ state \in TaskState \ {"none"}
    BY <1>1 DEF Active, TaskState, TaskEnded
  <2>. QED
    BY <1>1, <2>1, TaskMoves
<1>6. ctx' \in [Conn \cup Event -> Context] /\ ctx'[e] = new /\ \A x \in (Conn \cup Event) \ {e} : ctx'[x] = ctx[x]
  BY <1>1, <1>3 DEF IInv, TypeOK
<1>7. TypeOK' /\ HandlerIsFunction'
  BY <1>1, <1>5, <1>6 DEF IInv, TypeOK, HandlerIsFunction
<1>8. ContextInv'
  BY <1>1, <1>2, <1>4, <1>5, <1>6, TaskAssumption DEF IInv, ContextInv, Unbound, Proper
<1>9. HandlerInv'
  BY <1>1, <1>5 DEF IInv, HandlerInv
<1>. QED
  BY <1>5, <1>7, <1>8, <1>9 DEF IInv

LEMMA LookupSucceedsIInv ==
  ASSUME IInv, NEW e \in Event, LookupSucceeds(e)
  PROVE  IInv'
<1>. DEFINE new == [ctx[e] EXCEPT !.app_installation = InstallOf[e],
                                  !.app_installation_client = InstallOf[e]]
<1>1. /\ task[e] = "lookup" /\ task' = [task EXCEPT ![e] = "sleep"]
      /\ ctx' = [ctx EXCEPT ![e] = new]
      /\ UNCHANGED <<secret, server, conn, origin, handler, view, cancelled, captured>>
  BY DEF LookupSucceeds, Runs, SetContext
<1>2. new = Proper(e)
  <2>1. ctx[e] = Unbound(e) /\ InstallOf[e] # NoInstall
    BY <1>1 DEF IInv, ContextInv
  <2>2. new = [github_event |-> e, app_installation |-> InstallOf[e],
               app_installation_client |-> InstallOf[e]]
    BY <2>1, BoundContext
  <2>3. Proper(e) = [github_event |-> e, app_installation |-> InstallOf[e],
                     app_installation_client |-> InstallOf[e]]
    BY <2>1 DEF Proper
  <2>. QED
    BY <2>2, <2>3
<1>3. new \in Context
  <2>1. InstallOf[e] \in Installation
    BY <1>1, InstallOfAssumption DEF IInv, ContextInv
  <2>. QED
    BY <1>2, <2>1, NoInstallAssumption DEF Proper, Context
<1>. HIDE DEF new
<1>4. /\ task' \in [Event -> TaskState]
      /\ task'[e] = "sleep" /\ \A f \in Event \ {e} : task'[f] = task[f]
      /\ ConnInv' /\ OnlyTrustedDeliveries' /\ ShutdownInv'
  <2>1. Active(e) /\ "sleep" \in TaskState \ {"none"}
    BY <1>1 DEF Active, TaskState, TaskEnded
  <2>. QED
    BY <1>1, <2>1, TaskMoves
<1>5. ctx' \in [Conn \cup Event -> Context] /\ ctx'[e] = new /\ \A x \in (Conn \cup Event) \ {e} : ctx'[x] = ctx[x]
  BY <1>1, <1>3 DEF IInv, TypeOK
<1>6. TypeOK' /\ HandlerIsFunction'
  BY <1>1, <1>4, <1>5 DEF IInv, TypeOK, HandlerIsFunction
<1>7. ContextInv'
  BY <1>1, <1>2, <1>4, <1>5, TaskAssumption DEF IInv, ContextInv, Unbound, Proper
<1>8. HandlerInv'
  BY <1>1, <1>4 DEF IInv, HandlerInv
<1>. QED
  BY <1>4, <1>6, <1>7, <1>8 DEF IInv

\* A task that ends before its event has come to the handlers.
LEMMA EndsEarlyIInv ==
  ASSUME IInv, NEW e \in Event, LookupFails(e) \/ TaskCancelled(e)
  PROVE  IInv'
<1>1. PICK state \in TaskEnded \ {"done"} : task' = [task EXCEPT ![e] = state]
  BY DEF LookupFails, TaskCancelled, TaskEnded
<1>2. /\ task[e] \in {"created", "lookup", "sleep"}
      /\ UNCHANGED <<secret, server, conn, origin, ctx, handler, view, cancelled, captured>>
  BY DEF LookupFails, TaskCancelled, Runs, Interruptible
<1>3. /\ task' \in [Event -> TaskState]
      /\ task'[e] = state /\ \A f \in Event \ {e} : task'[f] = task[f]
      /\ ConnInv' /\ OnlyTrustedDeliveries' /\ ShutdownInv'
  <2>1. Active(e) /\ state \in TaskState \ {"none"}
    BY <1>2 DEF Active, TaskState, TaskEnded
  <2>. QED
    BY <1>1, <1>2, <2>1, TaskMoves
<1>4. TypeOK' /\ HandlerIsFunction'
  BY <1>2, <1>3 DEF IInv, TypeOK, HandlerIsFunction
<1>5. ContextInv'
  BY <1>1, <1>2, <1>3 DEF IInv, ContextInv, Unbound, Proper, TaskEnded
<1>6. HandlerInv'
  BY <1>1, <1>2, <1>3 DEF IInv, HandlerInv, TaskEnded
<1>. QED
  BY <1>3, <1>4, <1>5, <1>6 DEF IInv

LEMMA SleepOverIInv ==
  ASSUME IInv, NEW e \in Event, SleepOver(e)
  PROVE  IInv'
<1>1. /\ task[e] = "sleep" /\ task' = [task EXCEPT ![e] = "dispatch"]
      /\ handler' = [handler EXCEPT ![e] = [h \in Routes[e] |-> "running"]]
      /\ view' = [view EXCEPT ![e] = ctx[e]]
      /\ UNCHANGED <<secret, server, conn, origin, ctx, cancelled, captured>>
  BY DEF SleepOver, Runs
<1>2. /\ task' \in [Event -> TaskState]
      /\ task'[e] = "dispatch" /\ \A f \in Event \ {e} : task'[f] = task[f]
      /\ ConnInv' /\ OnlyTrustedDeliveries' /\ ShutdownInv'
  <2>1. Active(e) /\ "dispatch" \in TaskState \ {"none"}
    BY <1>1 DEF Active, TaskState, TaskEnded
  <2>. QED
    BY <1>1, <2>1, TaskMoves
<1>3. /\ handler'[e] = [h \in Routes[e] |-> "running"]
      /\ \A f \in Event \ {e} : handler'[f] = handler[f]
      /\ HandlerIsFunction'
  BY <1>1 DEF IInv, HandlerIsFunction
<1>4. view' \in [Event -> Context] /\ view'[e] = ctx[e] /\ \A f \in Event \ {e} : view'[f] = view[f]
  BY <1>1 DEF IInv, TypeOK
<1>5. TypeOK'
  <2>1. \A f \in Event : handler'[f] \in [Routes[f] -> HandlerState]
    BY <1>3 DEF IInv, TypeOK, HandlerState
  <2>. QED
    BY <1>1, <1>2, <1>4, <2>1 DEF IInv, TypeOK
<1>6. ContextInv'
  BY <1>1, <1>2, <1>4 DEF IInv, ContextInv, Unbound, Proper
<1>7. HandlerInv'
  BY <1>1, <1>2, <1>3 DEF IInv, HandlerInv
<1>. QED
  BY <1>2, <1>3, <1>5, <1>6, <1>7 DEF IInv

LEMMA DispatchEndsIInv ==
  ASSUME IInv, NEW e \in Event, NEW state \in TaskEnded, DispatchEnds(e, state),
         \/ UNCHANGED captured /\ (state = "done" => ~SomeHandler(e, "raised"))
         \/ captured' = captured \cup {e} /\ state = "done" /\ SomeHandler(e, "raised")
  PROVE  IInv'
<1>1. /\ task[e] = "dispatch" /\ task' = [task EXCEPT ![e] = state]
      /\ \A h \in Routes[e] : handler[e][h] # "running"
      /\ UNCHANGED <<secret, server, conn, origin, ctx, handler, view, cancelled>>
  BY DEF DispatchEnds, HandlersOver, SomeHandler
<1>2. /\ task' \in [Event -> TaskState]
      /\ task'[e] = state /\ \A f \in Event \ {e} : task'[f] = task[f]
      /\ ConnInv' /\ OnlyTrustedDeliveries' /\ ShutdownInv'
  <2>1. Active(e) /\ state \in TaskState \ {"none"}
    BY <1>1 DEF Active, TaskState, TaskEnded
  <2>. QED
    BY <1>1, <2>1, TaskMoves
<1>3. TypeOK' /\ HandlerIsFunction'
  BY <1>1, <1>2 DEF IInv, TypeOK, HandlerIsFunction
<1>4. ContextInv'
  BY <1>1, <1>2 DEF IInv, ContextInv, Unbound, Proper, TaskEnded
<1>5. HandlerInv'
  <2>1. e \notin captured
    BY <1>1 DEF IInv, HandlerInv
  <2>2. e \in captured' <=> task'[e] = "done" /\ \E h \in Routes[e] : handler[e][h] = "raised"
    BY <1>2, <2>1 DEF SomeHandler
  <2>3. \A f \in Event \ {e} : f \in captured' <=> f \in captured
    OBVIOUS
  <2>. QED
    BY <1>1, <1>2, <2>2, <2>3 DEF IInv, HandlerInv, TaskEnded
<1>. QED
  BY <1>2, <1>3, <1>4, <1>5 DEF IInv

LEMMA HandlerStepIInv ==
  ASSUME IInv, NEW e \in Event, NEW h \in Routes[e],
         HandlerReturns(e, h) \/ HandlerRaises(e, h) \/ HandlerCancelled(e, h)
  PROVE  IInv'
<1>1. PICK state \in {"returned", "raised", "cancelled"} :
         /\ HandlerStep(e, h, state)
         /\ state = "raised" => ~ScopeCancelled(e)
  BY DEF HandlerReturns, HandlerRaises, HandlerCancelled
<1>2. /\ handler[e][h] = "running" /\ handler' = [handler EXCEPT ![e][h] = state]
      /\ UNCHANGED <<secret, server, conn, task, origin, ctx, view, cancelled, captured>>
  BY <1>1 DEF HandlerStep
<1>3. /\ handler'[e] = [handler[e] EXCEPT ![h] = state]
      /\ \A f \in Event \ {e} : handler'[f] = handler[f]
      /\ HandlerIsFunction'
  BY <1>2 DEF IInv, HandlerIsFunction
<1>4. /\ handler'[e] \in [Routes[e] -> HandlerState]
      /\ handler'[e][h] = state /\ \A g \in Routes[e] \ {h} : handler'[e][g] = handler[e][g]
  BY <1>3 DEF IInv, TypeOK, HandlerState
<1>5. TypeOK'
  BY <1>2, <1>3, <1>4 DEF IInv, TypeOK
<1>6. ConnInv' /\ OnlyTrustedDeliveries'
  BY <1>2 DEF IInv, ConnInv, HeadersAccepted, OnlyTrustedDeliveries
<1>7. ContextInv'
  BY <1>2 DEF IInv, ContextInv, Unbound, Proper
<1>8. ShutdownInv'
  BY <1>2 DEF IInv, ShutdownInv, Active
<1>9. HandlerInv'
  <2>1. task[e] = "dispatch" /\ e \notin captured
    BY <1>2 DEF IInv, HandlerInv
  <2>2. state = "raised" => \A g \in Routes[e] : handler[e][g] # "raised"
    BY <1>1 DEF ScopeCancelled, SomeHandler
  <2>. QED
    BY <1>2, <1>3, <1>4, <2>1, <2>2 DEF IInv, HandlerInv
<1>. QED
  BY <1>3, <1>5, <1>6, <1>7, <1>8, <1>9 DEF IInv

LEMMA StutterIInv ==
  ASSUME IInv, UNCHANGED vars
  PROVE  IInv'
<1>1. TypeOK' /\ HandlerIsFunction'
  BY DEF IInv, vars, TypeOK, HandlerIsFunction
<1>2. ConnInv'
  BY DEF IInv, vars, ConnInv, HeadersAccepted
<1>3. OnlyTrustedDeliveries' /\ ContextInv' /\ HandlerInv'
  BY RestKept DEF vars
<1>4. ShutdownInv'
  BY DEF IInv, vars, ShutdownInv, Active
<1>. QED
  BY <1>1, <1>2, <1>3, <1>4 DEF IInv

LEMMA NextIInv ==
  ASSUME IInv, [Next]_vars
  PROVE  IInv'
<1>1. CASE ServerStep
  BY <1>1, ServerIInv
<1>2. ASSUME NEW c \in Conn, ConnStep(c)
      PROVE  IInv'
  BY <1>2, ReceiveIInv, ReadBodyIInv, AnswerIInv DEF ConnStep
<1>3. ASSUME NEW e \in Event, TaskStep(e)
      PROVE  IInv'
  <2>1. CASE StartRouting(e)
    BY <2>1, StartRoutingIInv
  <2>2. CASE LookupSucceeds(e)
    BY <2>2, LookupSucceedsIInv
  <2>3. CASE LookupFails(e) \/ TaskCancelled(e)
    BY <2>3, EndsEarlyIInv
  <2>4. CASE SleepOver(e)
    BY <2>4, SleepOverIInv
  <2>5. CASE Succeeds(e)
    <3>1. /\ DispatchEnds(e, "done") /\ UNCHANGED captured /\ "done" \in TaskEnded
          /\ ~SomeHandler(e, "raised")
      BY <2>5 DEF Succeeds, ScopeCancelled, TaskEnded
    <3>. QED
      BY <3>1, DispatchEndsIInv
  <2>6. CASE CaptureFailure(e)
    <3>1. /\ DispatchEnds(e, "done") /\ "done" \in TaskEnded
          /\ captured' = captured \cup {e} /\ SomeHandler(e, "raised")
      BY <2>6 DEF CaptureFailure, TaskEnded
    <3>. QED
      BY <3>1, DispatchEndsIInv
  <2>7. CASE BypassActionError(e) \/ InterruptedByShutdown(e)
    <3>1. \E state \in TaskEnded :
            /\ DispatchEnds(e, state) /\ UNCHANGED captured
            /\ state = "done" => ~SomeHandler(e, "raised")
      BY <2>7 DEF BypassActionError, InterruptedByShutdown, CapturedBefore, TaskEnded
    <3>. QED
      BY <3>1, DispatchEndsIInv
  <2>. QED
    BY <1>3, <2>1, <2>2, <2>3, <2>4, <2>5, <2>6, <2>7 DEF TaskStep
<1>4. ASSUME NEW e \in Event, HandlerSteps(e)
      PROVE  IInv'
  BY <1>4, HandlerStepIInv DEF HandlerSteps
<1>5. CASE Stopped \/ UNCHANGED vars
  BY <1>5, StutterIInv DEF Stopped
<1>. QED
  BY <1>1, <1>2, <1>3, <1>4, <1>5 DEF Next

-----------------------------------------------------------------------------
(* Theorems *)

\* The inductive invariant holds, for any number of connections and deliveries.
THEOREM ServerInvariance == Spec => []IInv
<1>1. Init => IInv
  BY InitIInv
<1>2. IInv /\ [Next]_vars => IInv'
  BY NextIInv
<1>. QED
  BY <1>1, <1>2, PTL DEF Spec

\* Every variable keeps its type.
THEOREM ServerTypeCorrect == Spec => []TypeOK
<1>1. IInv => TypeOK
  BY DEF IInv
<1>. QED
  BY <1>1, ServerInvariance, PTL

\* However the checks of get_trusted_http_payload on many connections interleave,
\* route_github_event is only ever started for a delivery that passed all of them.
THEOREM TrustedDeliveries == Spec => []OnlyTrustedDeliveries
<1>1. IInv => OnlyTrustedDeliveries
  BY DEF IInv
<1>. QED
  BY <1>1, ServerInvariance, PTL

\* RUNTIME_CONTEXT shows the handlers of an event that event, its installation and
\* its client, whatever other deliveries are under way or came before.
THEOREM ContextOfHandlers == Spec => []HandlersSeeTheirEvent
<1>1. IInv => HandlersSeeTheirEvent
  BY DEF IInv, HandlerInv, ContextInv, Proper, HandlersSeeTheirEvent, SomeHandler
<1>. QED
  BY <1>1, ServerInvariance, PTL

\* route_github_event captures every failure that does not leave it, and each is
\* the failure of exactly one handler.
THEOREM CapturesAreFailures == Spec => []FailuresCaptured
<1>1. IInv => FailuresCaptured
  <2>1. SUFFICES ASSUME IInv, NEW e \in Event
                 PROVE  (\E h \in Routes[e] : handler[e][h] = "raised") <=>
                          Cardinality({h \in Routes[e] : handler[e][h] = "raised"}) = 1
    BY DEF IInv, HandlerInv, FailuresCaptured
  <2>2. ASSUME NEW h \in Routes[e], handler[e][h] = "raised"
        PROVE  Cardinality({g \in Routes[e] : handler[e][g] = "raised"}) = 1
    <3>1. {g \in Routes[e] : handler[e][g] = "raised"} = {h}
      BY <2>1, <2>2 DEF IInv, HandlerInv
    <3>. QED
      BY <3>1, FS_Singleton
  <2>3. ASSUME \A h \in Routes[e] : handler[e][h] # "raised"
        PROVE  Cardinality({h \in Routes[e] : handler[e][h] = "raised"}) = 0
    <3>1. {h \in Routes[e] : handler[e][h] = "raised"} = {}
      BY <2>3
    <3>. QED
      BY <3>1, FS_EmptySet
  <2>. QED
    BY <2>2, <2>3
<1>. QED
  BY <1>1, ServerInvariance, PTL

\* A closed loop has no event task left, though one may have been in any state
\* when run_forever was interrupted.
THEOREM ShutdownLeavesNothing == Spec => []NothingLeftRunning
<1>1. IInv => NothingLeftRunning
  BY DEF IInv, ShutdownInv, HandlerInv, NothingLeftRunning, Active, TaskEnded, SomeHandler
<1>. QED
  BY <1>1, ServerInvariance, PTL

-----------------------------------------------------------------------------
(* The handlers of an event as a gather *)

\* Nobody is told to stop before the shutdown.
CancelledAtShutdown == server \in {"preparing", "serving", "aborted"} => cancelled = {}

\* Handlers are spawned together, and not before they are to run; without a shutdown
\* only the failure of one cancels the others.
GatherInv ==
  /\ CancelledAtShutdown
  /\ \A e \in Event :
       /\ task[e] \in {"none", "created", "lookup", "sleep"} =>
            \A h \in Routes[e] : handler[e][h] = "idle"
       /\ task[e] \in {"dispatch", "done"} => \A h \in Routes[e] : handler[e][h] # "idle"
       /\ e \notin cancelled /\ SomeHandler(e, "cancelled") => SomeHandler(e, "raised")

\* What a step can be for one event: nothing, ...
Rests(e) ==
  /\ task'[e] = task[e] /\ handler'[e] = handler[e]
  /\ cancelled' = cancelled \/ cancelled = {}

\* ... a step before the handlers, ...
Approaches(e) ==
  /\ task[e] \in {"none", "created", "lookup", "sleep"}
  /\ task'[e] \in {"created", "lookup", "sleep", "failed", "cancelled"}
  /\ handler'[e] = handler[e] /\ cancelled' = cancelled

\* ... the start of the handlers, ...
Spawns(e) ==
  /\ task[e] = "sleep" /\ task'[e] = "dispatch"
  /\ handler'[e] = [h \in Routes[e] |-> "running"] /\ cancelled' = cancelled

\* ... the end of a handler, ...
Settles(e, h, state) ==
  /\ task[e] = "dispatch" /\ task'[e] = "dispatch" /\ cancelled' = cancelled
  /\ handler[e][h] = "running" /\ handler'[e] = [handler[e] EXCEPT ![h] = state]
  /\ state \in {"returned", "raised"} => ~ScopeCancelled(e)
  /\ state = "cancelled" => CancelReaches(e)

\* ... or the end of them all.
Finishes(e) ==
  /\ task[e] = "dispatch" /\ task'[e] \in TaskEnded
  /\ handler'[e] = handler[e] /\ cancelled' = cancelled
  /\ \A h \in Routes[e] : handler[e][h] # "running"
  /\ \/ ~ScopeCancelled(e) /\ task'[e] = "done"
     \/ SomeHandler(e, "raised") /\ task'[e] \in {"done", "failed"}
     \/ e \in cancelled

StepOf(e) ==
  \/ Rests(e) \/ Approaches(e) \/ Spawns(e) \/ Finishes(e)
  \/ \E h \in Routes[e], state \in {"returned", "raised", "cancelled"} : Settles(e, h, state)

\* A step of an event is none of the others.
LEMMA OthersRest ==
  ASSUME IInv, NEW d \in Event, NEW e \in Event, d # e, TaskStep(d) \/ HandlerSteps(d)
  PROVE  Rests(e)
<1>1. cancelled' = cancelled
  BY DEF TaskStep, StartRouting, LookupSucceeds, LookupFails, SleepOver, TaskCancelled, Succeeds,
         CaptureFailure, BypassActionError, InterruptedByShutdown, DispatchEnds,
         HandlerSteps, HandlerReturns, HandlerRaises, HandlerCancelled, HandlerStep
<1>2. task' = task \/ \E state : task' = [task EXCEPT ![d] = state]
  BY DEF TaskStep, StartRouting, LookupSucceeds, LookupFails, SleepOver, TaskCancelled, Succeeds,
         CaptureFailure, BypassActionError, InterruptedByShutdown, DispatchEnds,
         HandlerSteps, HandlerReturns, HandlerRaises, HandlerCancelled, HandlerStep
<1>3. handler' = handler \/ (\E states : handler' = [handler EXCEPT ![d] = states])
  <2>1. CASE TaskStep(d)
    BY <2>1
    DEF TaskStep, StartRouting, LookupSucceeds, LookupFails, SleepOver, TaskCancelled, Succeeds,
        CaptureFailure, BypassActionError, InterruptedByShutdown, DispatchEnds
  <2>2. CASE HandlerSteps(d)
    <3>1. PICK h \in Routes[d], state \in HandlerState : HandlerStep(d, h, state)
      BY <2>2 DEF HandlerSteps, HandlerReturns, HandlerRaises, HandlerCancelled, HandlerState
    <3>2. handler' = [handler EXCEPT ![d] = [handler[d] EXCEPT ![h] = state]]
      BY <3>1 DEF HandlerStep
    <3>. QED
      BY <3>2
  <2>. QED
    BY <2>1, <2>2
<1>4. task'[e] = task[e]
  BY <1>2 DEF IInv, TypeOK
<1>5. handler'[e] = handler[e]
  BY <1>3 DEF IInv, HandlerIsFunction
<1>. QED
  BY <1>1, <1>4, <1>5 DEF Rests

LEMMA TaskStepOf ==
  ASSUME IInv, NEW e \in Event, TaskStep(e)
  PROVE  StepOf(e)
<1>1. task \in [Event -> TaskState]
  BY DEF IInv, TypeOK
<1>2. CASE StartRouting(e) \/ LookupSucceeds(e) \/ LookupFails(e) \/ TaskCancelled(e)
  <2>1. /\ task[e] \in {"created", "lookup", "sleep"}
        /\ handler' = handler /\ cancelled' = cancelled
    BY <1>2 DEF StartRouting, LookupSucceeds, LookupFails, TaskCancelled, Runs, Interruptible
  <2>2. task'[e] \in {"lookup", "sleep", "failed", "cancelled"}
    BY <1>1, <1>2 DEF StartRouting, LookupSucceeds, LookupFails, TaskCancelled
  <2>. QED
    BY <2>1, <2>2 DEF StepOf, Approaches
<1>3. CASE SleepOver(e)
  <2>1. task[e] = "sleep" /\ task'[e] = "dispatch" /\ cancelled' = cancelled
    BY <1>1, <1>3 DEF SleepOver, Runs
  <2>2. handler'[e] = [h \in Routes[e] |-> "running"]
    BY <1>3 DEF SleepOver, IInv, HandlerIsFunction
  <2>. QED
    BY <2>1, <2>2 DEF StepOf, Spawns
<1>4. CASE Succeeds(e) \/ CaptureFailure(e) \/ BypassActionError(e) \/ InterruptedByShutdown(e)
  <2>1. PICK state \in TaskEnded :
          /\ DispatchEnds(e, state)
          /\ \/ ~ScopeCancelled(e) /\ state = "done"
             \/ SomeHandler(e, "raised") /\ state \in {"done", "failed"}
             \/ e \in cancelled
    BY <1>4 DEF Succeeds, CaptureFailure, BypassActionError, InterruptedByShutdown, TaskEnded
  <2>2. /\ task[e] = "dispatch" /\ handler' = handler /\ cancelled' = cancelled
        /\ \A h \in Routes[e] : handler[e][h] # "running"
    BY <2>1 DEF DispatchEnds, HandlersOver, SomeHandler
  <2>3. task'[e] = state
    BY <1>1, <2>1 DEF DispatchEnds
  <2>. QED
    BY <2>1, <2>2, <2>3 DEF StepOf, Finishes
<1>. QED
  BY <1>2, <1>3, <1>4 DEF TaskStep

LEMMA HandlerStepOf ==
  ASSUME IInv, NEW e \in Event, HandlerSteps(e)
  PROVE  StepOf(e)
<1>1. PICK h \in Routes[e] : HandlerReturns(e, h) \/ HandlerRaises(e, h) \/ HandlerCancelled(e, h)
  BY DEF HandlerSteps
<1>2. PICK state \in {"returned", "raised", "cancelled"} :
        /\ HandlerStep(e, h, state)
        /\ state \in {"returned", "raised"} => ~ScopeCancelled(e)
        /\ state = "cancelled" => CancelReaches(e)
  BY <1>1 DEF HandlerReturns, HandlerRaises, HandlerCancelled
<1>3. /\ handler[e][h] = "running" /\ task' = task /\ cancelled' = cancelled
      /\ handler'[e] = [handler[e] EXCEPT ![h] = state]
  BY <1>2 DEF HandlerStep, IInv, HandlerIsFunction
<1>4. task[e] = "dispatch"
  BY <1>3 DEF IInv, HandlerInv
<1>. QED
  BY <1>2, <1>3, <1>4 DEF StepOf, Settles

LEMMA EveryStepOf ==
  ASSUME IInv, CancelledAtShutdown, [Next]_vars, NEW e \in Event
  PROVE  StepOf(e)
<1>1. CASE ServerStep \/ Stopped \/ UNCHANGED vars
  <2>1. task' = task /\ handler' = handler
    BY <1>1 DEF ServerStep, StartServing, PrepareFails, Shutdown, StopSite, CloseLoop, eventVars,
                Stopped, vars
  <2>2. cancelled' = cancelled \/ cancelled = {}
    BY <1>1 DEF ServerStep, StartServing, PrepareFails, Shutdown, StopSite, CloseLoop,
                CancelledAtShutdown, Stopped, vars
  <2>. QED
    BY <2>1, <2>2 DEF StepOf, Rests
<1>2. ASSUME NEW c \in Conn, ConnStep(c)
      PROVE  StepOf(e)
  <2>1. handler' = handler /\ cancelled' = cancelled
    BY <1>2 DEF ConnStep, Receive, ReadBody, Answer, eventVars
  <2>2. \/ task' = task
        \/ conn[c].pc = "reading" /\ task' = [task EXCEPT ![conn[c].event] = "created"]
    BY <1>2 DEF ConnStep, Receive, ReadBody, Answer, eventVars
  <2>3. CASE task'[e] = task[e]
    BY <2>1, <2>3 DEF StepOf, Rests
  <2>4. CASE task'[e] # task[e]
    <3>1. conn[c].pc = "reading" /\ task' = [task EXCEPT ![conn[c].event] = "created"]
      BY <2>2, <2>4
    <3>2. e = conn[c].event /\ task'[e] = "created"
      BY <2>4, <3>1 DEF IInv, TypeOK
    <3>3. task[e] = "none"
      BY <3>1, <3>2 DEF IInv, ConnInv
    <3>. QED
      BY <2>1, <3>2, <3>3 DEF StepOf, Approaches
  <2>. QED
    BY <2>3, <2>4
<1>3. ASSUME NEW d \in Event, TaskStep(d) \/ HandlerSteps(d)
      PROVE  StepOf(e)
  <2>1. CASE d = e
    BY <1>3, <2>1, TaskStepOf, HandlerStepOf
  <2>2. CASE d # e
    BY <1>3, <2>2, OthersRest DEF StepOf
  <2>. QED
    BY <2>1, <2>2
<1>. QED
  BY <1>1, <1>2, <1>3 DEF Next

LEMMA CancelledAtShutdownStays ==
  ASSUME IInv, CancelledAtShutdown, [Next]_vars
  PROVE  CancelledAtShutdown'
<1>1. CASE ServerStep \/ Stopped \/ UNCHANGED vars
  BY <1>1 DEF ServerStep, StartServing, PrepareFails, Shutdown, StopSite, CloseLoop, Stopped, vars,
              CancelledAtShutdown
<1>2. ASSUME NEW c \in Conn, ConnStep(c)
      PROVE  CancelledAtShutdown'
  BY <1>2 DEF ConnStep, Receive, ReadBody, Answer, CancelledAtShutdown
<1>3. ASSUME NEW e \in Event, TaskStep(e)
      PROVE  CancelledAtShutdown'
  BY <1>3 DEF TaskStep, StartRouting, LookupSucceeds, LookupFails, SleepOver, TaskCancelled, Succeeds,
              CaptureFailure, BypassActionError, InterruptedByShutdown, DispatchEnds,
              CancelledAtShutdown
<1>4. ASSUME NEW e \in Event, HandlerSteps(e)
      PROVE  CancelledAtShutdown'
  BY <1>4 DEF HandlerSteps, HandlerReturns, HandlerRaises, HandlerCancelled, HandlerStep,
              CancelledAtShutdown
<1>. QED
  BY <1>1, <1>2, <1>3, <1>4 DEF Next

LEMMA GatherInvStays ==
  ASSUME IInv, GatherInv, [Next]_vars
  PROVE  GatherInv'
<1>1. CancelledAtShutdown'
  BY CancelledAtShutdownStays DEF GatherInv
<1>2. ASSUME NEW e \in Event
      PROVE  /\ task'[e] \in {"none", "created", "lookup", "sleep"} =>
                  \A h \in Routes[e] : handler'[e][h] = "idle"
             /\ task'[e] \in {"dispatch", "done"} => \A h \in Routes[e] : handler'[e][h] # "idle"
             /\ e \notin cancelled' /\ (\E h \in Routes[e] : handler'[e][h] = "cancelled") =>
                  \E h \in Routes[e] : handler'[e][h] = "raised"
  <2>1. /\ task[e] \in {"none", "created", "lookup", "sleep"} =>
             \A h \in Routes[e] : handler[e][h] = "idle"
        /\ task[e] \in {"dispatch", "done"} => \A h \in Routes[e] : handler[e][h] # "idle"
        /\ e \notin cancelled /\ (\E h \in Routes[e] : handler[e][h] = "cancelled") =>
             \E h \in Routes[e] : handler[e][h] = "raised"
    BY DEF GatherInv, SomeHandler
  <2>2. CASE Rests(e)
    BY <2>1, <2>2 DEF Rests
  <2>3. CASE Approaches(e)
    BY <2>1, <2>3 DEF Approaches
  <2>4. CASE Spawns(e)
    BY <2>4 DEF Spawns
  <2>5. CASE Finishes(e)
    BY <2>1, <2>5 DEF Finishes, TaskEnded
  <2>6. ASSUME NEW h \in Routes[e], NEW state \in {"returned", "raised", "cancelled"},
               Settles(e, h, state)
        PROVE  /\ task'[e] = "dispatch"
               /\ \A g \in Routes[e] : handler'[e][g] # "idle"
               /\ e \notin cancelled' /\ (\E g \in Routes[e] : handler'[e][g] = "cancelled") =>
                    \E g \in Routes[e] : handler'[e][g] = "raised"
    <3>1. /\ handler[e] \in [Routes[e] -> HandlerState]
          /\ task'[e] = "dispatch" /\ cancelled' = cancelled
          /\ handler[e][h] = "running" /\ handler'[e] = [handler[e] EXCEPT ![h] = state]
      BY <2>6 DEF Settles, IInv, TypeOK
    <3>2. handler'[e][h] = state /\ \A g \in Routes[e] \ {h} : handler'[e][g] = handler[e][g]
      BY <3>1
    <3>3. \A g \in Routes[e] : handler'[e][g] # "idle"
      BY <2>1, <2>6, <3>2 DEF Settles
    <3>4. state = "cancelled" /\ e \notin cancelled => \E g \in Routes[e] : handler[e][g] = "raised"
      BY <2>1, <2>6 DEF Settles, CancelReaches, ScopeCancelled, SomeHandler
    <3>5. \A g \in Routes[e] : handler[e][g] = "raised" => g # h /\ handler'[e][g] = "raised"
      BY <3>1, <3>2
    <3>. QED
      BY <2>1, <3>1, <3>2, <3>3, <3>4, <3>5
  <2>. QED
    BY EveryStepOf, <2>2, <2>3, <2>4, <2>5, <2>6 DEF StepOf, GatherInv
<1>. QED
  BY <1>1, <1>2 DEF GatherInv, SomeHandler

\* What each step of an event is to its gather.
LEMMA StepGathers ==
  ASSUME IInv, GatherInv, [Next]_vars, NEW e \in Event, e \notin cancelled'
  PROVE  [Handlers(e)!GatherNext]_(Handlers(e)!gatherVars)
<1>. DEFINE settled == [h \in Routes[e] |-> SettledAs(handler[e][h])]
            outputOf(outcome) == IF outcome = "returned"
                                 THEN [h \in Routes[e] |-> <<"value", h>>] ELSE <<>>
<1>1. /\ handler[e] \in [Routes[e] -> HandlerState]
      /\ task[e] \in {"none", "created", "lookup", "sleep"} =>
           \A h \in Routes[e] : handler[e][h] = "idle"
      /\ task[e] \in {"dispatch", "done"} => \A h \in Routes[e] : handler[e][h] # "idle"
      /\ e \notin cancelled /\ SomeHandler(e, "cancelled") => SomeHandler(e, "raised")
  BY DEF GatherInv, IInv, TypeOK
<1>2. ASSUME handler'[e] = handler[e],
             OutcomeOf(e)' = OutcomeOf(e)
      PROVE  UNCHANGED Handlers(e)!gatherVars
  BY <1>2 DEF Handlers!gatherVars
<1>3. CASE Rests(e)
  <2>1. OutcomeOf(e)' = OutcomeOf(e)
    BY <1>3 DEF Rests, OutcomeOf, SomeHandler
  <2>. QED
    BY <1>2, <1>3, <2>1 DEF Rests
<1>4. CASE Approaches(e)
  <2>1. OutcomeOf(e) = "none" /\ OutcomeOf(e)' = "none"
    BY <1>1, <1>4 DEF Approaches, OutcomeOf, SomeHandler
  <2>. QED
    BY <1>2, <1>4, <2>1 DEF Approaches
<1>5. CASE Spawns(e)
  <2>1. OutcomeOf(e) = "none" /\ OutcomeOf(e)' = "none"
    BY <1>5 DEF Spawns, OutcomeOf
  <2>2. [h \in Routes[e] |-> SettledAs(handler'[e][h])] = [h \in Routes[e] |-> SettledAs(handler[e][h])]
    BY <1>1, <1>5 DEF Spawns, SettledAs
  <2>. QED
    BY <2>1, <2>2 DEF Handlers!gatherVars
<1>6. ASSUME NEW h \in Routes[e], NEW state \in {"returned", "raised", "cancelled"},
             Settles(e, h, state)
      PROVE  Handlers(e)!GatherNext
  <2>1. OutcomeOf(e) = "none" /\ OutcomeOf(e)' = "none"
    BY <1>6 DEF Settles, OutcomeOf
  <2>2. /\ handler[e][h] = "running"
        /\ \A g \in Routes[e] : handler'[e][g] = IF g = h THEN state ELSE handler[e][g]
    BY <1>1, <1>6 DEF Settles
  <2>3. settled[h] = "pending"
    BY <2>2 DEF SettledAs
  <2>4. [g \in Routes[e] |-> SettledAs(handler'[e][g])] = [settled EXCEPT ![h] = SettledAs(state)]
    BY <2>2
  <2>5. Handlers(e)!Settle(h, SettledAs(state))
    BY <2>1, <2>3, <2>4 DEF Handlers!Settle
  <2>6. Handlers(e)!Open <=> ~SomeHandler(e, "raised")
    BY <1>1 DEF Handlers!Open, Handlers!Failed, SomeHandler, SettledAs
  <2>7. CASE state = "returned"
    BY <1>6, <2>5, <2>6, <2>7
    DEF Settles, ScopeCancelled, SettledAs, Handlers!Value, Handlers!GatherNext
  <2>8. CASE state = "raised"
    BY <1>6, <2>5, <2>6, <2>8
    DEF Settles, ScopeCancelled, SettledAs, Handlers!Error, Handlers!GatherNext
  <2>9. CASE state = "cancelled"
    <3>1. SomeHandler(e, "raised")
      BY <1>1, <1>6, <2>9 DEF Settles, CancelReaches, ScopeCancelled
    <3>. QED
      BY <2>5, <2>6, <2>9, <3>1 DEF SettledAs, Handlers!Drop, Handlers!GatherNext
  <2>. QED
    BY <2>7, <2>8, <2>9
<1>7. CASE Finishes(e)
  <2>1. /\ task[e] = "dispatch" /\ handler'[e] = handler[e] /\ e \notin cancelled
        /\ \A h \in Routes[e] : handler[e][h] \in {"returned", "raised", "cancelled"}
    BY <1>1, <1>7 DEF Finishes, HandlerState
  <2>2. OutcomeOf(e) = "none"
    BY <2>1 DEF OutcomeOf
  <2>3. Handlers(e)!AllSettled
    BY <2>1 DEF Handlers!AllSettled, SettledAs
  <2>4. Handlers(e)!Failed = {} <=> ~SomeHandler(e, "raised")
    BY <1>1 DEF Handlers!Failed, SomeHandler, SettledAs
  <2>5. CASE ~ScopeCancelled(e) /\ task'[e] = "done"
    <3>1. OutcomeOf(e)' = "returned"
      BY <2>1, <2>5 DEF ScopeCancelled, SomeHandler, OutcomeOf
    <3>2. \A h \in Routes[e] : settled[h] = "value"
      BY <2>1, <2>5 DEF ScopeCancelled, SomeHandler, SettledAs
    <3>. QED
      BY <2>1, <2>2, <2>4, <2>5, <3>1, <3>2
      DEF ScopeCancelled, Handlers!Open, Handlers!Return, Handlers!ResultOf, Handlers!GatherNext
  <2>6. CASE SomeHandler(e, "raised") /\ task'[e] \in {"done", "failed"}
    <3>1. OutcomeOf(e)' = "raised"
      BY <2>1, <2>6 DEF SomeHandler, OutcomeOf
    <3>. QED
      BY <2>1, <2>2, <2>3, <2>4, <2>6, <3>1 DEF Handlers!Raise, Handlers!GatherNext
  <2>. QED
    BY <1>7, <2>1, <2>5, <2>6 DEF Finishes
<1>. QED
  BY EveryStepOf, <1>3, <1>4, <1>5, <1>6, <1>7 DEF StepOf, GatherInv

\* What route_github_event does with the handlers of an event is what aio_gather
\* promises, for any number of events at a time, up to a shutdown.
THEOREM HandlersGathered == Spec => HandlersAreGathered
<1> DEFINE Gathers ==
      \A e \in Event :
        e \notin cancelled' => [Handlers(e)!GatherNext]_(Handlers(e)!gatherVars)
<1>1. Init => \A e \in Event : Handlers(e)!GatherInit
  BY DEF Init, Handlers!GatherInit, SettledAs, OutcomeOf
<1>2. Init => GatherInv
  BY DEF Init, GatherInv, CancelledAtShutdown, SomeHandler
<1>3. IInv /\ GatherInv /\ [Next]_vars => GatherInv'
  BY GatherInvStays
<1>4. IInv /\ GatherInv /\ [Next]_vars => [Gathers]_vars
  BY StepGathers
<1>. QED
  BY <1>1, <1>2, <1>3, <1>4, ServerInvariance, PTL DEF Spec, HandlersAreGathered
=============================================================================
