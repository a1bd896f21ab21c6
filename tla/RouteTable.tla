----------------------------- MODULE RouteTable ------------------------------
(***************************************************************************)
(* The routes of a router for one kind of event and the generator that     *)
(* matches them with a payload, emit_routes_for of routing/routers.py.     *)
(*                                                                         *)
(* A sequential router iterates the generator lazily: between two routes a *)
(* callback runs, which may register further routes in the very lists and  *)
(* dictionaries the generator is iterating.  A concurrent router takes all *)
(* routes before a callback runs; that is the case without registrations.  *)
(***************************************************************************)
EXTENDS Naturals, Sequences

CONSTANTS
  Key, Val,    \* payload keys that routes may depend on, and values for them
  Absent,      \* a payload does not have the key
  Object,      \* a value that is a mapping or a list, and not hashable
  MaxRoutes    \* bound on the number of registrations

ASSUME ValAssumption == Absent \notin Val /\ Object \notin Val /\ Absent # Object
ASSUME MaxRoutesAssumption == MaxRoutes \in Nat

VARIABLES
  routes,   \* every registration: its key and value, <<>> without a detail
  shallow,  \* the routes without a detail
  keys,     \* the keys of the dictionary of deep routes, in insertion order
  deep,     \* the routes for each key and value
  payload,  \* of the event that is dispatched
  phase,    \* idle, matching, running a callback, or how the last dispatch ended
  place,    \* where the generator is
  emitted,  \* the routes emitted by the last dispatch
  known     \* history: routes and keys that there were when it began

table == <<routes, shallow, keys, deep>>
vars == <<table, payload, phase, place, emitted, known>>

Route == 1..Len(routes)
Detail == {<<>>} \cup Key \X Val
Place == [level : {"shallow", "keys", "deep"}, key : Nat, index : Nat, size : Nat]
Start == [level |-> "shallow", key |-> 0, index |-> 1, size |-> 0]

TypeOK ==
  /\ routes \in Seq(Detail)
  /\ shallow \in Seq(Route)
  /\ keys \in Seq(Key)
  /\ deep \in [Key \X Val -> Seq(Route)]
  /\ payload \in [Key -> Val \cup {Absent, Object}]
  /\ phase \in {"idle", "matching", "running", "finished", "crashed"}
  /\ place \in Place
  /\ emitted \in Seq(Route)
  /\ known \in [routes : Nat, keys : Nat]

Init ==
  /\ routes = <<>>
  /\ shallow = <<>>
  /\ keys = <<>>
  /\ deep = [d \in Key \X Val |-> <<>>]
  /\ payload = [k \in Key |-> Absent]
  /\ phase = "idle"
  /\ place = Start
  /\ emitted = <<>>
  /\ known = [routes |-> 0, keys |-> 0]

-----------------------------------------------------------------------------
(* Registration, at import time or by a callback that is running *)

HasKey(k) == \E i \in 1..Len(keys) : keys[i] = k

\* process_event(event_name) and process_event(event_name, key=value).
Add(detail) ==
  /\ routes' = Append(routes, detail)
  /\ IF detail = <<>>
     THEN shallow' = Append(shallow, Len(routes) + 1) /\ UNCHANGED <<keys, deep>>
     ELSE /\ deep' = [deep EXCEPT ![detail] = Append(@, Len(routes) + 1)]
          /\ keys' = IF HasKey(detail[1]) THEN keys ELSE Append(keys, detail[1])
          /\ UNCHANGED shallow

\* process_event_actions does this once for each of its actions.
Register ==
  /\ phase \in {"idle", "running", "finished", "crashed"}
  /\ Len(routes) < MaxRoutes
  /\ \E detail \in Detail : Add(detail)
  /\ UNCHANGED <<payload, phase, place, emitted, known>>

-----------------------------------------------------------------------------
(* One dispatch *)

Dispatch ==
  /\ phase \in {"idle", "finished", "crashed"}
  /\ payload' \in [Key -> Val \cup {Absent, Object}]
  /\ phase' = "matching"
  /\ place' = Start
  /\ emitted' = <<>>
  /\ known' = [routes |-> Len(routes), keys |-> Len(keys)]
  /\ UNCHANGED table

\* Mutant: the latest route of a list comes first.
EmitLatest(list) ==
  place.index <= Len(list) /\ emitted' = Append(emitted, list[Len(list) + 1 - place.index])

\* A list is iterated by index: what was appended meanwhile is met, too.
Emit(list) == place.index <= Len(list) /\ emitted' = Append(emitted, list[place.index])

EmitFrom(list) ==
  /\ Emit(list)
  /\ place' = [place EXCEPT !.index = @ + 1]
  /\ phase' = "running"

EmitShallow ==
  /\ phase = "matching" /\ place.level = "shallow"
  /\ EmitFrom(shallow)
  /\ UNCHANGED <<table, payload, known>>

\* Mutant: the generator returns after the first key of the payload.
FirstKeyOnly == place.key \in {1, Len(keys)}

Exhausted == place.key = Len(keys)

\* The iterator over the items of the dictionary notices a change of its size.
Resized == place.size # Len(keys)

NextKey == keys[place.key + 1]

\* Mutant: keys that the payload does not have match, too.
MatchingRegardless(k) == IF payload[k] = Object THEN <<>> ELSE
  IF payload[k] = Absent THEN deep[<<k, CHOOSE v \in Val : TRUE>>] ELSE deep[<<k, payload[k]>>]

\* The routes for what the payload has under k.
MatchingFor(k) == IF payload[k] \in {Absent, Object} THEN <<>> ELSE deep[<<k, payload[k]>>]

\* Mutant: the key is looked up without asking whether the payload has it.
UnusableOrAbsent(k) == payload[k] \in {Object, Absent}

\* The value cannot be looked up in a dictionary.
Unusable(k) == payload[k] = Object

ShallowOver ==
  /\ phase = "matching" /\ place.level = "shallow"
  /\ place.index > Len(shallow)
  /\ place' = [level |-> "keys", key |-> 0, index |-> 1, size |-> Len(keys)]
  /\ UNCHANGED <<table, payload, phase, emitted, known>>

ToNextKey ==
  /\ phase = "matching" /\ place.level = "keys"
  /\ ~Resized /\ ~Exhausted
  /\ ~Unusable(NextKey)
  /\ place' = [place EXCEPT !.level = IF MatchingFor(NextKey) = <<>> THEN "keys" ELSE "deep",
                            !.key = @ + 1, !.index = 1]
  /\ UNCHANGED <<table, payload, phase, emitted, known>>

EmitDeep ==
  /\ phase = "matching" /\ place.level = "deep"
  /\ EmitFrom(MatchingFor(keys[place.key]))
  /\ UNCHANGED <<table, payload, known>>

DeepOver ==
  /\ phase = "matching" /\ place.level = "deep"
  /\ place.index > Len(MatchingFor(keys[place.key]))
  /\ place' = [place EXCEPT !.level = "keys"]
  /\ UNCHANGED <<table, payload, phase, emitted, known>>

Ends(how) ==
  /\ phase' = how
  /\ UNCHANGED <<table, payload, place, emitted, known>>

CallbackReturns == phase = "running" /\ Ends("matching")

CallbackRaises == phase = "running" /\ Ends("crashed")

Finish == phase = "matching" /\ place.level = "keys" /\ ~Resized /\ Exhausted /\ Ends("finished")

\* RuntimeError: the dictionary changed its size; TypeError: unhashable.
IterationFails ==
  /\ phase = "matching" /\ place.level = "keys"
  /\ Resized \/ (~Exhausted /\ Unusable(NextKey))
  /\ Ends("crashed")

Next ==
  \/ Register \/ Dispatch
  \/ EmitShallow \/ ShallowOver \/ ToNextKey \/ EmitDeep \/ DeepOver
  \/ CallbackReturns \/ CallbackRaises \/ Finish \/ IterationFails

Spec == Init /\ [][Next]_vars

-----------------------------------------------------------------------------
(* Properties *)

\* What a route asks of the payload.
Matches(r) == IF routes[r] = <<>> THEN TRUE ELSE payload[routes[r][1]] = routes[r][2]

\* A callback only runs for events that its route is about, and once for each
\* registration, whatever callbacks register while the generator is under way.
EmittedMatchOnce ==
  /\ \A i \in 1..Len(emitted) : Matches(emitted[i])
  /\ \A i, j \in 1..Len(emitted) : emitted[i] = emitted[j] => i = j

\* A dispatch that ends normally has run the callbacks of all routes that there
\* were when it began and that match.
NoneForgotten ==
  phase = "finished" =>
    \A r \in 1..known.routes : Matches(r) => \E i \in 1..Len(emitted) : emitted[i] = r

\* Routes without details come first, and routes with the same detail run in
\* the order of their registration.
InOrder ==
  \A i, j \in 1..Len(emitted) :
    LET r == emitted[i]  s == emitted[j]
    IN i < j => /\ routes[s] = <<>> => routes[r] = <<>>
                /\ routes[r] = routes[s] => r < s

\* The generator fails only for a value it cannot look up, or when a callback
\* has registered a route with a key that no route had before.
FailsForAReason ==
  [][phase = "matching" /\ phase' = "crashed" =>
       \/ Len(keys) > known.keys
       \/ \E k \in Key : payload[k] = Object /\ HasKey(k)]_vars
=============================================================================
