-------------------------- MODULE RouteTableProofs ---------------------------
(***************************************************************************)
(* Proofs about the route table and its lazy iteration, for any keys, any  *)
(* values, any number of routes and any registrations by callbacks.        *)
(***************************************************************************)
EXTENDS RouteTable, TLAPS

-----------------------------------------------------------------------------
(* The inductive invariant *)

\* list holds the routes with detail d, each of them once and in the order of
\* their registration, when rs are all the routes.
ListOf(list, d, rs) ==
  /\ list \in Seq(1..Len(rs))
  /\ \A i \in 1..Len(list) : rs[list[i]] = d
  /\ \A i, j \in 1..Len(list) : i < j => list[i] < list[j]
  /\ \A r \in 1..Len(rs) : rs[r] = d => \E i \in 1..Len(list) : list[i] = r

TableInv ==
  /\ ListOf(shallow, <<>>, routes)
  /\ \A d \in Key \X Val : ListOf(deep[d], d, routes)
  /\ \A i, j \in 1..Len(keys) : keys[i] = keys[j] => i = j
  /\ \A r \in Route : routes[r] # <<>> => HasKey(routes[r][1])

\* What was known at the beginning is still there, where it was.
KnownInv ==
  /\ known.routes <= Len(routes) /\ known.keys <= Len(keys)
  /\ \A r \in 1..known.routes :
       routes[r] # <<>> => \E j \in 1..known.keys : keys[j] = routes[r][1]

\* The list that the generator is iterating.
Current == IF place.level = "shallow" THEN shallow ELSE MatchingFor(keys[place.key])

PlaceInv ==
  /\ place.index > 0
  /\ place.level # "keys" => place.index <= Len(Current) + 1
  /\ place.level # "shallow" =>
       known.keys <= place.size /\ place.size <= Len(keys) /\ place.key <= place.size
  /\ place.level = "deep" => place.key > 0
  /\ phase = "finished" => place.level = "keys" /\ known.keys <= place.key

IsEmitted(r) == \E i \in 1..Len(emitted) : emitted[i] = r

\* Where an emitted route comes from.
EmittedInv ==
  /\ EmittedMatchOnce /\ InOrder
  /\ place.level = "shallow" => \A i \in 1..Len(emitted) : routes[emitted[i]] = <<>>
  /\ \A i \in 1..Len(emitted) :
       routes[emitted[i]] # <<>> => \E j \in 1..place.key : j <= Len(keys) /\ keys[j] = routes[emitted[i]][1]
  /\ place.level # "keys" =>
       \A i \in 1..Len(emitted), j \in 1..Len(Current) : emitted[i] = Current[j] => j < place.index

\* What has been emitted already.
DoneInv ==
  /\ place.level # "keys" =>
       \A j \in 1..Len(Current) : j < place.index => IsEmitted(Current[j])
  /\ place.level # "shallow" =>
       \A r \in 1..known.routes : routes[r] = <<>> => IsEmitted(r)
  /\ place.level # "shallow" =>
       \A r \in 1..known.routes, j \in 1..place.key :
         /\ place.level = "deep" => j < place.key
         /\ routes[r] # <<>> /\ routes[r][1] = keys[j] /\ Matches(r)
         => IsEmitted(r)

IInv == TypeOK /\ TableInv /\ KnownInv /\ PlaceInv /\ EmittedInv /\ DoneInv

-----------------------------------------------------------------------------
(* Lists of routes *)

LEMMA ListKept ==
  ASSUME NEW rs \in Seq(Detail), NEW d \in Detail, NEW e \in Detail, e # d,
         NEW list, ListOf(list, d, rs)
  PROVE  ListOf(list, d, Append(rs, e))
<1>1. Len(Append(rs, e)) = Len(rs) + 1 /\ \A r \in 1..Len(rs) : Append(rs, e)[r] = rs[r]
  OBVIOUS
<1>2. Append(rs, e)[Len(rs) + 1] = e
  OBVIOUS
<1>3. list \in Seq(1..Len(Append(rs, e)))
  BY <1>1 DEF ListOf
<1>4. \A i \in 1..Len(list) : Append(rs, e)[list[i]] = d
  BY <1>1 DEF ListOf
<1>5. ASSUME NEW r \in 1..Len(Append(rs, e)), Append(rs, e)[r] = d
      PROVE  \E i \in 1..Len(list) : list[i] = r
  <2>1. r \in 1..Len(rs) /\ rs[r] = d
    BY <1>1, <1>2, <1>5
  <2>. QED
    BY <2>1 DEF ListOf
<1>. QED
  BY <1>3, <1>4, <1>5 DEF ListOf

LEMMA ListGrows ==
  ASSUME NEW rs \in Seq(Detail), NEW d \in Detail,
         NEW list, ListOf(list, d, rs)
  PROVE  ListOf(Append(list, Len(rs) + 1), d, Append(rs, d))
<1>. DEFINE new == Append(list, Len(rs) + 1)
<1>1. Len(Append(rs, d)) = Len(rs) + 1 /\ \A r \in 1..Len(rs) : Append(rs, d)[r] = rs[r]
  OBVIOUS
<1>2. Append(rs, d)[Len(rs) + 1] = d
  OBVIOUS
<1>3. /\ list \in Seq(Nat) /\ Len(new) = Len(list) + 1
      /\ \A i \in 1..Len(list) : new[i] = list[i] /\ list[i] \in 1..Len(rs)
      /\ new[Len(list) + 1] = Len(rs) + 1
  BY DEF ListOf
<1>4. new \in Seq(1..Len(Append(rs, d)))
  BY <1>1 DEF ListOf
<1>5. \A i \in 1..Len(new) : Append(rs, d)[new[i]] = d
  BY <1>1, <1>2, <1>3 DEF ListOf
<1>6. ASSUME NEW i \in 1..Len(new), NEW j \in 1..Len(new), i < j
      PROVE  new[i] < new[j]
  <2>1. i \in 1..Len(list) /\ list[i] \in 1..Len(rs) /\ new[i] = list[i]
    BY <1>3, <1>6
  <2>2. CASE j = Len(list) + 1
    <3>1. new[j] = Len(rs) + 1 /\ Len(rs) \in Nat
      BY <1>3, <2>2
    <3>. QED
      BY <2>1, <3>1
  <2>3. CASE j # Len(list) + 1
    <3>1. j \in 1..Len(list) /\ new[j] = list[j]
      BY <1>3, <2>3
    <3>2. list[i] < list[j]
      BY <1>6, <2>1, <3>1 DEF ListOf
    <3>. QED
      BY <2>1, <3>1, <3>2
  <2>. QED
    BY <2>2, <2>3
<1>7. \A r \in 1..Len(Append(rs, d)) :
        Append(rs, d)[r] = d => \E i \in 1..Len(new) : new[i] = r
  BY <1>1, <1>2, <1>3 DEF ListOf
<1>. QED
  BY <1>4, <1>5, <1>6, <1>7 DEF ListOf

\* The list the generator is at holds routes with one detail, that of a match.
LEMMA CurrentMatches ==
  ASSUME IInv, place.level # "keys"
  PROVE  /\ Current \in Seq(Route)
         /\ \E d \in Detail : Current # <<>> => ListOf(Current, d, routes)
         /\ \A j \in 1..Len(Current) :
              /\ Matches(Current[j])
              /\ IF place.level = "shallow" THEN routes[Current[j]] = <<>>
                 ELSE routes[Current[j]] # <<>> /\ routes[Current[j]][1] = keys[place.key]
<1>1. CASE place.level = "shallow"
  <2>1. Current \in Seq(Route) /\ ListOf(Current, <<>>, routes) /\ <<>> \in Detail
    BY <1>1 DEF IInv, TypeOK, TableInv, Current, Detail
  <2>2. \A j \in 1..Len(Current) : routes[Current[j]] = <<>>
    BY <2>1 DEF ListOf
  <2>. QED
    BY <1>1, <2>1, <2>2 DEF Matches
<1>2. CASE place.level = "deep"
  <2>. DEFINE k == keys[place.key]
  <2>1. k \in Key /\ place.key \in 1..Len(keys)
    BY <1>2 DEF IInv, TypeOK, PlaceInv, Place
  <2>2. CASE payload[k] \in {Absent, Object}
    BY <1>2, <2>2 DEF Current, MatchingFor, Detail
  <2>3. CASE payload[k] \notin {Absent, Object}
    <3>1. payload[k] \in Val /\ <<k, payload[k]>> \in Key \X Val
      BY <2>1, <2>3 DEF IInv, TypeOK
    <3>2. Current = deep[<<k, payload[k]>>]
      BY <1>2, <2>3 DEF Current, MatchingFor
    <3>3. ListOf(Current, <<k, payload[k]>>, routes)
      BY <3>1, <3>2 DEF IInv, TableInv
    <3>4. <<k, payload[k]>> \in Detail /\ <<k, payload[k]>> # <<>>
      BY <3>1 DEF Detail
    <3>5. \A j \in 1..Len(Current) : routes[Current[j]] = <<k, payload[k]>>
      BY <3>3 DEF ListOf
    <3>6. \A j \in 1..Len(Current) :
            /\ Matches(Current[j])
            /\ routes[Current[j]] # <<>> /\ routes[Current[j]][1] = k
      BY <3>4, <3>5 DEF Matches
    <3>7. Current \in Seq(Route)
      BY <3>3 DEF ListOf, Route
    <3>. QED
      BY <1>2, <3>3, <3>4, <3>6, <3>7
  <2>. QED
    BY <2>2, <2>3
<1>. QED
  BY <1>1, <1>2 DEF IInv, TypeOK, Place

-----------------------------------------------------------------------------
(* Initial states *)

LEMMA InitIInv == Init => IInv
<1>. SUFFICES ASSUME Init PROVE IInv
  OBVIOUS
<1>1. TypeOK
  BY DEF Init, TypeOK, Route, Place, Start
<1>2. TableInv
  BY DEF Init, TableInv, ListOf, Route, HasKey
<1>3. KnownInv /\ PlaceInv
  BY DEF Init, KnownInv, PlaceInv, Current, Start
<1>4. EmittedInv
  BY DEF Init, EmittedInv, EmittedMatchOnce, InOrder, Start
<1>5. DoneInv
  BY DEF Init, DoneInv, Start
<1>. QED
  BY <1>1, <1>2, <1>3, <1>4, <1>5 DEF IInv

-----------------------------------------------------------------------------
(* Registration *)

LEMMA RegisterIInv == IInv /\ Register => IInv'
<1>. SUFFICES ASSUME IInv, Register PROVE IInv'
  OBVIOUS
<1>0. PICK detail \in Detail : Add(detail)
  BY DEF Register
<1>1. UNCHANGED <<payload, phase, place, emitted, known>> /\ phase # "matching"
  BY DEF Register
<1>2. /\ routes' = Append(routes, detail) /\ routes \in Seq(Detail)
      /\ routes' \in Seq(Detail) /\ Len(routes') = Len(routes) + 1
      /\ \A r \in Route : routes'[r] = routes[r] /\ r \in Route'
      /\ routes'[Len(routes) + 1] = detail
      /\ Route' = 1..(Len(routes) + 1)
  BY <1>0 DEF Add, IInv, TypeOK, Route
<1>3. /\ keys \in Seq(Key) /\ keys' \in Seq(Key) /\ Len(keys) <= Len(keys')
      /\ \A i \in 1..Len(keys) : keys'[i] = keys[i] /\ i \in 1..Len(keys')
      /\ \A k : HasKey(k) => \E i \in 1..Len(keys') : keys'[i] = k
      /\ detail # <<>> => \E i \in 1..Len(keys') : keys'[i] = detail[1]
      /\ \A i, j \in 1..Len(keys') : keys'[i] = keys'[j] => i = j
  <2>0. keys \in Seq(Key) /\ \A i, j \in 1..Len(keys) : keys[i] = keys[j] => i = j
    BY DEF IInv, TypeOK, TableInv
  <2>1. CASE keys' = keys /\ (detail # <<>> => HasKey(detail[1]))
    BY <2>0, <2>1 DEF HasKey
  <2>2. CASE detail # <<>> /\ ~HasKey(detail[1]) /\ keys' = Append(keys, detail[1])
    <3>1. detail[1] \in Key
      BY <2>2 DEF Detail
    <3>. QED
      BY <2>0, <2>2, <3>1 DEF HasKey
  <2>. QED
    BY <1>0, <2>1, <2>2 DEF Add
<1>4. ListOf(shallow', <<>>, routes')
  <2>1. ListOf(shallow, <<>>, routes) /\ <<>> \in Detail
    BY DEF IInv, TableInv, Detail
  <2>2. CASE detail = <<>>
    BY <1>0, <1>2, <2>1, <2>2, ListGrows DEF Add
  <2>3. CASE detail # <<>>
    BY <1>0, <1>2, <2>1, <2>3, ListKept DEF Add
  <2>. QED
    BY <2>2, <2>3
<1>5. ASSUME NEW d \in Key \X Val
      PROVE  ListOf(deep'[d], d, routes')
  <2>1. ListOf(deep[d], d, routes) /\ d \in Detail /\ d # <<>>
    BY DEF IInv, TableInv, Detail
  <2>2. CASE detail = d
    <3>1. deep'[d] = Append(deep[d], Len(routes) + 1)
      BY <1>0, <2>1, <2>2 DEF Add, IInv, TypeOK
    <3>. QED
      BY <1>2, <2>1, <2>2, <3>1, ListGrows
  <2>3. CASE detail # d
    <3>1. deep'[d] = deep[d]
      BY <1>0, <2>3 DEF Add, IInv, TypeOK
    <3>. QED
      BY <1>2, <2>1, <2>3, <3>1, ListKept
  <2>. QED
    BY <2>2, <2>3
<1>6. ASSUME place.level # "keys"
      PROVE  /\ Current \in Seq(Route) /\ Current' \in Seq(Nat)
             /\ \A j \in 1..Len(Current) : j \in 1..Len(Current') /\ Current'[j] = Current[j]
             /\ \A j \in 1..Len(Current') :
                  j \in 1..Len(Current) \/ Current'[j] = Len(routes) + 1
  <2>1. \A list \in Seq(Route) :
          LET new == Append(list, Len(routes) + 1) IN
          /\ new \in Seq(Nat)
          /\ \A j \in 1..Len(list) : j \in 1..Len(new) /\ new[j] = list[j]
          /\ \A j \in 1..Len(new) : j \in 1..Len(list) \/ new[j] = Len(routes) + 1
    BY <1>2 DEF Route
  <2>2. Current \in Seq(Route)
    BY <1>6, CurrentMatches
  <2>3. Current' = Current \/ Current' = Append(Current, Len(routes) + 1)
    <3>1. CASE place.level = "shallow"
      BY <1>0, <1>1, <3>1 DEF Current, Add
    <3>2. CASE place.level = "deep"
      <4>. DEFINE k == keys[place.key]
      <4>1. k \in Key /\ keys'[place.key] = k
        BY <1>3, <3>2 DEF IInv, TypeOK, PlaceInv, Place
      <4>2. /\ Current = IF payload[k] \in {Absent, Object} THEN <<>> ELSE deep[<<k, payload[k]>>]
            /\ Current' = IF payload[k] \in {Absent, Object} THEN <<>> ELSE deep'[<<k, payload[k]>>]
        BY <1>1, <3>2, <4>1 DEF Current, MatchingFor
      <4>3. CASE payload[k] \in {Absent, Object}
        BY <4>2, <4>3
      <4>4. CASE payload[k] \notin {Absent, Object}
        <5>1. Current = deep[<<k, payload[k]>>] /\ Current' = deep'[<<k, payload[k]>>]
          BY <4>2, <4>4
        <5>2. <<k, payload[k]>> \in Key \X Val
          BY <4>1, <4>4 DEF IInv, TypeOK
        <5>3. deep \in [Key \X Val -> Seq(Route)]
          BY DEF IInv, TypeOK
        <5>. QED
          BY <1>0, <5>1, <5>2, <5>3 DEF Add
      <4>. QED
        BY <4>3, <4>4
    <3>. QED
      BY <1>6, <3>1, <3>2 DEF IInv, TypeOK, Place
  <2>4. CASE Current' = Current
    BY <2>2, <2>4 DEF Route
  <2>5. CASE Current' = Append(Current, Len(routes) + 1)
    BY <2>1, <2>2, <2>5
  <2>. QED
    BY <2>3, <2>4, <2>5
<1>7. TypeOK'
  <2>1. shallow' \in Seq(Route')
    BY <1>4 DEF ListOf, Route
  <2>2. deep' \in [Key \X Val -> Seq(Route')]
    <3>1. \A d \in Key \X Val : deep'[d] \in Seq(Route')
      BY <1>5 DEF ListOf, Route
    <3>2. deep' = [d \in Key \X Val |-> deep'[d]]
      BY <1>0 DEF Add, IInv, TypeOK
    <3>. QED
      BY <3>1, <3>2
  <2>3. emitted' \in Seq(Route')
    BY <1>1, <1>2 DEF IInv, TypeOK, Route
  <2>. QED
    BY <1>1, <1>2, <1>3, <2>1, <2>2, <2>3 DEF IInv, TypeOK
<1>8. TableInv'
  <2>1. ASSUME NEW r \in Route', routes'[r] # <<>>
        PROVE  \E i \in 1..Len(keys') : keys'[i] = routes'[r][1]
    <3>1. CASE r \in Route
      BY <1>2, <1>3, <2>1, <3>1 DEF IInv, TableInv
    <3>2. CASE r = Len(routes) + 1
      BY <1>2, <1>3, <2>1, <3>2
    <3>. QED
      BY <1>2, <3>1, <3>2 DEF Route
  <2>. QED
    BY <1>3, <1>4, <1>5, <2>1 DEF TableInv, HasKey
<1>9. KnownInv' /\ PlaceInv'
  <2>1. known.routes \in Nat /\ known.keys \in Nat /\ place.key \in Nat /\ place.size \in Nat
    BY DEF IInv, TypeOK, Place
  <2>2. Len(keys) \in Nat /\ Len(keys') \in Nat /\ Len(routes) \in Nat
    BY <1>2, <1>3
  <2>3. known.routes <= Len(routes') /\ known.keys <= Len(keys')
    BY <1>2, <1>3, <2>1, <2>2 DEF IInv, KnownInv
  <2>4. \A r \in 1..known.routes : r \in Route /\ routes'[r] = routes[r]
    BY <1>2, <2>1, <2>2 DEF IInv, KnownInv, Route
  <2>5. \A j \in 1..known.keys : keys'[j] = keys[j]
    BY <1>3, <2>1, <2>2 DEF IInv, KnownInv
  <2>6. KnownInv'
    BY <1>1, <2>3, <2>4, <2>5 DEF IInv, KnownInv
  <2>7. place.level # "keys" => place.index <= Len(Current') + 1
    <3>1. place.level # "keys" => Len(Current) <= Len(Current')
      BY <1>6
    <3>. QED
      BY <1>6, <3>1 DEF IInv, PlaceInv, TypeOK, Place
  <2>8. PlaceInv'
    BY <1>1, <1>3, <2>1, <2>2, <2>7 DEF IInv, PlaceInv
  <2>. QED
    BY <2>6, <2>8
<1>10. \A i \in 1..Len(emitted) :
         /\ emitted[i] \in Route /\ emitted[i] # Len(routes) + 1
         /\ routes'[emitted[i]] = routes[emitted[i]]
  BY <1>2 DEF IInv, TypeOK, Route
<1>11. EmittedInv'
  <2>1. EmittedMatchOnce'
    BY <1>1, <1>10 DEF IInv, EmittedInv, EmittedMatchOnce, Matches
  <2>2. InOrder'
    BY <1>1, <1>10 DEF IInv, EmittedInv, InOrder
  <2>3. place.level = "shallow" => \A i \in 1..Len(emitted) : routes'[emitted[i]] = <<>>
    BY <1>10 DEF IInv, EmittedInv
  <2>4. ASSUME NEW i \in 1..Len(emitted), routes'[emitted[i]] # <<>>
        PROVE  \E j \in 1..place.key : j <= Len(keys') /\ keys'[j] = routes'[emitted[i]][1]
    <3>1. PICK j \in 1..place.key : j <= Len(keys) /\ keys[j] = routes[emitted[i]][1]
      BY <1>10, <2>4 DEF IInv, EmittedInv
    <3>2. j \in 1..Len(keys) /\ Len(keys) \in Nat /\ Len(keys') \in Nat
      BY <1>3, <3>1 DEF IInv, TypeOK, Place
    <3>. QED
      BY <1>3, <1>10, <3>1, <3>2
  <2>5. ASSUME place.level # "keys", NEW i \in 1..Len(emitted), NEW j \in 1..Len(Current'),
               emitted[i] = Current'[j]
        PROVE  j < place.index
    BY <1>6, <1>10, <2>5 DEF IInv, EmittedInv
  <2>. QED
    BY <1>1, <2>1, <2>2, <2>3, <2>4, <2>5 DEF EmittedInv
<1>12. DoneInv'
  <2>1. \A r : IsEmitted(r)' <=> IsEmitted(r)
    BY <1>1 DEF IsEmitted
  <2>2. \A r \in 1..known.routes : routes'[r] = routes[r] /\ (Matches(r)' <=> Matches(r))
    BY <1>1, <1>2 DEF IInv, TypeOK, KnownInv, Route, Matches
  <2>3. ASSUME place.level # "keys", NEW j \in 1..Len(Current'), j < place.index
        PROVE  IsEmitted(Current'[j])
    <3>1. j \in 1..Len(Current)
      <4>1. place.index <= Len(Current) + 1 /\ place.index \in Nat
        BY <2>3 DEF IInv, PlaceInv, TypeOK, Place
      <4>2. Len(Current) \in Nat
        BY <1>6, <2>3
      <4>. QED
        BY <2>3, <4>1, <4>2
    <3>. QED
      BY <1>6, <2>3, <3>1 DEF IInv, DoneInv
  <2>4. place.level # "shallow" =>
          \A r \in 1..known.routes : routes'[r] = <<>> => IsEmitted(r)
    BY <2>2 DEF IInv, DoneInv
  <2>5. ASSUME place.level # "shallow", NEW r \in 1..known.routes, NEW j \in 1..place.key,
               place.level = "deep" => j < place.key,
               routes'[r] # <<>>, routes'[r][1] = keys'[j], Matches(r)'
        PROVE  IsEmitted(r)
    <3>1. j \in 1..Len(keys)
      BY <1>3, <2>5 DEF IInv, PlaceInv, TypeOK, Place
    <3>. QED
      BY <1>3, <2>2, <2>5, <3>1 DEF IInv, DoneInv
  <2>. QED
    BY <1>1, <2>1, <2>3, <2>4, <2>5 DEF DoneInv
<1>. QED
  BY <1>7, <1>8, <1>9, <1>11, <1>12 DEF IInv

-----------------------------------------------------------------------------
(* Dispatch *)

LEMMA DispatchIInv == IInv /\ Dispatch => IInv'
<1>. SUFFICES ASSUME IInv, Dispatch PROVE IInv'
  OBVIOUS
<1>1. /\ UNCHANGED <<routes, shallow, keys, deep>>
      /\ place' = [level |-> "shallow", key |-> 0, index |-> 1, size |-> 0]
      /\ emitted' = <<>> /\ phase' = "matching"
      /\ payload' \in [Key -> Val \cup {Absent, Object}]
      /\ known' = [routes |-> Len(routes), keys |-> Len(keys)]
  BY DEF Dispatch, table, Start
<1>2. /\ routes \in Seq(Detail) /\ Len(routes) \in Nat /\ keys \in Seq(Key) /\ Len(keys) \in Nat
      /\ shallow \in Seq(Route) /\ Len(shallow) \in Nat
  BY DEF IInv, TypeOK
<1>3. TypeOK'
  BY <1>1, <1>2 DEF IInv, TypeOK, Route, Place
<1>4. TableInv'
  BY <1>1 DEF IInv, TableInv, Route, HasKey
<1>5. KnownInv'
  BY <1>1, <1>2 DEF IInv, TableInv, KnownInv, Route, HasKey
<1>6. PlaceInv'
  BY <1>1, <1>2 DEF PlaceInv, Current
<1>7. EmittedInv' /\ DoneInv'
  BY <1>1, <1>2 DEF EmittedInv, EmittedMatchOnce, InOrder, DoneInv, Current
<1>. QED
  BY <1>3, <1>4, <1>5, <1>6, <1>7 DEF IInv

\* The generator emits a route of the list it is at.
LEMMA EmitIInv ==
  ASSUME IInv, place.level # "keys", EmitFrom(Current), UNCHANGED <<table, payload, known>>
  PROVE  IInv'
<1>. DEFINE s == Current[place.index]
<1>1. /\ UNCHANGED <<routes, shallow, keys, deep, payload, known>>
      /\ place' = [place EXCEPT !.index = @ + 1] /\ phase' = "running"
      /\ emitted' = Append(emitted, s) /\ place.index <= Len(Current)
  BY DEF EmitFrom, Emit, table
<1>2. /\ place'.level = place.level /\ place'.key = place.key /\ place'.size = place.size
      /\ place'.index = place.index + 1 /\ place' \in Place
      /\ place.index \in Nat /\ place.key \in Nat /\ place.size \in Nat
  <2>1. /\ place \in Place /\ place.index \in Nat /\ place.key \in Nat /\ place.size \in Nat
        /\ place.level \in {"shallow", "keys", "deep"}
    BY DEF IInv, TypeOK, Place
  <2>2. place' = [level |-> place.level, key |-> place.key,
                  index |-> place.index + 1, size |-> place.size]
    BY <1>1, <2>1 DEF Place
  <2>. QED
    BY <2>1, <2>2 DEF Place
<1>3. Current' = Current
  BY <1>1, <1>2 DEF Current, MatchingFor
<1>4. /\ Current \in Seq(Route) /\ place.index \in 1..Len(Current) /\ s \in Route
      /\ Matches(s)
      /\ IF place.level = "shallow" THEN routes[s] = <<>>
         ELSE routes[s] # <<>> /\ routes[s][1] = keys[place.key]
  BY <1>1, <1>2, CurrentMatches DEF IInv, PlaceInv
<1>5. PICK d \in Detail : ListOf(Current, d, routes)
  BY <1>4, CurrentMatches
<1>6. /\ \A j \in 1..Len(Current) : routes[Current[j]] = d /\ Current[j] \in Nat
      /\ \A i, j \in 1..Len(Current) : i < j => Current[i] < Current[j]
      /\ \A r \in Route : routes[r] = d => \E i \in 1..Len(Current) : Current[i] = r
  <2>1. \A j \in 1..Len(Current) : Current[j] \in Nat
    BY <1>4 DEF Route
  <2>. QED
    BY <1>5, <2>1 DEF ListOf, Route
<1>7. /\ emitted \in Seq(Route) /\ Len(emitted) \in Nat /\ Len(emitted') = Len(emitted) + 1
      /\ \A i \in 1..Len(emitted) : emitted'[i] = emitted[i] /\ emitted[i] \in Route
      /\ emitted'[Len(emitted) + 1] = s
  BY <1>1, <1>4 DEF IInv, TypeOK
<1>8. \A i \in 1..Len(emitted') : i \in 1..Len(emitted) \/ (i = Len(emitted) + 1 /\ emitted'[i] = s)
  BY <1>7
<1>. HIDE DEF s
<1>9. \A i \in 1..Len(emitted), j \in 1..Len(Current) : emitted[i] = Current[j] => j < place.index
  BY DEF IInv, EmittedInv
<1>10. \A i \in 1..Len(emitted) : emitted[i] # s
  BY <1>2, <1>4, <1>9 DEF s
<1>11. TypeOK' /\ TableInv' /\ KnownInv'
  <2>1. emitted' \in Seq(Route')
    BY <1>1, <1>4, <1>7 DEF Route
  <2>2. TypeOK'
    BY <1>1, <1>2, <2>1 DEF IInv, TypeOK, Route
  <2>3. TableInv'
    BY <1>1 DEF IInv, TableInv, Route, HasKey
  <2>. QED
    BY <1>1, <2>2, <2>3 DEF IInv, KnownInv
<1>12. PlaceInv'
  BY <1>1, <1>2, <1>3, <1>4 DEF IInv, PlaceInv
<1>13. EmittedMatchOnce'
  <2>1. \A r : Matches(r)' <=> Matches(r)
    BY <1>1 DEF Matches
  <2>2. \A i \in 1..Len(emitted') : Matches(emitted'[i])
    BY <1>4, <1>7, <1>8 DEF IInv, EmittedInv, EmittedMatchOnce
  <2>3. \A i, j \in 1..Len(emitted') : emitted'[i] = emitted'[j] => i = j
    BY <1>7, <1>8, <1>10 DEF IInv, EmittedInv, EmittedMatchOnce
  <2>. QED
    BY <2>1, <2>2, <2>3 DEF EmittedMatchOnce
<1>14. InOrder'
  <2>1. ASSUME NEW i \in 1..Len(emitted), routes[s] = <<>>
        PROVE  routes[emitted[i]] = <<>>
    BY <1>4, <2>1 DEF IInv, EmittedInv
  <2>2. ASSUME NEW i \in 1..Len(emitted), routes[emitted[i]] = routes[s]
        PROVE  emitted[i] < s
    <3>1. PICK j \in 1..Len(Current) : Current[j] = emitted[i]
      BY <1>4, <1>6, <1>7, <2>2 DEF s
    <3>. QED
      BY <1>4, <1>6, <1>9, <3>1 DEF s
  <2>3. ASSUME NEW i \in 1..Len(emitted'), NEW j \in 1..Len(emitted'), i < j
        PROVE  /\ routes[emitted'[j]] = <<>> => routes[emitted'[i]] = <<>>
               /\ routes[emitted'[i]] = routes[emitted'[j]] => emitted'[i] < emitted'[j]
    <3>1. i \in 1..Len(emitted) /\ emitted'[i] = emitted[i]
      BY <1>7, <2>3
    <3>2. CASE j \in 1..Len(emitted)
      BY <1>7, <2>3, <3>1, <3>2 DEF IInv, EmittedInv, InOrder
    <3>3. CASE emitted'[j] = s
      BY <2>1, <2>2, <3>1, <3>3
    <3>. QED
      BY <1>8, <3>2, <3>3
  <2>. QED
    BY <1>1, <2>3 DEF InOrder
<1>15. EmittedInv'
  <2>1. place.level = "shallow" => \A i \in 1..Len(emitted') : routes[emitted'[i]] = <<>>
    BY <1>4, <1>7, <1>8 DEF IInv, EmittedInv
  <2>2. ASSUME NEW i \in 1..Len(emitted'), routes[emitted'[i]] # <<>>
        PROVE  \E j \in 1..place.key : j <= Len(keys) /\ keys[j] = routes[emitted'[i]][1]
    <3>1. CASE i \in 1..Len(emitted)
      BY <1>7, <2>2, <3>1 DEF IInv, EmittedInv
    <3>2. CASE emitted'[i] = s
      <4>1. place.level = "deep" /\ keys[place.key] = routes[s][1]
        BY <1>4, <2>2, <3>2 DEF IInv, TypeOK, Place
      <4>2. place.key \in 1..place.key /\ place.key <= Len(keys)
        BY <1>2, <4>1 DEF IInv, PlaceInv, TypeOK
      <4>. QED
        BY <3>2, <4>1, <4>2
    <3>. QED
      BY <1>8, <3>1, <3>2
  <2>3. ASSUME NEW i \in 1..Len(emitted'), NEW j \in 1..Len(Current), emitted'[i] = Current[j]
        PROVE  j < place.index + 1
    <3>1. CASE i \in 1..Len(emitted)
      BY <1>2, <1>7, <1>9, <2>3, <3>1
    <3>2. CASE emitted'[i] = s
      <4>1. Current[j] = Current[place.index] /\ Current[j] \in Nat
        BY <1>6, <2>3, <3>2 DEF s
      <4>2. ~ (place.index < j)
        BY <1>4, <1>6, <4>1
      <4>. QED
        BY <1>2, <4>2
    <3>. QED
      BY <1>8, <3>1, <3>2
  <2>. QED
    BY <1>1, <1>2, <1>3, <1>13, <1>14, <2>1, <2>2, <2>3 DEF EmittedInv
<1>16. DoneInv'
  <2>1. \A r : IsEmitted(r) => IsEmitted(r)'
    BY <1>7 DEF IsEmitted
  <2>2. ASSUME NEW j \in 1..Len(Current), j < place.index + 1
        PROVE  IsEmitted(Current[j])'
    <3>1. CASE j = place.index
      BY <1>1, <1>2, <1>3, <1>7, <3>1 DEF IsEmitted, s
    <3>2. CASE j < place.index
      BY <1>1, <1>3, <1>7, <3>2 DEF IInv, DoneInv, IsEmitted
    <3>. QED
      BY <1>2, <2>2, <3>1, <3>2
  <2>3. \A r : Matches(r)' <=> Matches(r)
    BY <1>1 DEF Matches
  <2>. QED
    BY <1>1, <1>2, <1>3, <2>1, <2>2, <2>3 DEF IInv, DoneInv
<1>. QED
  BY <1>11, <1>12, <1>15, <1>16 DEF IInv

\* The generator leaves the routes without a detail for those with one.
LEMMA ShallowOverIInv == IInv /\ ShallowOver => IInv'
<1>. SUFFICES ASSUME IInv, ShallowOver PROVE IInv'
  OBVIOUS
<1>1. /\ UNCHANGED <<routes, shallow, keys, deep, payload, phase, emitted, known>>
      /\ phase = "matching" /\ place.level = "shallow" /\ place.index > Len(shallow)
      /\ place' = [level |-> "keys", key |-> 0, index |-> 1, size |-> Len(keys)]
  BY DEF ShallowOver, table
<1>2. keys \in Seq(Key) /\ Len(keys) \in Nat /\ Len(shallow) \in Nat
  BY DEF IInv, TypeOK
<1>3. TypeOK' /\ TableInv' /\ KnownInv'
  BY <1>1, <1>2 DEF IInv, TypeOK, TableInv, KnownInv, Route, HasKey, Place
<1>4. PlaceInv'
  BY <1>1, <1>2 DEF IInv, PlaceInv, KnownInv, TypeOK
<1>5. EmittedMatchOnce' /\ InOrder'
  BY <1>1 DEF IInv, EmittedInv, EmittedMatchOnce, InOrder, Matches
<1>6. EmittedInv'
  BY <1>1, <1>5 DEF IInv, EmittedInv
<1>7. ASSUME NEW r \in 1..known.routes, routes[r] = <<>>
      PROVE  IsEmitted(r)
  <2>1. r \in Route
    BY <1>7 DEF IInv, KnownInv, TypeOK, Route
  <2>2. PICK i \in 1..Len(shallow) : shallow[i] = r
    BY <1>7, <2>1 DEF IInv, TableInv, ListOf, Route
  <2>3. i < place.index /\ Current = shallow
    BY <1>1, <1>2, <2>2 DEF IInv, TypeOK, Place, Current
  <2>. QED
    BY <1>1, <2>2, <2>3 DEF IInv, DoneInv
<1>8. DoneInv'
  BY <1>1, <1>7 DEF DoneInv, IsEmitted
<1>. QED
  BY <1>3, <1>4, <1>6, <1>8 DEF IInv

\* What a matching route with detail asks for.
LEMMA MatchingRoute ==
  ASSUME IInv, NEW r \in Route, routes[r] # <<>>, Matches(r)
  PROVE  /\ routes[r] = <<routes[r][1], payload[routes[r][1]]>>
         /\ routes[r][1] \in Key /\ payload[routes[r][1]] \in Val
         /\ \E i \in 1..Len(MatchingFor(routes[r][1])) : MatchingFor(routes[r][1])[i] = r
<1>1. routes[r] \in Key \X Val
  BY DEF IInv, TypeOK, Detail, Route
<1>2. /\ routes[r] = <<routes[r][1], routes[r][2]>>
      /\ routes[r][1] \in Key /\ routes[r][2] \in Val /\ payload[routes[r][1]] = routes[r][2]
  BY <1>1 DEF Matches
<1>3. MatchingFor(routes[r][1]) = deep[routes[r]]
  BY <1>2, ValAssumption DEF MatchingFor
<1>4. \E i \in 1..Len(deep[routes[r]]) : deep[routes[r]][i] = r
  BY <1>1 DEF IInv, TableInv, ListOf, Route
<1>. QED
  BY <1>2, <1>3, <1>4

LEMMA ToNextKeyIInv == IInv /\ ToNextKey => IInv'
<1>. SUFFICES ASSUME IInv, ToNextKey PROVE IInv'
  OBVIOUS
<1>. DEFINE k == keys[place.key + 1]
            l == IF MatchingFor(k) = <<>> THEN "keys" ELSE "deep"
<1>1. /\ UNCHANGED <<routes, shallow, keys, deep, payload, phase, emitted, known>>
      /\ phase = "matching" /\ place.level = "keys"
      /\ place.size = Len(keys) /\ place.key # Len(keys)
      /\ place' = [place EXCEPT !.level = l, !.key = @ + 1, !.index = 1]
  BY DEF ToNextKey, Resized, Exhausted, NextKey, table
<1>2. /\ keys \in Seq(Key) /\ Len(keys) \in Nat
      /\ place \in Place /\ place.key \in Nat /\ place.key <= Len(keys)
      /\ place.key + 1 \in 1..Len(keys) /\ k \in Key
  BY <1>1 DEF IInv, TypeOK, PlaceInv, Place
<1>3. place' = [level |-> l, key |-> place.key + 1, index |-> 1, size |-> Len(keys)]
  BY <1>1, <1>2 DEF Place
<1>4. l \in {"keys", "deep"}
  OBVIOUS
<1>. HIDE DEF l
<1>5. Current' = MatchingFor(k)
  BY <1>1, <1>3, <1>4 DEF Current, MatchingFor
<1>6. TypeOK' /\ TableInv' /\ KnownInv'
  BY <1>1, <1>2, <1>3, <1>4 DEF IInv, TypeOK, TableInv, KnownInv, Route, HasKey, Place
<1>7. PlaceInv'
  <2>1. Len(MatchingFor(k)) \in Nat
    BY <1>2 DEF IInv, TypeOK, MatchingFor
  <2>. QED
    BY <1>1, <1>2, <1>3, <1>4, <1>5, <2>1 DEF IInv, PlaceInv, KnownInv, TypeOK
<1>8. EmittedMatchOnce' /\ InOrder'
  BY <1>1 DEF IInv, EmittedInv, EmittedMatchOnce, InOrder, Matches
<1>9. ASSUME NEW i \in 1..Len(emitted), NEW j \in 1..Len(MatchingFor(k))
      PROVE  emitted[i] # MatchingFor(k)[j]
  <2>1. MatchingFor(k) = deep[<<k, payload[k]>>] /\ <<k, payload[k]>> \in Key \X Val
    BY <1>2, <1>9 DEF IInv, TypeOK, MatchingFor
  <2>2. routes[MatchingFor(k)[j]] = <<k, payload[k]>>
    <3>1. ListOf(MatchingFor(k), <<k, payload[k]>>, routes)
      BY <2>1 DEF IInv, TableInv
    <3>. QED
      BY <1>9, <3>1 DEF ListOf
  <2>3. SUFFICES ASSUME emitted[i] = MatchingFor(k)[j]
                 PROVE  FALSE
    OBVIOUS
  <2>4. routes[emitted[i]] # <<>> /\ routes[emitted[i]][1] = k
    <3>1. routes[emitted[i]] = <<k, payload[k]>>
      BY <2>2, <2>3 DEF MatchingFor
    <3>. QED
      BY <3>1
  <2>5. PICK n \in 1..place.key : n <= Len(keys) /\ keys[n] = k
    BY <2>4 DEF IInv, EmittedInv
  <2>6. n \in 1..Len(keys) /\ n # place.key + 1
    BY <1>2, <2>5
  <2>. QED
    BY <1>2, <2>5, <2>6 DEF IInv, TableInv
<1>10. EmittedInv'
  <2>1. \A i \in 1..Len(emitted) : routes[emitted[i]] # <<>> =>
          \E j \in 1..(place.key + 1) : j <= Len(keys) /\ keys[j] = routes[emitted[i]][1]
    BY <1>2 DEF IInv, EmittedInv
  <2>. QED
    BY <1>1, <1>3, <1>4, <1>5, <1>8, <1>9, <2>1 DEF EmittedInv
<1>11. ASSUME NEW r \in 1..known.routes, NEW j \in 1..(place.key + 1), l = "deep" => j < place.key + 1,
              routes[r] # <<>>, routes[r][1] = keys[j], Matches(r)
       PROVE  IsEmitted(r)
  <2>1. CASE j \in 1..place.key
    BY <1>1, <1>11, <2>1 DEF IInv, DoneInv
  <2>2. CASE j = place.key + 1
    <3>1. MatchingFor(k) = <<>>
      BY <1>2, <1>11, <2>2 DEF l
    <3>2. r \in Route
      BY <1>11 DEF IInv, KnownInv, TypeOK, Route
    <3>. QED
      BY <1>11, <2>2, <3>1, <3>2, MatchingRoute
  <2>. QED
    BY <1>2, <2>1, <2>2
<1>12. DoneInv'
  <2>1. \A r \in 1..known.routes : routes[r] = <<>> => IsEmitted(r)
    BY <1>1 DEF IInv, DoneInv
  <2>. QED
    BY <1>1, <1>3, <1>11, <2>1 DEF DoneInv, IsEmitted, Matches
<1>. QED
  BY <1>6, <1>7, <1>10, <1>12 DEF IInv

\* The generator goes back from a list to the dictionary of keys.
LEMMA DeepOverIInv == IInv /\ DeepOver => IInv'
<1>. SUFFICES ASSUME IInv, DeepOver PROVE IInv'
  OBVIOUS
<1>. DEFINE k == keys[place.key]
<1>1. /\ UNCHANGED <<routes, shallow, keys, deep, payload, phase, emitted, known>>
      /\ phase = "matching" /\ place.level = "deep"
      /\ place.index > Len(MatchingFor(k))
      /\ place' = [place EXCEPT !.level = "keys"]
  BY DEF DeepOver, table
<1>2. /\ place \in Place /\ place.key \in 1..Len(keys) /\ k \in Key
      /\ place.index \in Nat /\ Len(MatchingFor(k)) \in Nat
  BY <1>1 DEF IInv, TypeOK, PlaceInv, Place, MatchingFor
<1>3. place' = [level |-> "keys", key |-> place.key, index |-> place.index, size |-> place.size]
  BY <1>1, <1>2 DEF Place
<1>4. TypeOK' /\ TableInv' /\ KnownInv'
  BY <1>1, <1>2, <1>3 DEF IInv, TypeOK, TableInv, KnownInv, Route, HasKey, Place
<1>5. PlaceInv'
  BY <1>1, <1>3 DEF IInv, PlaceInv
<1>6. EmittedMatchOnce' /\ InOrder'
  BY <1>1 DEF IInv, EmittedInv, EmittedMatchOnce, InOrder, Matches
<1>7. EmittedInv'
  BY <1>1, <1>3, <1>6 DEF IInv, EmittedInv
<1>8. ASSUME NEW r \in 1..known.routes, NEW j \in 1..place.key,
             routes[r] # <<>>, routes[r][1] = keys[j], Matches(r)
      PROVE  IsEmitted(r)
  <2>1. CASE j < place.key
    BY <1>1, <1>8, <2>1 DEF IInv, DoneInv
  <2>2. CASE j = place.key
    <3>1. r \in Route
      BY <1>8 DEF IInv, KnownInv, TypeOK, Route
    <3>2. PICK i \in 1..Len(MatchingFor(k)) : MatchingFor(k)[i] = r
      BY <1>8, <2>2, <3>1, MatchingRoute
    <3>3. i < place.index /\ Current = MatchingFor(k)
      BY <1>1, <1>2, <3>2 DEF Current
    <3>. QED
      BY <1>1, <3>2, <3>3 DEF IInv, DoneInv
  <2>. QED
    BY <1>2, <2>1, <2>2
<1>9. DoneInv'
  <2>1. \A r \in 1..known.routes : routes[r] = <<>> => IsEmitted(r)
    BY <1>1 DEF IInv, DoneInv
  <2>. QED
    BY <1>1, <1>3, <1>8, <2>1 DEF DoneInv, IsEmitted, Matches
<1>. QED
  BY <1>4, <1>5, <1>7, <1>9 DEF IInv

LEMMA EndsIInv ==
  ASSUME IInv, NEW how \in {"matching", "finished", "crashed"}, Ends(how),
         how = "finished" => place.level = "keys" /\ ~Resized /\ Exhausted
  PROVE  IInv'
<1>1. /\ UNCHANGED <<routes, shallow, keys, deep, payload, place, emitted, known>>
      /\ phase' = how
  BY DEF Ends, table
<1>2. TypeOK' /\ TableInv' /\ KnownInv'
  BY <1>1 DEF IInv, TypeOK, TableInv, KnownInv, Route, HasKey
<1>3. PlaceInv'
  <2>1. Current' = Current
    BY <1>1 DEF Current, MatchingFor
  <2>. QED
    BY <1>1, <2>1 DEF IInv, PlaceInv, KnownInv, Resized, Exhausted
<1>4. EmittedInv'
  BY <1>1 DEF IInv, EmittedInv, EmittedMatchOnce, InOrder, Matches, Current, MatchingFor
<1>5. DoneInv'
  BY <1>1 DEF IInv, DoneInv, IsEmitted, Matches, Current, MatchingFor
<1>. QED
  BY <1>2, <1>3, <1>4, <1>5 DEF IInv

LEMMA StutterIInv == IInv /\ UNCHANGED vars => IInv'
<1>. SUFFICES ASSUME IInv, UNCHANGED vars PROVE IInv'
  OBVIOUS
<1>1. UNCHANGED <<routes, shallow, keys, deep, payload, phase, place, emitted, known>>
  BY DEF vars, table
<1>2. TypeOK' /\ TableInv' /\ KnownInv' /\ PlaceInv'
  BY <1>1 DEF IInv, TypeOK, TableInv, KnownInv, PlaceInv, Route, HasKey, Current, MatchingFor
<1>3. EmittedInv' /\ DoneInv'
  BY <1>1 DEF IInv, EmittedInv, EmittedMatchOnce, InOrder, DoneInv, IsEmitted, Matches, Current, MatchingFor
<1>. QED
  BY <1>2, <1>3 DEF IInv

LEMMA NextIInv == IInv /\ [Next]_vars => IInv'
<1>. SUFFICES ASSUME IInv, [Next]_vars PROVE IInv'
  OBVIOUS
<1>1. CASE Register
  BY <1>1, RegisterIInv
<1>2. CASE Dispatch
  BY <1>2, DispatchIInv
<1>3. CASE EmitShallow \/ EmitDeep
  <2>1. /\ place.level # "keys" /\ EmitFrom(Current)
        /\ UNCHANGED <<table, payload, known>>
    BY <1>3 DEF EmitShallow, EmitDeep, Current
  <2>. QED
    BY <2>1, EmitIInv
<1>4. CASE ShallowOver
  BY <1>4, ShallowOverIInv
<1>5. CASE ToNextKey
  BY <1>5, ToNextKeyIInv
<1>6. CASE DeepOver
  BY <1>6, DeepOverIInv
<1>7. CASE CallbackReturns
  BY <1>7, EndsIInv DEF CallbackReturns
<1>8. CASE CallbackRaises
  BY <1>8, EndsIInv DEF CallbackRaises
<1>9. CASE Finish
  BY <1>9, EndsIInv DEF Finish
<1>10. CASE IterationFails
  BY <1>10, EndsIInv DEF IterationFails
<1>11. CASE UNCHANGED vars
  BY <1>11, StutterIInv
<1>. QED
  BY <1>1, <1>2, <1>3, <1>4, <1>5, <1>6, <1>7, <1>8, <1>9, <1>10, <1>11 DEF Next

-----------------------------------------------------------------------------
(* Theorems *)

\* The inductive invariant holds, for any keys, values and number of routes.
THEOREM TableInvariance == Spec => []IInv
  BY InitIInv, NextIInv, PTL DEF Spec

\* Every variable keeps its type.
THEOREM TableTypeCorrect == Spec => []TypeOK
<1>1. IInv => TypeOK
  BY DEF IInv
<1>. QED
  BY <1>1, TableInvariance, PTL

\* A callback runs only for events that its route is about, and once for each
\* registration, whatever routes the callbacks before it have registered.
THEOREM MatchesEmittedOnce == Spec => []EmittedMatchOnce
<1>1. IInv => EmittedMatchOnce
  BY DEF IInv, EmittedInv
<1>. QED
  BY <1>1, TableInvariance, PTL

\* Routes without details come first, and those with the same detail in the order
\* of their registration.
THEOREM EmittedInOrder == Spec => []InOrder
<1>1. IInv => InOrder
  BY DEF IInv, EmittedInv
<1>. QED
  BY <1>1, TableInvariance, PTL

\* A dispatch that ends normally has run all matching routes it could know of.
THEOREM AllKnownEmitted == Spec => []NoneForgotten
<1>1. IInv => NoneForgotten
  <2>. SUFFICES ASSUME IInv, phase = "finished", NEW r \in 1..known.routes, Matches(r)
                PROVE  IsEmitted(r)
    BY DEF NoneForgotten, IsEmitted
  <2>1. place.level = "keys" /\ known.keys <= place.key
    BY DEF IInv, PlaceInv
  <2>2. CASE routes[r] = <<>>
    BY <2>1, <2>2 DEF IInv, DoneInv
  <2>3. CASE routes[r] # <<>>
    <3>1. PICK j \in 1..known.keys : keys[j] = routes[r][1]
      BY <2>3 DEF IInv, KnownInv
    <3>2. j \in 1..place.key
      BY <2>1, <3>1 DEF IInv, TypeOK, Place
    <3>. QED
      BY <2>1, <2>3, <3>1, <3>2 DEF IInv, DoneInv
  <2>. QED
    BY <2>2, <2>3
<1>. QED
  BY <1>1, TableInvariance, PTL

\* The generator fails only for a value that cannot be looked up, or when a callback
\* has registered a route with a new key.
THEOREM IterationFailsForAReason == Spec => FailsForAReason
<1>1. IInv /\ [Next]_vars =>
        [phase = "matching" /\ phase' = "crashed" =>
           \/ Len(keys) > known.keys
           \/ \E k \in Key : payload[k] = Object /\ HasKey(k)]_vars
  <2>. SUFFICES ASSUME IInv, Next, phase = "matching", phase' = "crashed"
                PROVE  \/ Len(keys) > known.keys
                       \/ \E k \in Key : payload[k] = Object /\ HasKey(k)
    BY DEF vars, table
  <2>1. IterationFails
    BY DEF Next, Register, Dispatch, EmitShallow, EmitDeep, EmitFrom, ShallowOver, ToNextKey,
           DeepOver, CallbackReturns, CallbackRaises, Finish, Ends
  <2>2. /\ keys \in Seq(Key) /\ Len(keys) \in Nat /\ known.keys \in Nat
        /\ place.key \in Nat /\ place.size \in Nat
        /\ known.keys <= place.size /\ place.size <= Len(keys) /\ place.key <= place.size
    BY <2>1 DEF IterationFails, IInv, TypeOK, PlaceInv, Place
  <2>3. CASE Resized
    BY <2>2, <2>3 DEF Resized
  <2>4. CASE ~Resized /\ ~Exhausted /\ Unusable(NextKey)
    <3>1. place.key + 1 \in 1..Len(keys)
      BY <2>2, <2>4 DEF Resized, Exhausted
    <3>. QED
      BY <2>2, <2>4, <3>1 DEF Unusable, NextKey, HasKey
  <2>. QED
    BY <2>1, <2>3, <2>4 DEF IterationFails
<1>. QED
  BY <1>1, TableInvariance, PTL DEF Spec, FailsForAReason
=============================================================================
