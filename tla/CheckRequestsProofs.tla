------------------------ MODULE CheckRequestsProofs -------------------------
(***************************************************************************)
(* What is sent of the requests of CheckRequests, for any number of        *)
(* requests and lists of any length.                                       *)
(***************************************************************************)
EXTENDS CheckRequests, SequenceTheorems, TLAPS

-----------------------------------------------------------------------------
(* The inductive invariant *)

\* The converters have given each request lists of its own, or the one of the output
\* that was built.
OwnLists ==
  \A r \in Made : \A a \in Attribute : request[r][a] \in {None, HomeOf(r, a)}

\* What was put into the output that was built is in it.
BuiltAsGiven == lists[BuiltList] = expected[BuiltList]

\* The validators have seen what is still in the request: what is added to the
\* actions comes after them.
Validated ==
  \A r \in Made :
    /\ request[r].status = "completed" => request[r].conclusion = "success"
    /\ request[r].conclusion # None => request[r].completed_at = "time"
    /\ request[r].actions # None =>
         LET list == expected[<<r, "actions">>]
         IN /\ checked[r] <= 3 /\ checked[r] <= Len(list)
            /\ \A n \in 1..checked[r] : list[n] # "bad"

IInv == TypeOK /\ OwnLists /\ BuiltAsGiven /\ RequestsAreSeparate /\ Validated

LEMMA Homes ==
  /\ Home \subseteq Ref /\ BuiltList \in Home
  /\ \A r \in Request, a \in Attribute : <<r, a>> \in Home /\ HomeOf(r, a) \in {<<r, a>>, BuiltList}
  /\ \A r \in Request : HomeOf(r, "actions") = <<r, "actions">>
BY DEF Home, Ref, HomeOf, Attribute

LEMMA DistinctHomes ==
  ASSUME NEW r \in Request, NEW a \in Attribute
  PROVE  /\ <<r, a>> # BuiltList
         /\ \A s \in Request, b \in Attribute : <<s, b>> = <<r, a>> => s = r /\ b = a
         /\ \A b \in Attribute : <<"given", b>> # <<r, a>> /\ <<"given", b>> # BuiltList
BY RequestAssumption DEF BuiltList

LEMMA AppendedItem ==
  ASSUME NEW list \in Seq(Item), NEW item \in Item
  PROVE  /\ Append(list, item) \in Seq(Item)
         /\ Len(Append(list, item)) = Len(list) + 1
         /\ \A n \in 1..Len(list) : Append(list, item)[n] = list[n]
OBVIOUS

LEMMA InitIInv ==
  ASSUME Init
  PROVE  IInv
<1>1. TypeOK
  <2>1. <<>> \in Seq(Item)
    OBVIOUS
  <2>2. Given["actions"] \cup Given["annotations"] \cup {<<>>} \subseteq Seq(Item)
    BY <2>1, ListAssumption DEF Attribute
  <2>3. lists \in [Ref -> Seq(Item)]
    BY <2>2 DEF Init
  <2>4. expected \in [Home -> Seq(Item)]
    BY <2>3, Homes DEF Init
  <2>. QED
    BY <2>3, <2>4 DEF Init, TypeOK
<1>2. Made = {}
  BY DEF Init, Made
<1>3. BuiltAsGiven
  BY Homes DEF Init, BuiltAsGiven
<1>. QED
  BY <1>1, <1>2, <1>3 DEF IInv, OwnLists, RequestsAreSeparate, Validated

LEMMA ContentType ==
  ASSUME TypeOK, NEW a \in Attribute, NEW whose \in {"none", "default", "given"}
  PROVE  Content(a, whose) \in Seq(Item)
<1>1. whose # "none" => Source(a, whose) \in Ref
  BY DEF Ref, Source
<1>2. <<>> \in Seq(Item)
  OBVIOUS
<1>. QED
  BY <1>1, <1>2 DEF Content, TypeOK

-----------------------------------------------------------------------------
(* Construction *)

LEMMA ConstructIInv ==
  ASSUME IInv, NEW r \in Request, Construct(r)
  PROVE  IInv'
<1>. DEFINE built(args) == [args EXCEPT !.actions = ListOf(r, "actions", args),
                                        !.annotations = ListOf(r, "annotations", args)]
            at(args, ref) == {a \in {b \in Attribute : args[b] # "none"} : ref = <<r, a>>}
<1>1. PICK args \in Arguments :
        /\ args.output # "new" => args.annotations = "none"
        /\ Accepted(args)
        /\ request' = [request EXCEPT ![r] = built(args)]
        /\ lists' = [ref \in Ref |->
                       IF at(args, ref) = {} THEN lists[ref]
                       ELSE LET a == CHOOSE a \in at(args, ref) : TRUE IN Content(a, args[a])]
        /\ expected' = [home \in Home |->
                          IF home[1] = r THEN Content(home[2], args[home[2]]) ELSE expected[home]]
        /\ checked' = [checked EXCEPT ![r] = Len(Content("actions", args.actions))]
  BY DEF Construct, Converted
<1>. HIDE DEF built
<1>. DEFINE made == built(args)
<1>2. /\ args.actions = args["actions"] /\ args.annotations = args["annotations"]
      /\ \A a \in Attribute : args[a] \in {"none", "default", "given"}
      /\ args.status \in {None, "queued", "completed", "unknown"}
      /\ args.conclusion \in {None, "success", "unknown"}
      /\ args.completed_at \in {None, "", "time"} /\ args.output \in {"none", "new", "built"}
  BY DEF Arguments, Attribute
<1>3. \A a \in Attribute : Content(a, args[a]) \in Seq(Item)
  BY <1>2, ContentType DEF IInv
<1>4. made \in [status : {args.status}, conclusion : {args.conclusion},
                completed_at : {args.completed_at}, output : {args.output},
                actions : {ListOf(r, "actions", args)}, annotations : {ListOf(r, "annotations", args)}]
  BY DEF Arguments, built
<1>5. /\ made.status = args.status /\ made.conclusion = args.conclusion
      /\ made.completed_at = args.completed_at /\ made.output = args.output
      /\ made["actions"] = made.actions /\ made["annotations"] = made.annotations
      /\ made["actions"] = ListOf(r, "actions", args)
      /\ made["annotations"] = ListOf(r, "annotations", args)
  BY <1>4
<1>6. \A a \in Attribute : made[a] = ListOf(r, a, args)
  BY <1>5 DEF Attribute
<1>. HIDE DEF made
<1>7. /\ request'[r] = made /\ checked'[r] = Len(Content("actions", args.actions))
      /\ \A s \in Request \ {r} : request'[s] = request[s] /\ checked'[s] = checked[s]
  BY <1>1 DEF IInv, TypeOK, made
<1>8. \A a \in Attribute : expected'[<<r, a>>] = Content(a, args[a])
  BY <1>1, Homes
<1>9. /\ expected'[BuiltList] = expected[BuiltList]
      /\ \A s \in Request \ {r}, a \in Attribute : expected'[<<s, a>>] = expected[<<s, a>>]
  <2>1. BuiltList[1] # r
    BY RequestAssumption DEF BuiltList
  <2>. QED
    BY <1>1, <2>1, Homes
<1>10. \A a \in Attribute : args[a] # "none" => lists'[<<r, a>>] = Content(a, args[a])
  <2>1. SUFFICES ASSUME NEW a \in Attribute, args[a] # "none"
                 PROVE  lists'[<<r, a>>] = Content(a, args[a])
    OBVIOUS
  <2>2. at(args, <<r, a>>) = {a}
    BY <2>1
  <2>3. (CHOOSE b \in {a} : TRUE) = a
    OBVIOUS
  <2>4. <<r, a>> \in Ref
    BY Homes
  <2>. QED
    BY <1>1, <2>2, <2>3, <2>4
<1>11. /\ lists'[BuiltList] = lists[BuiltList]
       /\ \A s \in Request \ {r}, a \in Attribute : lists'[<<s, a>>] = lists[<<s, a>>]
  <2>1. at(args, BuiltList) = {}
    BY DistinctHomes
  <2>2. \A s \in Request \ {r}, a \in Attribute : at(args, <<s, a>>) = {}
    OBVIOUS
  <2>3. BuiltList \in Ref /\ \A s \in Request, a \in Attribute : <<s, a>> \in Ref
    BY Homes
  <2>. QED
    BY <1>1, <2>1, <2>2, <2>3
<1>12. \A a \in Attribute :
         made[a] = IF a = "annotations" /\ made.output = "built" THEN BuiltList
                   ELSE IF args[a] = "none" THEN None ELSE <<r, a>>
  BY <1>5, <1>6 DEF ListOf, Converted
<1>13. TypeOK'
  <2>1. lists' \in [Ref -> Seq(Item)]
    <3>1. SUFFICES ASSUME NEW ref \in Ref
                   PROVE  (IF at(args, ref) = {} THEN lists[ref]
                           ELSE LET a == CHOOSE a \in at(args, ref) : TRUE IN Content(a, args[a])) \in Seq(Item)
      BY <1>1
    <3>2. CASE at(args, ref) = {}
      BY <3>2 DEF IInv, TypeOK
    <3>3. CASE at(args, ref) # {}
      <4>1. (CHOOSE a \in at(args, ref) : TRUE) \in Attribute
        BY <3>3
      <4>. QED
        BY <1>3, <3>3, <4>1
    <3>. QED
      BY <3>2, <3>3
  <2>2. made.status \in {None, "queued", "completed"} /\ made.conclusion \in {None, "success"}
    BY <1>1, <1>2, <1>5 DEF Accepted, DependsOnStatus
  <2>3. \A a \in Attribute : made[a] \in {None} \cup Ref
    BY <1>12, Homes
  <2>4. made \in [status : {None, "queued", "completed"}, conclusion : {None, "success"},
                  completed_at : {None, "", "time"}, output : {"none", "new", "built"},
                  actions : {None} \cup Ref, annotations : {None} \cup Ref]
    BY <1>2, <1>4, <1>5, <2>2, <2>3 DEF Attribute
  <2>5. \A home \in Home : home[2] \in Attribute
    BY DEF Home, BuiltList, Attribute
  <2>6. expected' \in [Home -> Seq(Item)]
    BY <1>1, <1>3, <2>5 DEF IInv, TypeOK
  <2>7. checked' \in [Request -> Nat]
    <3>1. Content("actions", args.actions) \in Seq(Item)
      BY <1>2, <1>3 DEF Attribute
    <3>2. Len(Content("actions", args.actions)) \in Nat
      BY <3>1
    <3>. QED
      BY <1>1, <3>2 DEF IInv, TypeOK
  <2>. QED
    BY <1>1, <2>1, <2>4, <2>6, <2>7 DEF IInv, TypeOK, made
<1>14. OwnLists'
  <2>1. SUFFICES ASSUME NEW s \in Request, request'[s] # None, NEW a \in Attribute
                 PROVE  request'[s][a] \in {None, IF a = "annotations" /\ request'[s].output = "built"
                                                  THEN BuiltList ELSE <<s, a>>}
    BY DEF OwnLists, Made, HomeOf
  <2>2. CASE s = r
    BY <1>7, <1>12, <2>2
  <2>3. CASE s # r
    <3>1. request'[s] = request[s]
      BY <1>7, <2>3
    <3>. QED
      BY <2>1, <3>1 DEF IInv, OwnLists, Made, HomeOf
  <2>. QED
    BY <2>2, <2>3
<1>15. BuiltAsGiven'
  BY <1>9, <1>11 DEF IInv, BuiltAsGiven
<1>16. RequestsAreSeparate'
  <2>. DEFINE home(s, a) == IF a = "annotations" /\ request'[s].output = "built"
                            THEN BuiltList ELSE <<s, a>>
  <2>1. SUFFICES ASSUME NEW s \in Request, request'[s] # None,
                        NEW a \in Attribute, request'[s][a] # None
                 PROVE  lists'[request'[s][a]] = expected'[home(s, a)]
    BY DEF RequestsAreSeparate, Made, HomeOf
  <2>2. request'[s][a] = home(s, a)
    BY <1>14, <2>1 DEF OwnLists, Made, HomeOf
  <2>3. CASE home(s, a) = BuiltList
    BY <1>15, <2>2, <2>3 DEF BuiltAsGiven
  <2>4. CASE home(s, a) # BuiltList /\ s = r
    <3>1. home(r, a) = <<r, a>> /\ args[a] # "none"
      BY <1>7, <1>12, <2>1, <2>2, <2>4
    <3>. QED
      BY <1>8, <1>10, <2>2, <2>4, <3>1
  <2>5. CASE home(s, a) # BuiltList /\ s # r
    <3>1. request'[s] = request[s]
      BY <1>7, <2>5
    <3>2. home(s, a) = <<s, a>> /\ home(s, a) = HomeOf(s, a)
      BY <2>5, <3>1 DEF HomeOf
    <3>3. lists[<<s, a>>] = expected[<<s, a>>]
      BY <2>1, <2>2, <3>1, <3>2 DEF IInv, RequestsAreSeparate, Made
    <3>. QED
      BY <1>9, <1>11, <2>2, <2>5, <3>2, <3>3
  <2>. QED
    BY <2>3, <2>4, <2>5
<1>17. Validated'
  <2>1. /\ made.status = "completed" => made.conclusion = "success"
        /\ made.conclusion # None => made.completed_at = "time"
    BY <1>1, <1>2, <1>5 DEF Accepted, DependsOnStatus, DependsOnConclusion
  <2>2. LET list == expected'[<<r, "actions">>]
        IN /\ checked'[r] <= 3 /\ checked'[r] <= Len(list)
           /\ \A n \in 1..checked'[r] : list[n] # "bad"
    <3>. DEFINE list == Content("actions", args.actions)
    <3>1. "actions" \in Attribute
      BY DEF Attribute
    <3>2. expected'[<<r, "actions">>] = list /\ checked'[r] = Len(list) /\ list \in Seq(Item)
      BY <1>2, <1>3, <1>7, <1>8, <3>1
    <3>3. Len(list) <= 3
      BY <1>1 DEF Accepted, ActionsUpTo3
    <3>4. \A n \in DOMAIN list : list[n] # "bad"
      BY <1>1, <1>2, <3>1 DEF Accepted, ItemsFit, Fit
    <3>. HIDE DEF list
    <3>5. DOMAIN list = 1..Len(list) /\ Len(list) <= Len(list)
      BY <3>2
    <3>. QED
      BY <3>2, <3>3, <3>4, <3>5
  <2>3. SUFFICES ASSUME NEW s \in Request, request'[s] # None
                 PROVE  /\ request'[s].status = "completed" => request'[s].conclusion = "success"
                        /\ request'[s].conclusion # None => request'[s].completed_at = "time"
                        /\ request'[s].actions # None =>
                             LET list == expected'[<<s, "actions">>]
                             IN /\ checked'[s] <= 3 /\ checked'[s] <= Len(list)
                                /\ \A n \in 1..checked'[s] : list[n] # "bad"
    BY DEF Validated, Made
  <2>4. CASE s = r
    BY <1>7, <2>1, <2>2, <2>4
  <2>5. CASE s # r
    <3>1. request'[s] = request[s] /\ checked'[s] = checked[s]
      BY <1>7, <2>5
    <3>2. expected'[<<s, "actions">>] = expected[<<s, "actions">>]
      BY <1>9, <2>5 DEF Attribute
    <3>. QED
      BY <2>3, <3>1, <3>2 DEF IInv, Validated, Made
  <2>. QED
    BY <2>4, <2>5
<1>. QED
  BY <1>13, <1>14, <1>15, <1>16, <1>17 DEF IInv

-----------------------------------------------------------------------------
(* Handlers *)

LEMMA AddIInv ==
  ASSUME IInv, NEW r \in Request, NEW a \in Attribute, NEW item \in Added, Add(r, a, item)
  PROVE  IInv'
<1>. DEFINE ref == HomeOf(r, a)
<1>1. item \in Item
  BY ListAssumption
<1>2. request[r] # None /\ request[r][a] = ref /\ ref \in Home /\ ref \in Ref
  BY Homes DEF IInv, OwnLists, Made, Add
<1>3. /\ lists' = [lists EXCEPT ![ref] = Append(@, item)]
      /\ expected' = [expected EXCEPT ![ref] = Append(@, item)]
      /\ request' = request /\ checked' = checked
  BY <1>2 DEF Add
<1>4. lists[ref] = expected[ref] /\ expected[ref] \in Seq(Item)
  BY <1>2, Homes DEF IInv, TypeOK, RequestsAreSeparate, Made, Add
<1>. HIDE DEF ref
<1>5. Append(expected[ref], item) \in Seq(Item)
  BY <1>1, <1>4, AppendedItem
<1>6. /\ expected'[ref] = Append(expected[ref], item)
      /\ lists'[ref] = Append(expected[ref], item)
      /\ \A x \in Home \ {ref} : expected'[x] = expected[x]
      /\ \A x \in Ref \ {ref} : lists'[x] = lists[x]
  BY <1>2, <1>3, <1>4 DEF IInv, TypeOK
<1>7. TypeOK'
  BY <1>3, <1>4, <1>5 DEF IInv, TypeOK
<1>8. OwnLists'
  BY <1>3 DEF IInv, OwnLists, Made, HomeOf
<1>9. BuiltAsGiven'
  <2>1. BuiltList \in Home /\ BuiltList \in Ref
    BY Homes
  <2>. QED
    BY <1>6, <2>1 DEF IInv, BuiltAsGiven
<1>10. RequestsAreSeparate'
  <2>1. SUFFICES ASSUME NEW s \in Request, request[s] # None,
                        NEW b \in Attribute, request[s][b] # None
                 PROVE  lists'[request[s][b]] = expected'[HomeOf(s, b)]
    BY <1>3 DEF RequestsAreSeparate, Made, HomeOf
  <2>2. /\ request[s][b] = HomeOf(s, b) /\ HomeOf(s, b) \in Home /\ HomeOf(s, b) \in Ref
        /\ lists[HomeOf(s, b)] = expected[HomeOf(s, b)]
    BY <2>1, Homes DEF IInv, OwnLists, RequestsAreSeparate, Made
  <2>. QED
    BY <1>6, <2>2
<1>11. Validated'
  <2>1. SUFFICES ASSUME NEW s \in Request, request[s] # None, request[s].actions # None
                 PROVE  LET list == expected'[<<s, "actions">>]
                        IN /\ checked[s] <= 3 /\ checked[s] <= Len(list)
                           /\ \A n \in 1..checked[s] : list[n] # "bad"
    BY <1>3 DEF IInv, Validated, Made
  <2>. DEFINE home == <<s, "actions">>
  <2>2. home \in Home /\ expected[home] \in Seq(Item) /\ checked[s] \in Nat
    BY Homes DEF IInv, TypeOK, Attribute
  <2>3. /\ checked[s] <= 3 /\ checked[s] <= Len(expected[home])
        /\ \A n \in 1..checked[s] : expected[home][n] # "bad"
    BY <2>1 DEF IInv, Validated, Made
  <2>. HIDE DEF home
  <2>4. CASE home # ref
    BY <1>6, <2>2, <2>3, <2>4 DEF home
  <2>5. CASE home = ref
    <3>1. /\ Len(expected'[home]) = Len(expected[home]) + 1
          /\ \A n \in 1..Len(expected[home]) : expected'[home][n] = expected[home][n]
      BY <1>1, <1>6, <2>2, <2>5, AppendedItem
    <3>2. Len(expected[home]) \in Nat
      BY <2>2
    <3>3. 1..checked[s] \subseteq 1..Len(expected[home])
      BY <2>2, <2>3, <3>2
    <3>4. checked[s] <= Len(expected'[home])
      BY <2>2, <2>3, <3>1, <3>2
    <3>. QED
      BY <2>3, <3>1, <3>3, <3>4 DEF home
  <2>. QED
    BY <2>4, <2>5
<1>. QED
  BY <1>7, <1>8, <1>9, <1>10, <1>11 DEF IInv

LEMMA ReuseIInv ==
  ASSUME IInv, NEW a \in Attribute, NEW item \in Added, Reuse(a, item)
  PROVE  IInv'
<1>. DEFINE ref == <<"given", a>>
<1>1. /\ lists' = [lists EXCEPT ![ref] = Append(@, item)]
      /\ UNCHANGED <<request, expected, checked>>
  BY DEF Reuse
<1>2. ref \in Ref /\ \A home \in Home : ref # home
  <2>1. \A home \in Home : home[1] # "given" /\ ref[1] = "given"
    BY RequestAssumption DEF Home, BuiltList
  <2>. QED
    BY <2>1 DEF Ref
<1>. HIDE DEF ref
<1>3. lists' \in [Ref -> Seq(Item)] /\ \A home \in Home : lists'[home] = lists[home]
  <2>1. lists[ref] \in Seq(Item) /\ item \in Item
    BY <1>2, ListAssumption DEF IInv, TypeOK
  <2>2. Append(lists[ref], item) \in Seq(Item)
    BY <2>1, AppendedItem
  <2>. QED
    BY <1>1, <1>2, <2>2, Homes DEF IInv, TypeOK
<1>4. TypeOK'
  BY <1>1, <1>3 DEF IInv, TypeOK
<1>5. OwnLists' /\ Validated'
  BY <1>1 DEF IInv, OwnLists, Validated, Made, HomeOf
<1>6. BuiltAsGiven'
  BY <1>1, <1>3, Homes DEF IInv, BuiltAsGiven
<1>7. RequestsAreSeparate'
  <2>1. SUFFICES ASSUME NEW s \in Request, request[s] # None,
                        NEW b \in Attribute, request[s][b] # None
                 PROVE  lists'[request[s][b]] = expected[HomeOf(s, b)]
    BY <1>1 DEF RequestsAreSeparate, Made, HomeOf
  <2>2. /\ request[s][b] = HomeOf(s, b) /\ HomeOf(s, b) \in Home
        /\ lists[HomeOf(s, b)] = expected[HomeOf(s, b)]
    BY <2>1, Homes DEF IInv, OwnLists, RequestsAreSeparate, Made
  <2>. QED
    BY <1>3, <2>2
<1>. QED
  BY <1>4, <1>5, <1>6, <1>7 DEF IInv

LEMMA StutterIInv ==
  ASSUME IInv, UNCHANGED vars
  PROVE  IInv'
<1>1. TypeOK'
  BY DEF IInv, vars, TypeOK
<1>2. OwnLists' /\ BuiltAsGiven' /\ RequestsAreSeparate' /\ Validated'
  BY DEF IInv, vars, Made, OwnLists, BuiltAsGiven, RequestsAreSeparate, Validated, HomeOf
<1>. QED
  BY <1>1, <1>2 DEF IInv

-----------------------------------------------------------------------------
(* Theorems *)

\* The inductive invariant holds, for any number of requests.
THEOREM RequestInvariance == Spec => []IInv
<1>1. Init => IInv
  BY InitIInv
<1>2. IInv /\ [Next]_vars => IInv'
  BY ConstructIInv, AddIInv, ReuseIInv, StutterIInv DEF Next
<1>. QED
  BY <1>1, <1>2, PTL DEF Spec

\* The attributes keep their types.
THEOREM RequestTypeCorrect == Spec => []TypeOK
<1>1. IInv => TypeOK
  BY DEF IInv
<1>. QED
  BY <1>1, RequestInvariance, PTL

\* optional_list_converter keeps the lists of requests apart, though all requests
\* have the same default and handlers go on using what they have given away; only
\* an output that was built before is the same for all that were given it, as
\* optional_converter takes it as it is.
THEOREM RequestsStaySeparate == Spec => []RequestsAreSeparate
<1>1. IInv => RequestsAreSeparate
  BY DEF IInv
<1>. QED
  BY <1>1, RequestInvariance, PTL
-----------------------------------------------------------------------------
(* The query *)

\* What Query(r) is, attribute by attribute.
Sent(r, k) ==
  CASE k = "status" -> request[r].status
    [] k = "conclusion" -> request[r].conclusion
    [] k = "completed_at" -> request[r].completed_at
    [] k = "actions" -> PrunedItems(Items(request[r].actions))
    [] k = "output" -> PrunedOutput(AsDict(request[r]).output)

Sendable == {"status", "conclusion", "completed_at", "actions", "output"}

LEMMA QueryShape ==
  ASSUME NEW r \in Request
  PROVE  /\ DOMAIN Query(r) = {k \in Sendable : Sent(r, k) # None}
         /\ \A k \in DOMAIN Query(r) : Query(r)[k] = Sent(r, k)
<1>. DEFINE dict == AsDict(request[r])
            pruned == [dict EXCEPT !.actions = PrunedItems(@), !.output = PrunedOutput(@)]
<1>1. Query(r) = Pruned(pruned)
  BY DEF Query, ToGhQuery
<1>2. DOMAIN dict = Sendable /\ \A k \in {"status", "conclusion", "completed_at"} : dict[k] = Sent(r, k)
  BY DEF AsDict, Sendable, Sent
<1>3. dict.actions = Items(request[r].actions)
  BY DEF AsDict
<1>4. DOMAIN pruned = Sendable /\ \A k \in Sendable : pruned[k] = Sent(r, k)
  BY <1>2, <1>3 DEF Sendable, Sent
<1>. QED
  BY <1>1, <1>4 DEF Pruned, Present
LEMMA SequenceOf ==
  ASSUME NEW S, NEW T, NEW list \in Seq(S), NEW f, DOMAIN f = DOMAIN list,
         \A n \in DOMAIN list : f[n] \in T, f = [n \in DOMAIN f |-> f[n]]
  PROVE  f \in Seq(T) /\ Len(f) = Len(list)
<1>1. Len(list) \in Nat /\ DOMAIN list = 1..Len(list)
  OBVIOUS
<1>2. f \in [1..Len(list) -> T]
  BY <1>1
<1>. QED
  BY <1>1, <1>2

LEMMA PrunedItem ==
  ASSUME NEW m \in Item, NEW t \in {"title", None}
  PROVE  LET sent == Pruned([message |-> m, title |-> t])
         IN /\ sent \in SentItem /\ sent.message = m
            /\ "title" \in DOMAIN sent <=> t # None
<1>. DEFINE dict == [message |-> m, title |-> t]
            sent == Pruned(dict)
<1>1. m # None /\ None # "title"
  BY NoneAssumption
<1>2. DOMAIN dict = {"message", "title"} /\ dict["message"] = m /\ dict["title"] = t
  OBVIOUS
<1>3. Present(dict) = {"message"} \cup (IF t # None THEN {"title"} ELSE {})
  BY <1>1, <1>2 DEF Present
<1>4. CASE t = None
  <2>1. sent = [k \in {"message"} |-> m]
    BY <1>2, <1>3, <1>4 DEF Pruned
  <2>. QED
    BY <1>4, <2>1 DEF SentItem
<1>5. CASE t = "title"
  <2>1. sent = [k \in {"message", "title"} |-> IF k = "message" THEN m ELSE t]
    BY <1>1, <1>2, <1>3, <1>5 DEF Pruned
  <2>. QED
    BY <1>1, <1>5, <2>1 DEF SentItem
<1>. QED
  BY <1>4, <1>5

\* A list is sent with all of its items, in their order.
LEMMA SentList ==
  ASSUME IInv, NEW r \in Made, NEW a \in Attribute, request[r][a] # None
  PROVE  LET sent == PrunedItems(Items(request[r][a]))
             list == expected[HomeOf(r, a)]
         IN /\ Items(request[r][a]) \in Seq(ItemDict)
            /\ sent \in Seq(SentItem)
            /\ list \in Seq(Item) /\ Len(sent) = Len(list) /\ DOMAIN sent = DOMAIN list
            /\ \A n \in DOMAIN list :
                 sent[n].message = list[n] /\ ("title" \in DOMAIN sent[n] <=> list[n] = "full")
<1>. DEFINE list == expected[HomeOf(r, a)]
            title(n) == IF list[n] = "full" THEN "title" ELSE None
            items == Items(request[r][a])
            sent == PrunedItems(items)
<1>1. r \in Request /\ lists[request[r][a]] = list
  BY DEF IInv, RequestsAreSeparate, Made
<1>2. list \in Seq(Item)
  BY <1>1, Homes DEF IInv, TypeOK
<1>. HIDE DEF list
<1>3. items = [n \in DOMAIN list |-> [message |-> list[n], title |-> title(n)]]
  BY <1>1 DEF Items
<1>4. \A n \in DOMAIN list : list[n] \in Item /\ title(n) \in {"title", None}
  BY <1>2
<1>5. None # "title"
  BY NoneAssumption
<1>6. \A n \in DOMAIN list : title(n) # None <=> list[n] = "full"
  BY <1>5
<1>. HIDE DEF items, title
<1>7. items \in Seq(ItemDict) /\ items # None
  <2>1. DOMAIN items = DOMAIN list /\ \A n \in DOMAIN list : items[n] \in ItemDict
    BY <1>3, <1>4 DEF ItemDict
  <2>2. items \in Seq(ItemDict)
    BY <1>2, <1>3, <2>1, SequenceOf
  <2>. QED
    BY <2>2, NoneAssumption
<1>8. /\ DOMAIN sent = DOMAIN list /\ sent = [n \in DOMAIN sent |-> sent[n]]
      /\ \A n \in DOMAIN list : sent[n] = Pruned([message |-> list[n], title |-> title(n)])
  BY <1>3, <1>7 DEF PrunedItems
<1>9. \A n \in DOMAIN list :
        /\ sent[n] \in SentItem /\ sent[n].message = list[n]
        /\ "title" \in DOMAIN sent[n] <=> list[n] = "full"
  <2>1. SUFFICES ASSUME NEW n \in DOMAIN list
                 PROVE  /\ sent[n] \in SentItem /\ sent[n].message = list[n]
                        /\ "title" \in DOMAIN sent[n] <=> list[n] = "full"
    OBVIOUS
  <2>2. LET item == Pruned([message |-> list[n], title |-> title(n)])
        IN /\ item \in SentItem /\ item.message = list[n]
           /\ "title" \in DOMAIN item <=> title(n) # None
    BY <1>4, PrunedItem
  <2>3. title(n) # None <=> list[n] = "full"
    BY <1>6
  <2>4. sent[n] = Pruned([message |-> list[n], title |-> title(n)])
    BY <1>8
  <2>. QED
    BY <2>2, <2>3, <2>4
<1>. HIDE DEF sent
<1>10. sent \in Seq(SentItem) /\ Len(sent) = Len(list)
  BY <1>2, <1>8, <1>9, SequenceOf
<1>. QED
  BY <1>2, <1>7, <1>8, <1>9, <1>10 DEF list, items, sent

LEMMA ConsistentQueries ==
  ASSUME IInv
  PROVE  QueriesAreConsistent
<1>1. SUFFICES ASSUME NEW r \in Made
               PROVE  LET q == Query(r) IN
                 /\ "status" \in DOMAIN q => (q.status = "completed" => "conclusion" \in DOMAIN q)
                 /\ "conclusion" \in DOMAIN q => "completed_at" \in DOMAIN q /\ q.completed_at # ""
                 /\ "actions" \in DOMAIN q =>
                      /\ checked[r] <= 3 /\ checked[r] <= Len(q.actions)
                      /\ \A n \in 1..checked[r] : q.actions[n].message # "bad"
  BY DEF QueriesAreConsistent
<1>. DEFINE q == Query(r)
<1>2. r \in Request
  BY DEF Made
<1>3. /\ \A k \in Sendable : k \in DOMAIN q <=> Sent(r, k) # None
      /\ \A k \in Sendable : k \in DOMAIN q => q[k] = Sent(r, k)
  BY <1>2, QueryShape
<1>. HIDE DEF q
<1>4. None \notin {"success", "time"}
  BY NoneAssumption
<1>5. "status" \in DOMAIN q => (q.status = "completed" => "conclusion" \in DOMAIN q)
  BY <1>3, <1>4 DEF IInv, Validated, Sendable, Sent
<1>6. "conclusion" \in DOMAIN q => "completed_at" \in DOMAIN q /\ q.completed_at # ""
  BY <1>3, <1>4 DEF IInv, Validated, Sendable, Sent
<1>7. ASSUME "actions" \in DOMAIN q
      PROVE  /\ checked[r] <= 3 /\ checked[r] <= Len(q.actions)
             /\ \A n \in 1..checked[r] : q.actions[n].message # "bad"
  <2>1. q.actions = PrunedItems(Items(request[r].actions)) /\ q.actions # None
    BY <1>3, <1>7 DEF Sendable, Sent
  <2>2. request[r].actions # None
    BY <2>1 DEF PrunedItems, Items
  <2>. DEFINE list == expected[<<r, "actions">>]
  <2>3. /\ checked[r] \in Nat /\ checked[r] <= 3 /\ checked[r] <= Len(list)
        /\ \A n \in 1..checked[r] : list[n] # "bad"
    BY <1>2, <2>2 DEF IInv, TypeOK, Validated
  <2>4. list = expected[HomeOf(r, "actions")] /\ request[r]["actions"] = request[r].actions
    BY <1>2, Homes
  <2>5. /\ list \in Seq(Item) /\ Len(q.actions) = Len(list)
        /\ \A n \in DOMAIN list : q.actions[n].message = list[n]
    BY <2>1, <2>2, <2>4, SentList DEF Attribute
  <2>. HIDE DEF list
  <2>6. 1..checked[r] \subseteq DOMAIN list
    BY <2>3, <2>5
  <2>. QED
    BY <2>3, <2>5, <2>6
<1>. QED
  BY <1>5, <1>6, <1>7 DEF q
LEMMA PrunedDict ==
  ASSUME NEW annotations
  PROVE  LET sent == Pruned([text |-> "", annotations |-> annotations])
         IN /\ annotations = None => sent \in [text : {""}]
            /\ \A S : annotations \in S /\ annotations # None => sent \in [text : {""}, annotations : S]
            /\ "annotations" \in DOMAIN sent <=> annotations # None
            /\ annotations # None => sent.annotations = annotations
<1>. DEFINE dict == [text |-> "", annotations |-> annotations]
            sent == Pruned(dict)
<1>1. "" # None
  BY NoneAssumption
<1>2. DOMAIN dict = {"text", "annotations"} /\ dict["text"] = "" /\ dict["annotations"] = annotations
  OBVIOUS
<1>3. CASE annotations = None
  <2>1. Present(dict) = {"text"}
    BY <1>1, <1>2, <1>3 DEF Present
  <2>2. sent = [k \in {"text"} |-> ""]
    BY <1>2, <2>1 DEF Pruned
  <2>. QED
    BY <1>3, <2>2
<1>4. CASE annotations # None
  <2>1. Present(dict) = {"text", "annotations"}
    BY <1>1, <1>2, <1>4 DEF Present
  <2>2. sent = [k \in {"text", "annotations"} |-> IF k = "text" THEN "" ELSE annotations]
    BY <1>2, <2>1 DEF Pruned
  <2>. QED
    BY <1>4, <2>2
<1>. QED
  BY <1>3, <1>4

LEMMA ExceptDict ==
  ASSUME NEW old, NEW new
  PROVE  [[text |-> "", annotations |-> old] EXCEPT !.annotations = new] = [text |-> "", annotations |-> new]
<1>1. [[text |-> "", annotations |-> old] EXCEPT !.annotations = new] \in [text : {""}, annotations : {new}]
  OBVIOUS
<1>2. ASSUME NEW dict \in [text : {""}, annotations : {new}]
      PROVE  dict = [text |-> "", annotations |-> new]
  OBVIOUS
<1>. QED
  BY <1>1, <1>2

\* The output is sent with the annotations that there are.
LEMMA SentOutputs ==
  ASSUME IInv, NEW r \in Made, request[r].output # "none"
  PROVE  LET sent == PrunedOutput(AsDict(request[r]).output)
         IN /\ sent # None
            /\ "annotations" \in DOMAIN sent <=> request[r].annotations # None
            /\ request[r].annotations # None =>
                 sent.annotations = PrunedItems(Items(request[r].annotations))
<1>. DEFINE items == Items(request[r].annotations)
            output == [text |-> "", annotations |-> items]
            pruned == PrunedItems(items)
            sent == PrunedOutput(output)
<1>1. AsDict(request[r]).output = output
  BY DEF AsDict
<1>2. request[r].annotations = None => items = None /\ pruned = None
  BY DEF Items, PrunedItems
<1>3. request[r].annotations # None =>
        items \in Seq(ItemDict) /\ pruned \in Seq(SentItem) /\ pruned # None
  BY SentList, NoneAssumption DEF Attribute
<1>4. output # None
  <2>1. output \in OutputDict
    BY <1>2, <1>3 DEF OutputDict
  <2>. QED
    BY <2>1, NoneAssumption
<1>. HIDE DEF items, pruned
<1>5. sent = Pruned([text |-> "", annotations |-> pruned])
  <2>1. output.annotations = items
    OBVIOUS
  <2>2. [output EXCEPT !.annotations = pruned] = [text |-> "", annotations |-> pruned]
    BY ExceptDict
  <2>. QED
    BY <1>4, <2>1, <2>2 DEF PrunedOutput, pruned
<1>. HIDE DEF output, sent
<1>6. /\ "annotations" \in DOMAIN sent <=> pruned # None
      /\ pruned # None => sent.annotations = pruned
  BY <1>5, PrunedDict
<1>7. sent \in SentOutput
  BY <1>2, <1>3, <1>5, PrunedDict DEF SentOutput
<1>8. sent # None
  BY <1>7, NoneAssumption
<1>9. pruned # None <=> request[r].annotations # None
  BY <1>2, <1>3
<1>. QED
  BY <1>1, <1>6, <1>8, <1>9 DEF sent, pruned, items

\* A list that is sent holds the items that were put into it.
LEMMA SameItemsSent ==
  ASSUME IInv, NEW r \in Made, NEW a \in Attribute, request[r][a] # None
  PROVE  SameItems(PrunedItems(Items(request[r][a])), expected[HomeOf(r, a)])
<1>. DEFINE sent == PrunedItems(Items(request[r][a]))
            list == expected[HomeOf(r, a)]
<1>1. /\ list \in Seq(Item) /\ DOMAIN sent = DOMAIN list
      /\ \A n \in DOMAIN list :
           sent[n].message = list[n] /\ ("title" \in DOMAIN sent[n] <=> list[n] = "full")
  BY SentList
<1>. HIDE DEF sent, list
<1>2. [n \in DOMAIN sent |-> sent[n].message] = list
  BY <1>1
<1>3. SameItems(sent, list)
  BY <1>1, <1>2 DEF SameItems
<1>. QED
  BY <1>3 DEF sent, list

LEMMA QueriesAsGiven ==
  ASSUME IInv
  PROVE  SentAsGiven
<1>. DEFINE values == {"status", "conclusion", "completed_at"}
            simple == values \cup {"actions"}
<1>1. SUFFICES ASSUME NEW r \in Made
               PROVE  LET q == Query(r) IN
                 /\ DOMAIN q = {k \in {"status", "conclusion", "completed_at", "actions"} : request[r][k] # None}
                                  \cup IF request[r].output # "none" THEN {"output"} ELSE {}
                 /\ \A k \in DOMAIN q \cap values : q[k] = request[r][k]
                 /\ "actions" \in DOMAIN q => SameItems(q.actions, expected[HomeOf(r, "actions")])
                 /\ "output" \in DOMAIN q =>
                      /\ "annotations" \in DOMAIN q.output <=> request[r].annotations # None
                      /\ "annotations" \in DOMAIN q.output =>
                           SameItems(q.output.annotations, expected[HomeOf(r, "annotations")])
  BY DEF SentAsGiven
<1>. DEFINE q == Query(r)
<1>2. r \in Request
  BY DEF Made
<1>3. /\ DOMAIN q = {k \in Sendable : Sent(r, k) # None}
      /\ \A k \in DOMAIN q : q[k] = Sent(r, k)
  BY <1>2, QueryShape
<1>. HIDE DEF q
<1>4. \A k \in simple : request[r][k] # None <=> Sent(r, k) # None
  <2>1. request[r].actions = None => Sent(r, "actions") = None
    BY DEF Sent, Items, PrunedItems
  <2>2. request[r].actions # None => Sent(r, "actions") # None
    BY SentList, NoneAssumption DEF Attribute, Sent
  <2>. QED
    BY <2>1, <2>2 DEF Sent
<1>5. Sent(r, "output") # None <=> request[r].output # "none"
  <2>1. request[r].output = "none" => Sent(r, "output") = None
    BY DEF Sent, AsDict, PrunedOutput
  <2>2. request[r].output # "none" => Sent(r, "output") # None
    BY SentOutputs DEF Sent
  <2>. QED
    BY <2>1, <2>2
<1>6. DOMAIN q = {k \in simple : request[r][k] # None}
                   \cup IF request[r].output # "none" THEN {"output"} ELSE {}
  BY <1>3, <1>4, <1>5 DEF Sendable
<1>7. \A k \in DOMAIN q \cap values : q[k] = request[r][k]
  BY <1>3 DEF Sent
<1>8. ASSUME "actions" \in DOMAIN q
      PROVE  SameItems(q.actions, expected[HomeOf(r, "actions")])
  <2>1. request[r]["actions"] # None
    BY <1>3, <1>4, <1>8
  <2>2. q.actions = PrunedItems(Items(request[r]["actions"]))
    BY <1>3, <1>8 DEF Sent
  <2>. QED
    BY <2>1, <2>2, SameItemsSent DEF Attribute
<1>9. ASSUME "output" \in DOMAIN q
      PROVE  /\ "annotations" \in DOMAIN q.output <=> request[r].annotations # None
             /\ "annotations" \in DOMAIN q.output =>
                  SameItems(q.output.annotations, expected[HomeOf(r, "annotations")])
  <2>1. request[r].output # "none"
    BY <1>3, <1>5, <1>9
  <2>2. q.output = PrunedOutput(AsDict(request[r]).output)
    BY <1>3, <1>9 DEF Sent
  <2>3. /\ "annotations" \in DOMAIN q.output <=> request[r].annotations # None
        /\ request[r].annotations # None => q.output.annotations = PrunedItems(Items(request[r].annotations))
    BY <2>1, <2>2, SentOutputs
  <2>4. request[r].annotations # None =>
          SameItems(PrunedItems(Items(request[r]["annotations"])), expected[HomeOf(r, "annotations")])
    BY SameItemsSent DEF Attribute
  <2>. QED
    BY <2>3, <2>4
<1>. QED
  BY <1>6, <1>7, <1>8, <1>9 DEF q

\* What the validators have seen of a request at construction still holds of what is
\* sent of it later: the conclusion and the end that go with its status, and the
\* actions that it was made with, however many others were added to them since.
\* Nothing is said of those, which no validator has seen.
THEOREM ConsistentRequests == Spec => []QueriesAreConsistent
<1>1. IInv => QueriesAreConsistent
  BY ConsistentQueries
<1>. QED
  BY <1>1, RequestInvariance, PTL

\* conditional_to_gh_query drops what is None on all levels and nothing else, for
\* lists of any length.
THEOREM RequestsAreSentAsGiven == Spec => []SentAsGiven
<1>1. IInv => SentAsGiven
  BY QueriesAsGiven
<1>. QED
  BY <1>1, RequestInvariance, PTL
=============================================================================
