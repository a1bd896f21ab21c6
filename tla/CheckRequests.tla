--------------------------- MODULE CheckRequests ----------------------------
(***************************************************************************)
(* The requests of the Checks API: how they are constructed, what happens  *)
(* to their lists, and what is sent of them                                *)
(* (github/models/checks_api_requests.py).                                 *)
(*                                                                         *)
(* Lists are objects with an identity: one is the default of all           *)
(* attributes, a handler may give its own lists to several requests, or an *)
(* output that it has built itself.  Lists are the lists that the types    *)
(* ask for, and no attribute is assigned after the construction, for no    *)
(* validator would see that.                                               *)
(***************************************************************************)
EXTENDS Naturals, Sequences

CONSTANTS
  Request,    \* the requests that handlers make
  Given,      \* what a handler's own lists may hold at first, by what they are for
  Added,      \* the items that handlers add to lists
  MaxItems,   \* bound on the length of a list that grows
  None

Item == {"plain", "full", "bad"}
Attribute == {"actions", "annotations"}

\* An item with all of its attributes, and what is sent of one.
ItemDict == [message : Item, title : {"title", None}]
SentItem == [message : Item] \cup [message : Item, title : {"title"}]

\* The same for the output of a check run.
OutputDict == [text : {""}, annotations : {None} \cup Seq(ItemDict)]
SentOutput == [text : {""}] \cup [text : {""}, annotations : Seq(SentItem)]

ASSUME ListAssumption ==
  MaxItems \in Nat /\ Given \in [Attribute -> SUBSET Seq(Item)] /\ Added \subseteq Item
ASSUME RequestAssumption == Request \cap {"default", "given", "built"} = {}
\* None is none of the texts, lists and dictionaries that take its place.
ASSUME NoneAssumption ==
  /\ None \notin {"queued", "completed", "success", "time", "title", ""} \cup Item
  /\ None \notin Seq(ItemDict) /\ None \notin Seq(SentItem)
  /\ None \notin OutputDict /\ None \notin SentOutput

VARIABLES
  lists,      \* the content of each list object
  request,    \* the attributes of each request
  expected,   \* history: what was put into the lists of each request, or of the
              \* built output
  checked     \* history: how many actions of a request its validator has seen

vars == <<lists, request, expected, checked>>

\* Whose list it is, and of what.  The default is one object for all attributes.
Default == <<"default", "list">>
BuiltList == <<"built", "annotations">>
Home == (Request \X Attribute) \cup {BuiltList}
Ref == Home \cup ({"given"} \X Attribute) \cup {Default}

TypeOK ==
  /\ lists \in [Ref -> Seq(Item)]
  /\ request \in [Request -> {None} \cup
       [status : {None, "queued", "completed"}, conclusion : {None, "success"},
        completed_at : {None, "", "time"}, output : {"none", "new", "built"},
        actions : {None} \cup Ref, annotations : {None} \cup Ref]]
  /\ expected \in [Home -> Seq(Item)]
  /\ checked \in [Request -> Nat]

Fit(list) == \A n \in DOMAIN list : list[n] # "bad"

\* A CheckOutput can only be built of annotations that can.
Init ==
  /\ lists \in [Ref -> Given["actions"] \cup Given["annotations"] \cup {<<>>}]
  /\ \A ref \in Ref :
       lists[ref] \in {<<>>} \cup IF ref[1] \in {"given", "built"} THEN Given[ref[2]] ELSE {}
  /\ Fit(lists[BuiltList])
  /\ request = [r \in Request |-> None]
  /\ expected = [home \in Home |-> lists[home]]
  /\ checked = [r \in Request |-> 0]

-----------------------------------------------------------------------------
(* Construction *)

\* What an argument may be: values of the API and others, for a list whose it is,
\* "none" for None, and an output that is to be converted or one that is built.
Arguments == [status : {None, "queued", "completed", "unknown"},
              conclusion : {None, "success", "unknown"},
              completed_at : {None, "", "time"},
              output : {"none", "new", "built"},
              actions : {"none", "default", "given"},
              annotations : {"none", "default", "given"}]

Source(a, whose) == IF whose = "default" THEN Default ELSE <<whose, a>>

Content(a, whose) == IF whose = "none" THEN <<>> ELSE lists[Source(a, whose)]

\* The converter makes objects of the items; the constructor of a bad one, one
\* with a label that is too long, raises.
ItemsFit(args) == \A a \in Attribute : Fit(Content(a, args[a]))

\* Mutant: the rule is for values that are there.
IfPresent(args) == args.conclusion \in {None, "success"}

DependsOnStatus(args) ==
  IF args.status = "completed" THEN args.conclusion = "success" ELSE args.conclusion \in {None, "success"}

DependsOnConclusion(args) == args.conclusion # None => args.completed_at \notin {None, ""}

ActionsUpTo3(args) == Len(Content("actions", args.actions)) <= 3

\* All converters come before all validators.  What is None has been checked as
\* None, and a built output when it was built.
Accepted(args) ==
  /\ ItemsFit(args)
  /\ args.status # "unknown"
  /\ DependsOnStatus(args) /\ DependsOnConclusion(args) /\ ActionsUpTo3(args)

\* Mutant: a list is kept as it is.
AsGiven(r, a, whose) == Source(a, whose)

\* optional_list_converter makes a new list, of the default, too.
Converted(r, a, whose) == <<r, a>>

\* optional_converter takes an output that is built already as it is, with its list.
ListOf(r, a, args) ==
  IF a = "annotations" /\ args.output = "built" THEN BuiltList
  ELSE IF args[a] = "none" THEN None ELSE Converted(r, a, args[a])

\* What raises leaves nothing behind.
Construct(r) ==
  /\ request[r] = None
  /\ \E args \in Arguments :
       /\ args.output # "new" => args.annotations = "none"
       /\ Accepted(args)
       /\ request' = [request EXCEPT ![r] =
                        [args EXCEPT !.actions = ListOf(r, "actions", args),
                                     !.annotations = ListOf(r, "annotations", args)]]
       /\ LET new == {a \in Attribute : args[a] # "none"}
              at(ref) == {a \in new : ref = Converted(r, a, args[a])} IN
            /\ lists' = [ref \in Ref |->
                           IF at(ref) = {} THEN lists[ref]
                           ELSE LET a == CHOOSE a \in at(ref) : TRUE IN Content(a, args[a])]
            /\ expected' = [home \in Home |->
                              IF home[1] = r THEN Content(home[2], args[home[2]]) ELSE expected[home]]
       /\ checked' = [checked EXCEPT ![r] = Len(Content("actions", args.actions))]

-----------------------------------------------------------------------------
(* Handlers *)

\* The list that what is added to a request belongs to.
HomeOf(r, a) == IF a = "annotations" /\ request[r].output = "built" THEN BuiltList ELSE <<r, a>>

\* An item is added to a request that has been made.  No validator sees it.
Add(r, a, item) ==
  /\ request[r] # None
  /\ request[r][a] # None
  /\ LET ref == request[r][a]
     IN /\ Len(lists[ref]) < MaxItems
        /\ lists' = [lists EXCEPT ![ref] = Append(@, item)]
        /\ expected' = [expected EXCEPT ![HomeOf(r, a)] = Append(@, item)]
  /\ UNCHANGED <<request, checked>>

\* A handler goes on with a list it has given away.
Reuse(a, item) ==
  LET ref == <<"given", a>>
  IN /\ Len(lists[ref]) < MaxItems
     /\ lists' = [lists EXCEPT ![ref] = Append(@, item)]
     /\ UNCHANGED <<request, expected, checked>>

-----------------------------------------------------------------------------
(* The query *)

\* attr.asdict; the title of a plain item is None.
Items(ref) ==
  IF ref = None THEN None
  ELSE [n \in DOMAIN lists[ref] |->
          [message |-> lists[ref][n], title |-> IF lists[ref][n] = "full" THEN "title" ELSE None]]

AsDict(req) ==
  [status |-> req.status, conclusion |-> req.conclusion, completed_at |-> req.completed_at,
   actions |-> Items(req.actions),
   output |-> IF req.output # "none" THEN [text |-> "", annotations |-> Items(req.annotations)] ELSE None]

\* Mutant: empty lists are dropped like None.
PresentIfTrue(dict) ==
  {k \in DOMAIN dict : dict[k] # None /\ (k \in Attribute => dict[k] # <<>>)}

Present(dict) == {k \in DOMAIN dict : dict[k] # None}

Pruned(dict) == [k \in Present(dict) |-> dict[k]]

\* conditional_to_gh_query goes down into lists and dictionaries.
PrunedItems(items) == IF items = None THEN None ELSE [n \in DOMAIN items |-> Pruned(items[n])]

PrunedOutput(output) ==
  IF output = None THEN None
  ELSE Pruned([output EXCEPT !.annotations = PrunedItems(@)])

ToGhQuery(dict) ==
  Pruned([dict EXCEPT !.actions = PrunedItems(@), !.output = PrunedOutput(@)])

Next ==
  \/ \E r \in Request : Construct(r)
  \/ \E a \in Attribute, item \in Added :
       Reuse(a, item) \/ \E r \in Request : Add(r, a, item)

Spec == Init /\ [][Next]_vars

-----------------------------------------------------------------------------
(* Properties *)

Made == {r \in Request : request[r] # None}
Query(r) == ToGhQuery(AsDict(request[r]))

\* A request that was accepted is sent as one that GitHub can make sense of: one
\* that is completed has a conclusion, one with a conclusion has an end, and the
\* actions it was made with are not too many and none is beyond a limit.  This says
\* nothing of the actions that were added later, which no validator has seen, and a
\* conclusion may come without a status, though a comment in the code says it should
\* be missing then.
QueriesAreConsistent ==
  \A r \in Made : LET q == Query(r) IN
    /\ "status" \in DOMAIN q => (q.status = "completed" => "conclusion" \in DOMAIN q)
    /\ "conclusion" \in DOMAIN q => "completed_at" \in DOMAIN q /\ q.completed_at # ""
    /\ "actions" \in DOMAIN q =>
         /\ checked[r] <= 3 /\ checked[r] <= Len(q.actions)
         /\ \A n \in 1..checked[r] : q.actions[n].message # "bad"

\* A list that several requests were given, or that is the default of all of
\* them, is not the list of any: what is added to one shows in no other.  Only those
\* that were given the same built CheckOutput share its annotations, with nobody
\* else.
RequestsAreSeparate ==
  \A r \in Made : \A a \in Attribute :
    request[r][a] # None => lists[request[r][a]] = expected[HomeOf(r, a)]

SameItems(sent, list) ==
  /\ [n \in DOMAIN sent |-> sent[n].message] = list
  /\ \A n \in DOMAIN sent : "title" \in DOMAIN sent[n] <=> sent[n].message = "full"

\* All that a request was given is sent and nothing else, on all levels: None is
\* never sent, and an empty list, which deletes what GitHub has, always is.
SentAsGiven ==
  \A r \in Made : LET q == Query(r) IN
    /\ DOMAIN q = {k \in {"status", "conclusion", "completed_at", "actions"} : request[r][k] # None}
                     \cup IF request[r].output # "none" THEN {"output"} ELSE {}
    /\ \A k \in DOMAIN q \cap {"status", "conclusion", "completed_at"} : q[k] = request[r][k]
    /\ "actions" \in DOMAIN q => SameItems(q.actions, expected[HomeOf(r, "actions")])
    /\ "output" \in DOMAIN q =>
         /\ "annotations" \in DOMAIN q.output <=> request[r].annotations # None
         /\ "annotations" \in DOMAIN q.output =>
              SameItems(q.output.annotations, expected[HomeOf(r, "annotations")])
=============================================================================
