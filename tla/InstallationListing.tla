------------------------ MODULE InstallationListing -------------------------
(***************************************************************************)
(* The requests that an app makes in its own name: the paged listing of    *)
(* its installations before the server starts, and the lookup of one       *)
(* installation per event later on (github/api/app_client.py).             *)
(*                                                                         *)
(* Both carry a JSON Web Token made from the server's clock.  The listing  *)
(* makes one for all its pages, and while it waits for a page the app is   *)
(* installed and uninstalled, which moves the others between pages.        *)
(***************************************************************************)
EXTENDS Integers, SequencesExt, FiniteSetsExt

CONSTANTS
  Installation,   \* the installations there may ever be
  Unfit,          \* those the model class refuses, by a missing key or a target_type
  PageSize,       \* installations on one page of the API
  Lifetime,       \* how long a JWT is valid
  Slowest,        \* bound on the time from a request to its answer
  Skews,          \* how far the server's clock may be ahead of GitHub's
  MaxTime,        \* bound on the clock
  None

ASSUME InstallationAssumption == IsFiniteSet(Installation)
ASSUME PageAssumption == PageSize \in Nat \ {0}
\* make_jwt_for refuses to make a token for more than ten minutes.
ASSUME TimeAssumption == Lifetime \in 1..600 /\ Slowest \in Nat \ {0} /\ Skews \subseteq Int

VARIABLES
  now, skew,     \* GitHub's clock; the server's is ahead of it by skew
  installed,     \* the installations in the order GitHub lists them
  listing,       \* how far log_installs_list has come
  installations, \* keys of its dictionary
  request,       \* the request that waits for an answer
  steady,        \* installed since the listing began
  removed        \* uninstalled since then

vars == <<now, skew, installed, listing, installations, request, steady, removed>>

\* made: when the JWT was made, on the server's clock; page: its how manieth
\* request this is, the page of a listing.
Request == [use : {"page", "lookup"}, made : Int, page : Nat \ {0}, sent : Nat,
            answer : {"none", "served", "refused"},
            items : Seq(Installation), more : BOOLEAN]

TypeOK ==
  /\ now \in Nat /\ skew \in Skews
  /\ installed \in Seq(Installation) /\ IsInjective(installed)
  /\ listing \in {"running", "complete", "offline", "aborted"}
  /\ installations \subseteq Installation
  /\ request = None \/ request \in Request
  /\ steady \subseteq ToSet(installed) /\ removed \subseteq Installation

-----------------------------------------------------------------------------
(* The token *)

\* Mutant: the token of the first use is kept.
TokenOfStart(clock) == skew

\* gh_jwt makes a token for every api_client that is asked for.
FreshToken(clock) == clock

\* What GitHub makes of it: from iat to exp on its own clock.
Accepts(made) == made <= now /\ now < made + Lifetime

Unanswered(use, made, page, sent) ==
  [use |-> use, made |-> made, page |-> page, sent |-> sent,
   answer |-> "none", items |-> <<>>, more |-> FALSE]

-----------------------------------------------------------------------------
(* GitHub *)

Install ==
  /\ \E i \in Installation \ (ToSet(installed) \cup removed), at \in 1..(Len(installed) + 1) :
       installed' = InsertAt(installed, at, i)
  /\ UNCHANGED <<now, skew, listing, installations, request, steady, removed>>

Uninstall ==
  /\ \E at \in DOMAIN installed :
       /\ installed' = RemoveAt(installed, at)
       /\ steady' = steady \ {installed[at]}
       /\ removed' = removed \cup {installed[at]}
  /\ UNCHANGED <<now, skew, listing, installations, request>>

PageOf(n) == SubSeq(installed, (n - 1) * PageSize + 1, Min({n * PageSize, Len(installed)}))

Serve ==
  /\ request # None /\ request.answer = "none"
  /\ IF ~Accepts(request.made)
     THEN request' = [request EXCEPT !.answer = "refused"]
     ELSE IF request.use = "page"
     THEN request' = [request EXCEPT !.answer = "served", !.items = PageOf(request.page),
                                     !.more = request.page * PageSize < Len(installed)]
     ELSE request' = [request EXCEPT !.answer = "served"]
  /\ UNCHANGED <<now, skew, installed, listing, installations, steady, removed>>

\* Time does not pass the slowest answer.
Tick ==
  /\ now < MaxTime
  /\ request # None => now < request.sent + Slowest
  /\ now' = now + 1
  /\ UNCHANGED <<skew, installed, listing, installations, request, steady, removed>>

-----------------------------------------------------------------------------
(* The listing *)

Init ==
  /\ now = 0 /\ skew \in Skews
  /\ installed \in SetToAllKPermutations(Installation)
  /\ listing = "running"
  /\ installations = {}
  /\ request = Unanswered("page", FreshToken(skew), 1, 0)
  /\ steady = ToSet(installed) /\ removed = {}

\* Mutant: what the model class refuses is skipped.
SkipUnfit(items) == SelectSeq(items, LAMBDA i : i \notin Unfit)

\* amap awaits the model class, which dict_to_kwargs_cb gives the keys it
\* knows, for each item in turn and without a suspension.
Converted(items) == items

\* The constructor raises for a missing key and for a target_type other than two.
Refused(models) == ToSet(models) \cap Unfit # {}

\* Mutant: installations are kept by their app.
AppOf(i) == CHOOSE j \in Installation : TRUE

KeyOf(i) == i

\* Pages are answered in turn; the items of one are taken before the next is asked for.
PageArrives ==
  /\ request # None
  /\ request.use = "page" /\ request.answer = "served"
  /\ LET models == Converted(request.items)
     IN IF Refused(models)
        THEN listing' = "aborted" /\ request' = None /\ UNCHANGED installations
        ELSE /\ installations' = installations \cup {KeyOf(i) : i \in ToSet(models)}
             /\ IF request.more
                THEN request' = Unanswered("page", request.made, request.page + 1, now)
                     /\ UNCHANGED listing
                ELSE listing' = "complete" /\ request' = None
  /\ UNCHANGED <<now, skew, installed, steady, removed>>

\* Only a connection that cannot be made is tolerated at the start.
ListingFails ==
  /\ request # None
  /\ request.use = "page" /\ request.answer # "served"
  /\ listing' \in IF request.answer = "refused" THEN {"aborted"} ELSE {"aborted", "offline"}
  /\ request' = None
  /\ UNCHANGED <<now, skew, installed, installations, steady, removed>>

-----------------------------------------------------------------------------
(* The server *)

Serving == listing \in {"complete", "offline"}

\* An event comes with the number of an installation.
LookUp ==
  /\ Serving
  /\ request = None
  /\ request' = Unanswered("lookup", FreshToken(now + skew), 1, now)
  /\ UNCHANGED <<now, skew, installed, listing, installations, steady, removed>>

\* It is answered, with the installation or without, or not at all.
LookUpEnds ==
  /\ request # None
  /\ request.use = "lookup"
  /\ request' = None
  /\ UNCHANGED <<now, skew, installed, listing, installations, steady, removed>>

GitHub == Install \/ Uninstall \/ Serve \/ Tick
Server == PageArrives \/ ListingFails \/ LookUp \/ LookUpEnds

\* The server has failed to start.
Over == listing = "aborted" /\ UNCHANGED vars

Next == GitHub \/ Server \/ Over

Spec == Init /\ [][Next]_vars

-----------------------------------------------------------------------------
(* Properties *)

\* However installations move between the pages while they are read, a listing
\* that is complete has missed no more of those that were there all along than
\* there were uninstalled meanwhile; with none uninstalled it has them all.
FewAreMissed ==
  listing = "complete" => Cardinality(steady \ installations) <= Cardinality(removed)

\* A token is only refused because the server's clock is ahead, or because the time
\* that the requests made with it may have taken so far, and what the clock is
\* behind, come to the time that a token is valid: with clocks that agree this needs
\* that many pages of one listing, with a clock that is behind fewer.  How long the
\* server has been running is never a reason, for each lookup has a token of its own.
RefusedForAReason ==
  request # None /\ request.answer = "refused"
    => skew > 0 \/ request.page * Slowest - skew >= Lifetime
=============================================================================
