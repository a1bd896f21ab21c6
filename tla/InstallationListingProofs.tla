---------------------- MODULE InstallationListingProofs ----------------------
(***************************************************************************)
(* Why GitHub refuses a token, for any number of installations and pages,  *)
(* any lifetime of tokens, any delay of answers and any clocks.            *)
(***************************************************************************)
EXTENDS InstallationListing, FiniteSetTheorems, SequenceTheorems, TLAPS

-----------------------------------------------------------------------------
(* Types *)

LEMMA MinOfTwo ==
  ASSUME NEW a \in Nat, NEW b \in Nat
  PROVE  Min({a, b}) \in Nat /\ Min({a, b}) <= a /\ Min({a, b}) <= b
<1>1. \E x \in {a, b} : \A y \in {a, b} : x <= y
  OBVIOUS
<1>. QED
  BY <1>1 DEF Min

LEMMA PageType ==
  ASSUME TypeOK, NEW n \in Nat \ {0}
  PROVE  PageOf(n) \in Seq(Installation)
<1>. DEFINE first == (n - 1) * PageSize + 1
            last == Min({n * PageSize, Len(installed)})
<1>1. installed \in Seq(Installation) /\ Len(installed) \in Nat
  BY DEF TypeOK
<1>2. first \in Nat \ {0} /\ n * PageSize \in Nat
  BY PageAssumption
<1>3. last \in Nat /\ last <= Len(installed)
  BY <1>1, <1>2, MinOfTwo
<1>. HIDE DEF first, last
<1>4. SubSeq(installed, first, last) \in Seq(Installation)
  BY <1>1, <1>2, <1>3
<1>. QED
  BY <1>4 DEF PageOf, first, last

LEMMA InsertType ==
  ASSUME NEW s \in Seq(Installation), NEW at \in 1..(Len(s) + 1), NEW e \in Installation
  PROVE  LET t == InsertAt(s, at, e) IN
         /\ t \in Seq(Installation) /\ Len(t) = Len(s) + 1
         /\ \A i \in 1..Len(t) : t[i] = IF i < at THEN s[i] ELSE IF i = at THEN e ELSE s[i - 1]
<1>. DEFINE before == SubSeq(s, 1, at - 1)
            after == SubSeq(s, at, Len(s))
            t == (before \o <<e>>) \o after
<1>1. Len(s) \in Nat /\ at \in Nat /\ at > 0 /\ at <= Len(s) + 1 /\ \A i \in 1..Len(s) : s[i] \in Installation
  OBVIOUS
<1>2. /\ before \in Seq(Installation) /\ Len(before) = at - 1
      /\ \A i \in 1..(at - 1) : before[i] = s[i]
  BY <1>1, SubSeqProperties
<1>3. /\ after \in Seq(Installation) /\ Len(after) = Len(s) - at + 1
      /\ \A i \in 1..(Len(s) - at + 1) : after[i] = s[at + i - 1]
  BY <1>1, SubSeqProperties
<1>4. <<e>> \in Seq(Installation) /\ Len(<<e>>) = 1 /\ <<e>>[1] = e
  OBVIOUS
<1>. HIDE DEF before, after
<1>5. /\ before \o <<e>> \in Seq(Installation) /\ Len(before \o <<e>>) = at
      /\ \A i \in 1..at : (before \o <<e>>)[i] = IF i < at THEN s[i] ELSE e
  BY <1>1, <1>2, <1>4, ConcatProperties
<1>6. /\ t \in Seq(Installation) /\ Len(t) = Len(s) + 1
      /\ \A i \in 1..(Len(s) + 1) : t[i] = IF i <= at THEN (before \o <<e>>)[i] ELSE after[i - at]
  <2>. DEFINE u == before \o <<e>>
  <2>1. u \in Seq(Installation) /\ Len(u) = at
    BY <1>5
  <2>. HIDE DEF u
  <2>2. /\ u \o after \in Seq(Installation) /\ Len(u \o after) = Len(u) + Len(after)
        /\ \A i \in 1..(Len(u) + Len(after)) :
             (u \o after)[i] = IF i <= Len(u) THEN u[i] ELSE after[i - Len(u)]
    BY <1>3, <2>1, ConcatProperties
  <2>3. Len(u) + Len(after) = Len(s) + 1
    BY <1>1, <1>3, <2>1
  <2>. QED
    BY <2>1, <2>2, <2>3 DEF u
<1>7. \A i \in 1..(Len(s) + 1) : t[i] = IF i < at THEN s[i] ELSE IF i = at THEN e ELSE s[i - 1]
  BY <1>1, <1>3, <1>5, <1>6
<1>. QED
  BY <1>6, <1>7 DEF InsertAt, before, after

LEMMA RemoveType ==
  ASSUME NEW s \in Seq(Installation), NEW at \in 1..Len(s)
  PROVE  LET t == RemoveAt(s, at) IN
         /\ t \in Seq(Installation) /\ Len(t) = Len(s) - 1
         /\ \A i \in 1..Len(t) : t[i] = IF i < at THEN s[i] ELSE s[i + 1]
<1>. DEFINE before == SubSeq(s, 1, at - 1)
            after == SubSeq(s, at + 1, Len(s))
<1>1. Len(s) \in Nat /\ at \in Nat /\ at > 0 /\ at <= Len(s) /\ \A i \in 1..Len(s) : s[i] \in Installation
  OBVIOUS
<1>2. /\ before \in Seq(Installation) /\ Len(before) = at - 1
      /\ \A i \in 1..(at - 1) : before[i] = s[i]
  BY <1>1, SubSeqProperties
<1>3. /\ after \in Seq(Installation) /\ Len(after) = Len(s) - at
      /\ \A i \in 1..(Len(s) - at) : after[i] = s[at + i]
  <2>1. at + 1 \in Int /\ Len(s) \in Int /\ \A i \in (at + 1)..Len(s) : s[i] \in Installation
    BY <1>1
  <2>2. /\ after \in Seq(Installation)
        /\ Len(after) = IF at + 1 <= Len(s) THEN Len(s) - (at + 1) + 1 ELSE 0
        /\ \A i \in 1..(Len(s) - (at + 1) + 1) : after[i] = s[(at + 1) + i - 1]
    BY <2>1, SubSeqProperties
  <2>. QED
    BY <1>1, <2>2
<1>. HIDE DEF before, after
<1>4. /\ before \o after \in Seq(Installation) /\ Len(before \o after) = Len(s) - 1
      /\ \A i \in 1..(Len(s) - 1) :
           (before \o after)[i] = IF i <= at - 1 THEN before[i] ELSE after[i - (at - 1)]
  <2>1. /\ before \o after \in Seq(Installation) /\ Len(before \o after) = Len(before) + Len(after)
        /\ \A i \in 1..(Len(before) + Len(after)) :
             (before \o after)[i] = IF i <= Len(before) THEN before[i] ELSE after[i - Len(before)]
    BY <1>2, <1>3, ConcatProperties
  <2>2. Len(before) + Len(after) = Len(s) - 1
    BY <1>1, <1>2, <1>3
  <2>. QED
    BY <1>2, <2>1, <2>2
<1>5. ASSUME NEW i \in 1..(Len(s) - 1)
      PROVE  (before \o after)[i] = IF i < at THEN s[i] ELSE s[i + 1]
  <2>1. CASE i < at
    BY <1>1, <1>2, <1>4, <2>1
  <2>2. CASE ~ (i < at)
    <3>. DEFINE k == i - (at - 1)
    <3>1. k \in 1..(Len(s) - at) /\ at + k = i + 1 /\ ~ (i <= at - 1)
      BY <1>1, <2>2
    <3>2. (before \o after)[i] = after[k]
      BY <1>4, <3>1
    <3>. HIDE DEF k
    <3>3. after[k] = s[at + k]
      BY <1>3, <3>1
    <3>. QED
      BY <2>2, <3>1, <3>2, <3>3
  <2>. QED
    BY <2>1, <2>2
<1>. QED
  BY <1>4, <1>5 DEF RemoveAt, before, after
-----------------------------------------------------------------------------
(* The inductive invariant *)

\* The requests made with one token follow each other without a gap, and none
\* takes longer than the slowest.
Punctual ==
  request # None =>
    /\ request.sent <= now /\ now <= request.sent + Slowest
    /\ request.use = "page" => /\ request.made = skew
                               /\ request.sent <= (request.page - 1) * Slowest
    /\ request.use = "lookup" => /\ request.made = request.sent + skew
                                 /\ request.page = 1

IInv == TypeOK /\ Punctual /\ RefusedForAReason

\* A list of some of the installations, as GitHub may have it at the start.
LEMMA ListedType ==
  ASSUME NEW s \in SetToAllKPermutations(Installation)
  PROVE  s \in Seq(Installation) /\ IsInjective(s)
<1>1. PICK S \in SUBSET Installation : s \in SetToSeqs(S)
  BY DEF SetToAllKPermutations
<1>2. IsFiniteSet(S)
  BY InstallationAssumption, FS_Subset
<1>3. Cardinality(S) \in Nat
  BY <1>2, FS_CardinalityType
<1>4. /\ s \in [1..Cardinality(S) -> S]
      /\ \A a, b \in 1..Cardinality(S) : a # b => s[a] # s[b]
  BY <1>1 DEF SetToSeqs
<1>5. s \in [1..Cardinality(S) -> Installation]
  BY <1>4
<1>6. s \in Seq(Installation)
  BY <1>3, <1>5
<1>7. IsInjective(s)
  BY <1>4 DEF IsInjective
<1>. QED
  BY <1>6, <1>7

LEMMA UnansweredType ==
  ASSUME NEW use \in {"page", "lookup"}, NEW made \in Int, NEW page \in Nat \ {0}, NEW sent \in Nat
  PROVE  Unanswered(use, made, page, sent) \in Request
<1>1. <<>> \in Seq(Installation)
  OBVIOUS
<1>. QED
  BY <1>1 DEF Unanswered, Request

LEMMA InitIInv ==
  ASSUME Init
  PROVE  IInv
<1>1. now = 0 /\ skew \in Skews /\ skew \in Int
  BY TimeAssumption DEF Init
<1>2. installed \in Seq(Installation) /\ IsInjective(installed)
  BY ListedType DEF Init
<1>3. request = Unanswered("page", skew, 1, 0)
  BY DEF Init, FreshToken
<1>4. request \in Request
  BY <1>1, <1>3, UnansweredType
<1>5. TypeOK
  BY <1>1, <1>2, <1>4 DEF Init, TypeOK
<1>6. /\ request.use = "page" /\ request.made = skew /\ request.page = 1
      /\ request.sent = 0 /\ request.answer = "none"
  BY <1>3 DEF Unanswered
<1>7. Punctual /\ RefusedForAReason
  BY <1>1, <1>6, TimeAssumption DEF Punctual, RefusedForAReason
<1>. QED
  BY <1>5, <1>7 DEF IInv

-----------------------------------------------------------------------------
(* One lemma for each action *)

LEMMA InstallStep ==
  ASSUME IInv, Install
  PROVE  IInv'
<1>1. PICK i \in Installation \ (ToSet(installed) \cup removed), at \in 1..(Len(installed) + 1) :
         installed' = InsertAt(installed, at, i)
  BY DEF Install
<1>2. installed \in Seq(Installation) /\ IsInjective(installed) /\ steady \subseteq ToSet(installed)
  BY DEF IInv, TypeOK
<1>3. /\ installed' \in Seq(Installation) /\ Len(installed') = Len(installed) + 1
      /\ \A k \in 1..Len(installed') :
           installed'[k] = IF k < at THEN installed[k] ELSE IF k = at THEN i ELSE installed[k - 1]
  <2>1. i \in Installation /\ at \in 1..(Len(installed) + 1)
    BY <1>1
  <2>. DEFINE t == InsertAt(installed, at, i)
  <2>2. /\ t \in Seq(Installation) /\ Len(t) = Len(installed) + 1
        /\ \A k \in 1..Len(t) :
             t[k] = IF k < at THEN installed[k] ELSE IF k = at THEN i ELSE installed[k - 1]
    BY <1>2, <2>1, InsertType
  <2>. HIDE DEF t
  <2>3. installed' = t
    BY <1>1 DEF t
  <2>. QED
    BY <2>2, <2>3
<1>4. /\ DOMAIN installed = 1..Len(installed) /\ Len(installed) \in Nat
      /\ DOMAIN installed' = 1..Len(installed') /\ at \in 1..(Len(installed) + 1)
  BY <1>2, <1>3
<1>5. \A k \in 1..Len(installed) : installed[k] # i
  BY <1>1, <1>4 DEF ToSet
<1>6. IsInjective(installed')
  <2>1. SUFFICES ASSUME NEW a \in 1..Len(installed'), NEW b \in 1..Len(installed'),
                        installed'[a] = installed'[b]
                 PROVE  a = b
    BY <1>4 DEF IsInjective
  <2>2. \A c, d \in 1..Len(installed) : installed[c] = installed[d] => c = d
    BY <1>2, <1>4 DEF IsInjective
  <2>3. /\ a < at => a \in 1..Len(installed) /\ installed'[a] = installed[a]
        /\ a = at => installed'[a] = i
        /\ a > at => a - 1 \in 1..Len(installed) /\ installed'[a] = installed[a - 1]
    BY <1>3, <1>4
  <2>4. /\ b < at => b \in 1..Len(installed) /\ installed'[b] = installed[b]
        /\ b = at => installed'[b] = i
        /\ b > at => b - 1 \in 1..Len(installed) /\ installed'[b] = installed[b - 1]
    BY <1>3, <1>4
  <2>5. a \in Int /\ b \in Int /\ at \in Int
    BY <1>3, <1>4
  <2>6. CASE a < at
    BY <1>5, <2>1, <2>2, <2>3, <2>4, <2>5, <2>6
  <2>7. CASE a = at
    BY <1>5, <2>1, <2>2, <2>3, <2>4, <2>5, <2>7
  <2>8. CASE a > at
    BY <1>5, <2>1, <2>2, <2>3, <2>4, <2>5, <2>8
  <2>. QED
    BY <2>5, <2>6, <2>7, <2>8
<1>7. steady' \subseteq ToSet(installed')
  <2>1. SUFFICES ASSUME NEW k \in 1..Len(installed)
                 PROVE  \E n \in DOMAIN installed' : installed'[n] = installed[k]
    BY <1>2, <1>4 DEF ToSet, Install
  <2>2. CASE k < at
    BY <1>3, <1>4, <2>2
  <2>3. CASE ~ (k < at)
    <3>1. k + 1 \in 1..Len(installed') /\ ~ (k + 1 < at) /\ k + 1 # at /\ (k + 1) - 1 = k
      BY <1>3, <1>4, <2>3
    <3>2. installed'[k + 1] = installed[k]
      BY <1>3, <3>1
    <3>. QED
      BY <1>4, <3>1, <3>2
  <2>. QED
    BY <2>2, <2>3
<1>8. TypeOK'
  BY <1>3, <1>6, <1>7 DEF Install, IInv, TypeOK
<1>9. Punctual' /\ RefusedForAReason'
  BY DEF Install, IInv, Punctual, RefusedForAReason
<1>. QED
  BY <1>8, <1>9 DEF IInv

LEMMA UninstallStep ==
  ASSUME IInv, Uninstall
  PROVE  IInv'
<1>1. PICK at \in DOMAIN installed :
         /\ installed' = RemoveAt(installed, at)
         /\ steady' = steady \ {installed[at]}
         /\ removed' = removed \cup {installed[at]}
  BY DEF Uninstall
<1>2. /\ installed \in Seq(Installation) /\ IsInjective(installed)
      /\ steady \subseteq ToSet(installed) /\ removed \subseteq Installation
  BY DEF IInv, TypeOK
<1>3. /\ DOMAIN installed = 1..Len(installed) /\ Len(installed) \in Nat
      /\ at \in 1..Len(installed) /\ installed[at] \in Installation
  BY <1>1, <1>2
<1>4. /\ installed' \in Seq(Installation) /\ Len(installed') = Len(installed) - 1
      /\ \A k \in 1..Len(installed') :
           installed'[k] = IF k < at THEN installed[k] ELSE installed[k + 1]
  <2>. DEFINE t == RemoveAt(installed, at)
  <2>1. /\ t \in Seq(Installation) /\ Len(t) = Len(installed) - 1
        /\ \A k \in 1..Len(t) : t[k] = IF k < at THEN installed[k] ELSE installed[k + 1]
    BY <1>2, <1>3, RemoveType
  <2>. HIDE DEF t
  <2>2. installed' = t
    BY <1>1 DEF t
  <2>. QED
    BY <2>1, <2>2
<1>5. DOMAIN installed' = 1..Len(installed')
  BY <1>4
<1>6. IsInjective(installed')
  <2>1. SUFFICES ASSUME NEW a \in 1..Len(installed'), NEW b \in 1..Len(installed'),
                        installed'[a] = installed'[b]
                 PROVE  a = b
    BY <1>5 DEF IsInjective
  <2>2. \A c, d \in 1..Len(installed) : installed[c] = installed[d] => c = d
    BY <1>2, <1>3 DEF IsInjective
  <2>3. /\ a \in 1..Len(installed) /\ a + 1 \in 1..Len(installed)
        /\ b \in 1..Len(installed) /\ b + 1 \in 1..Len(installed)
        /\ at \in Int
    BY <1>3, <1>4
  <2>. QED
    BY <1>4, <2>1, <2>2, <2>3
<1>7. steady' \subseteq ToSet(installed')
  <2>1. SUFFICES ASSUME NEW k \in 1..Len(installed), k # at
                 PROVE  \E n \in DOMAIN installed' : installed'[n] = installed[k]
    BY <1>1, <1>2, <1>3 DEF ToSet
  <2>2. CASE k < at
    BY <1>3, <1>4, <1>5, <2>2
  <2>3. CASE ~ (k < at)
    <3>1. k - 1 \in 1..Len(installed') /\ ~ (k - 1 < at) /\ (k - 1) + 1 = k
      BY <1>3, <1>4, <2>1, <2>3
    <3>2. installed'[k - 1] = installed[k]
      BY <1>4, <3>1
    <3>. QED
      BY <1>5, <3>1, <3>2
  <2>. QED
    BY <2>2, <2>3
<1>8. TypeOK'
  BY <1>1, <1>2, <1>3, <1>4, <1>6, <1>7 DEF Uninstall, IInv, TypeOK
<1>9. Punctual' /\ RefusedForAReason'
  BY DEF Uninstall, IInv, Punctual, RefusedForAReason
<1>. QED
  BY <1>8, <1>9 DEF IInv

LEMMA ServeStep ==
  ASSUME IInv, Serve
  PROVE  IInv'
<1>1. /\ request \in Request /\ request # None /\ request.answer = "none"
      /\ now \in Nat /\ skew \in Int
  BY TimeAssumption DEF IInv, TypeOK, Serve
<1>2. PageOf(request.page) \in Seq(Installation)
  BY <1>1, PageType DEF IInv, Request
<1>3. /\ request' \in Request
      /\ request'.use = request.use /\ request'.made = request.made
      /\ request'.page = request.page /\ request'.sent = request.sent
      /\ request'.answer = "refused" => ~ Accepts(request.made)
  <2>1. CASE ~ Accepts(request.made)
    BY <1>1, <2>1 DEF Serve, Request
  <2>2. CASE Accepts(request.made) /\ request.use = "page"
    <3>. DEFINE items == PageOf(request.page)
                more == request.page * PageSize < Len(installed)
    <3>1. request' = [request EXCEPT !.answer = "served", !.items = items, !.more = more]
      BY <2>2 DEF Serve
    <3>2. items \in Seq(Installation) /\ more \in BOOLEAN
      BY <1>2
    <3>. HIDE DEF items, more
    <3>. QED
      BY <1>1, <2>2, <3>1, <3>2 DEF Request
  <2>3. CASE Accepts(request.made) /\ request.use # "page"
    BY <1>1, <2>3 DEF Serve, Request
  <2>. QED
    BY <2>1, <2>2, <2>3
<1>4. /\ now' = now /\ skew' = skew
      /\ UNCHANGED <<installed, listing, installations, steady, removed>>
  BY DEF Serve
<1>5. TypeOK'
  BY <1>3, <1>4 DEF IInv, TypeOK
<1>6. Punctual'
  BY <1>1, <1>3, <1>4 DEF IInv, Punctual
<1>7. ASSUME ~ Accepts(request.made)
      PROVE  skew > 0 \/ request.page * Slowest - skew >= Lifetime
  <2>1. /\ request.made \in Int /\ request.page \in Nat \ {0} /\ request.sent \in Nat
        /\ request.use \in {"page", "lookup"} /\ Lifetime \in Nat /\ Slowest \in Nat
    BY <1>1, TimeAssumption DEF Request
  <2>2. request.made > now \/ now >= request.made + Lifetime
    BY <1>1, <1>7, <2>1 DEF Accepts
  <2>3. request.sent <= now /\ now <= request.sent + Slowest
    BY <1>1 DEF IInv, Punctual
  <2>4. CASE request.use = "page"
    <3>1. request.made = skew /\ request.sent <= (request.page - 1) * Slowest
      BY <1>1, <2>4 DEF IInv, Punctual
    <3>2. (request.page - 1) * Slowest + Slowest = request.page * Slowest
      BY <2>1
    <3>3. (request.page - 1) * Slowest \in Int /\ request.page * Slowest \in Int
      BY <2>1
    <3>. QED
      BY <1>1, <2>1, <2>2, <2>3, <3>1, <3>2, <3>3
  <2>5. CASE request.use = "lookup"
    <3>1. request.made = request.sent + skew /\ request.page = 1
      BY <1>1, <2>5 DEF IInv, Punctual
    <3>2. request.page * Slowest = Slowest
      BY <2>1, <3>1
    <3>. QED
      BY <1>1, <2>1, <2>2, <2>3, <3>1, <3>2
  <2>. QED
    BY <2>1, <2>4, <2>5
<1>8. RefusedForAReason'
  BY <1>3, <1>4, <1>7 DEF RefusedForAReason
<1>. QED
  BY <1>5, <1>6, <1>8 DEF IInv

LEMMA TickStep ==
  ASSUME IInv, Tick
  PROVE  IInv'
<1>1. now \in Nat /\ now' = now + 1 /\ UNCHANGED <<skew, installed, listing, installations, request, steady, removed>>
  BY DEF IInv, TypeOK, Tick
<1>2. TypeOK'
  BY <1>1 DEF IInv, TypeOK
<1>3. request # None => request \in Request /\ request.sent \in Nat /\ Slowest \in Nat
  BY TimeAssumption DEF IInv, TypeOK, Request
<1>4. Punctual'
  <2>1. request # None => now' <= request.sent + Slowest /\ request.sent <= now'
    BY <1>1, <1>3 DEF IInv, Punctual, Tick
  <2>. QED
    BY <1>1, <2>1 DEF IInv, Punctual
<1>5. RefusedForAReason'
  BY <1>1 DEF IInv, RefusedForAReason
<1>. QED
  BY <1>2, <1>4, <1>5 DEF IInv

LEMMA PageArrivesStep ==
  ASSUME IInv, PageArrives
  PROVE  IInv'
<1>. DEFINE models == Converted(request.items)
<1>1. /\ request \in Request /\ request # None /\ request.use = "page"
      /\ now \in Nat /\ skew \in Int /\ Slowest \in Nat
      /\ UNCHANGED <<now, skew, installed, steady, removed>>
  BY TimeAssumption DEF IInv, TypeOK, PageArrives
<1>2. /\ request.made \in Int /\ request.page \in Nat \ {0} /\ request.sent \in Nat
      /\ models \in Seq(Installation)
  BY <1>1 DEF Request, Converted
<1>. HIDE DEF models
<1>3. {KeyOf(i) : i \in ToSet(models)} \subseteq Installation
  BY <1>2 DEF ToSet, KeyOf
<1>4. /\ listing' \in {"running", "complete", "offline", "aborted"}
      /\ installations' \subseteq Installation
  BY <1>3 DEF IInv, TypeOK, PageArrives, models
<1>5. request' = None \/ request' = Unanswered("page", request.made, request.page + 1, now)
  BY DEF PageArrives
<1>6. CASE request' = None
  <2>1. TypeOK'
    BY <1>1, <1>4, <1>6 DEF IInv, TypeOK
  <2>2. Punctual' /\ RefusedForAReason'
    BY <1>6 DEF Punctual, RefusedForAReason
  <2>. QED
    BY <2>1, <2>2 DEF IInv
<1>7. CASE request' = Unanswered("page", request.made, request.page + 1, now)
  <2>1. request.page + 1 \in Nat \ {0}
    BY <1>2
  <2>2. request' \in Request
    BY <1>1, <1>2, <1>7, <2>1, UnansweredType
  <2>3. TypeOK'
    BY <1>1, <1>4, <2>2 DEF IInv, TypeOK
  <2>4. /\ request'.use = "page" /\ request'.made = request.made
        /\ request'.page = request.page + 1 /\ request'.sent = now /\ request'.answer = "none"
    BY <1>7 DEF Unanswered
  <2>5. /\ request.made = skew /\ now <= request.sent + Slowest
        /\ request.sent <= (request.page - 1) * Slowest
    BY <1>1 DEF IInv, Punctual
  <2>6. (request.page - 1) * Slowest + Slowest = ((request.page + 1) - 1) * Slowest
    BY <1>1, <1>2
  <2>7. (request.page - 1) * Slowest \in Int /\ ((request.page + 1) - 1) * Slowest \in Int
    BY <1>1, <1>2
  <2>8. now <= ((request.page + 1) - 1) * Slowest
    BY <1>1, <1>2, <2>5, <2>6, <2>7
  <2>9. now <= now + Slowest
    BY <1>1
  <2>10. Punctual'
    BY <1>1, <2>4, <2>5, <2>8, <2>9 DEF Punctual
  <2>11. RefusedForAReason'
    BY <2>4 DEF RefusedForAReason
  <2>. QED
    BY <2>3, <2>10, <2>11 DEF IInv
<1>. QED
  BY <1>5, <1>6, <1>7

LEMMA LookUpStep ==
  ASSUME IInv, LookUp
  PROVE  IInv'
<1>1. /\ now \in Nat /\ skew \in Int /\ Slowest \in Nat
      /\ UNCHANGED <<now, skew, installed, listing, installations, steady, removed>>
  BY TimeAssumption DEF IInv, TypeOK, LookUp
<1>2. request' = Unanswered("lookup", now + skew, 1, now)
  BY DEF LookUp, FreshToken
<1>3. request' \in Request
  BY <1>1, <1>2, UnansweredType
<1>4. TypeOK'
  BY <1>1, <1>3 DEF IInv, TypeOK
<1>5. /\ request'.use = "lookup" /\ request'.made = now + skew
      /\ request'.page = 1 /\ request'.sent = now /\ request'.answer = "none"
  BY <1>2 DEF Unanswered
<1>6. Punctual' /\ RefusedForAReason'
  BY <1>1, <1>5 DEF Punctual, RefusedForAReason
<1>. QED
  BY <1>4, <1>6 DEF IInv

\* The actions after which no request waits.
LEMMA RequestEndsStep ==
  ASSUME IInv, ListingFails \/ LookUpEnds
  PROVE  IInv'
<1>1. /\ request' = None
      /\ listing' \in {"running", "complete", "offline", "aborted"}
      /\ UNCHANGED <<now, skew, installed, installations, steady, removed>>
  BY DEF IInv, TypeOK, ListingFails, LookUpEnds
<1>2. TypeOK'
  BY <1>1 DEF IInv, TypeOK
<1>3. Punctual' /\ RefusedForAReason'
  BY <1>1 DEF Punctual, RefusedForAReason
<1>. QED
  BY <1>2, <1>3 DEF IInv

LEMMA StutterStep ==
  ASSUME IInv, UNCHANGED vars
  PROVE  IInv'
<1>1. TypeOK'
  BY DEF IInv, TypeOK, vars
<1>2. Punctual' /\ RefusedForAReason'
  BY DEF IInv, Punctual, RefusedForAReason, vars
<1>. QED
  BY <1>1, <1>2 DEF IInv

-----------------------------------------------------------------------------
(* Theorems *)

\* The requests of log_installs_list and of get_installation keep within the
\* time their token gives them, as far as the answers do.
THEOREM ListingInvariance == Spec => []IInv
<1>1. Init => IInv
  BY InitIInv
<1>2. IInv /\ [Next]_vars => IInv'
  <2>1. SUFFICES ASSUME IInv, [Next]_vars
                 PROVE  IInv'
    OBVIOUS
  <2>2. CASE Install
    BY <2>1, <2>2, InstallStep
  <2>3. CASE Uninstall
    BY <2>1, <2>3, UninstallStep
  <2>4. CASE Serve
    BY <2>1, <2>4, ServeStep
  <2>5. CASE Tick
    BY <2>1, <2>5, TickStep
  <2>6. CASE PageArrives
    BY <2>1, <2>6, PageArrivesStep
  <2>7. CASE ListingFails \/ LookUpEnds
    BY <2>1, <2>7, RequestEndsStep
  <2>8. CASE LookUp
    BY <2>1, <2>8, LookUpStep
  <2>9. CASE Over \/ UNCHANGED vars
    BY <2>1, <2>9, StutterStep DEF Over
  <2>. QED
    BY <2>1, <2>2, <2>3, <2>4, <2>5, <2>6, <2>7, <2>8, <2>9 DEF Next, GitHub, Server
<1>. QED
  BY <1>1, <1>2, PTL DEF Spec

\* The keys that log_installs_list puts into its dictionary are installations,
\* however the pages shift under it.
THEOREM ListingTypeCorrect == Spec => []TypeOK
<1>1. IInv => TypeOK
  BY DEF IInv
<1>. QED
  BY <1>1, ListingInvariance, PTL

\* With any number of pages, GitHub refuses the JWT of app_client.py only for a
\* server clock that is ahead, or when the pages read so far, at their slowest, and
\* what the clock is behind come to the time that the token is valid.
THEOREM RefusalHasAReason == Spec => []RefusedForAReason
<1>1. IInv => RefusedForAReason
  BY DEF IInv
<1>. QED
  BY <1>1, ListingInvariance, PTL

-----------------------------------------------------------------------------
(* What the listing misses                                                 *)
(*                                                                         *)
(* The pages that have been taken cover the positions up to a bound.  An   *)
(* installation is missed when it moves below the bound before it is read, *)
(* and only an uninstallation makes room for one there.                    *)

Served == request.answer = "served"

Passed == (IF Served THEN request.page ELSE request.page - 1) * PageSize

Taken == installations \cup IF Served THEN ToSet(request.items) ELSE {}

\* Those among the first n of a list that have not been taken.
MissedBelow(there, list, n, taken) ==
  {i \in there \ taken : \E k \in DOMAIN list : k <= n /\ list[k] = i}

\* After the last page nothing more will be read.
Missed ==
  IF listing = "complete" THEN steady \ installations
  ELSE IF Served /\ ~request.more THEN steady \ Taken
  ELSE MissedBelow(steady, installed, Passed, Taken)

Listed ==
  /\ ToSet(installed) \cap removed = {}
  /\ listing = "running" => request \in Request /\ request.use = "page"
  /\ request # None /\ request.use = "page" => listing = "running"

MissedInv ==
  /\ Listed
  /\ listing \in {"running", "complete"} => Cardinality(Missed) <= Cardinality(removed)

LEMMA FewerInstallations ==
  ASSUME NEW B \in SUBSET Installation, NEW A \in SUBSET B
  PROVE  Cardinality(A) <= Cardinality(B)
<1>1. IsFiniteSet(B)
  BY InstallationAssumption, FS_Subset
<1>. QED
  BY <1>1, FS_Subset

LEMMA OneMoreInstallation ==
  ASSUME NEW A, NEW B \in SUBSET Installation, NEW i, A \subseteq B \cup {i}
  PROVE  Cardinality(A) <= Cardinality(B) + 1
<1>1. IsFiniteSet(B)
  BY InstallationAssumption, FS_Subset
<1>2. Cardinality(B) \in Nat
  BY <1>1, FS_CardinalityType
<1>3. IsFiniteSet(B \cup {i}) /\ Cardinality(B \cup {i}) <= Cardinality(B) + 1
  BY <1>1, <1>2, FS_AddElement
<1>4. Cardinality(A) <= Cardinality(B \cup {i}) /\ Cardinality(A) \in Nat /\ Cardinality(B \cup {i}) \in Nat
  BY <1>3, FS_Subset, FS_CardinalityType
<1>. QED
  BY <1>2, <1>3, <1>4

LEMMA RemovedCounts ==
  ASSUME NEW R \in SUBSET Installation, NEW i \in Installation \ R
  PROVE  Cardinality(R \cup {i}) = Cardinality(R) + 1 /\ Cardinality(R) \in Nat
<1>1. IsFiniteSet(R)
  BY InstallationAssumption, FS_Subset
<1>. QED
  BY <1>1, FS_AddElement, FS_CardinalityType

LEMMA MissedType ==
  ASSUME TypeOK
  PROVE  /\ Missed \subseteq Installation
         /\ Cardinality(Missed) \in Nat /\ Cardinality(removed) \in Nat
<1>1. steady \subseteq Installation /\ removed \subseteq Installation
  BY DEF TypeOK, ToSet
<1>2. Missed \subseteq steady
  BY DEF Missed, MissedBelow
<1>3. IsFiniteSet(Missed) /\ IsFiniteSet(removed)
  BY <1>1, <1>2, InstallationAssumption, FS_Subset
<1>. QED
  BY <1>1, <1>2, <1>3, FS_CardinalityType

\* What is asked for next begins where the pages that were taken end.
LEMMA PageCovers ==
  ASSUME TypeOK, NEW n \in Nat \ {0}, NEW k \in DOMAIN installed,
         (n - 1) * PageSize < k, k <= n * PageSize
  PROVE  installed[k] \in ToSet(PageOf(n))
<1>. DEFINE first == (n - 1) * PageSize + 1
            last == Min({n * PageSize, Len(installed)})
<1>1. /\ installed \in Seq(Installation) /\ Len(installed) \in Nat
      /\ k \in 1..Len(installed) /\ \A j \in 1..Len(installed) : installed[j] \in Installation
  BY DEF TypeOK
<1>2. first \in Nat \ {0} /\ n * PageSize \in Nat /\ (n - 1) * PageSize \in Nat
  BY PageAssumption
<1>3. /\ last \in Nat /\ last <= Len(installed) /\ k <= last
  <2>1. last \in {n * PageSize, Len(installed)}
    <3>1. \E x \in {n * PageSize, Len(installed)} : \A y \in {n * PageSize, Len(installed)} : x <= y
      BY <1>1, <1>2
    <3>. QED
      BY <3>1 DEF Min
  <2>2. last \in Nat /\ last <= Len(installed)
    BY <1>1, <1>2, MinOfTwo
  <2>. QED
    BY <1>1, <1>2, <2>1, <2>2
<1>4. first <= k
  BY <1>1, <1>2
<1>. HIDE DEF first, last
<1>5. /\ Len(SubSeq(installed, first, last)) = last - first + 1
      /\ SubSeq(installed, first, last) \in Seq(Installation)
      /\ \A j \in 1..(last - first + 1) : SubSeq(installed, first, last)[j] = installed[first + j - 1]
  BY <1>1, <1>2, <1>3, <1>4, SubSeqProperties
<1>6. k - first + 1 \in 1..(last - first + 1) /\ first + (k - first + 1) - 1 = k
  BY <1>1, <1>2, <1>3, <1>4
<1>7. SubSeq(installed, first, last)[k - first + 1] = installed[k]
  BY <1>5, <1>6
<1>8. k - first + 1 \in DOMAIN SubSeq(installed, first, last)
  BY <1>5, <1>6
<1>. QED
  BY <1>7, <1>8 DEF PageOf, ToSet, first, last

\* What was not there moves the others up, or not at all.
LEMMA InstallMoves ==
  ASSUME TypeOK, Install
  PROVE  /\ DOMAIN installed' \subseteq Int
         /\ \E i \in Installation \ (ToSet(installed) \cup removed) :
              \A k \in DOMAIN installed' :
                \/ installed'[k] = i
                \/ k \in DOMAIN installed /\ installed'[k] = installed[k]
                \/ k - 1 \in DOMAIN installed /\ installed'[k] = installed[k - 1]
<1>1. PICK i \in Installation \ (ToSet(installed) \cup removed), at \in 1..(Len(installed) + 1) :
         installed' = InsertAt(installed, at, i)
  BY DEF Install
<1>2. installed \in Seq(Installation) /\ Len(installed) \in Nat /\ DOMAIN installed = 1..Len(installed)
  BY DEF TypeOK
<1>. DEFINE t == InsertAt(installed, at, i)
<1>3. /\ t \in Seq(Installation) /\ Len(t) = Len(installed) + 1
      /\ \A k \in 1..Len(t) :
           t[k] = IF k < at THEN installed[k] ELSE IF k = at THEN i ELSE installed[k - 1]
  BY <1>1, <1>2, InsertType
<1>. HIDE DEF t
<1>4. installed' = t
  BY <1>1 DEF t
<1>5. \A k \in DOMAIN t :
         \/ t[k] = i
         \/ k \in DOMAIN installed /\ t[k] = installed[k]
         \/ k - 1 \in DOMAIN installed /\ t[k] = installed[k - 1]
  <2>1. SUFFICES ASSUME NEW k \in 1..Len(t)
                 PROVE  \/ t[k] = i
                        \/ k \in DOMAIN installed /\ t[k] = installed[k]
                        \/ k - 1 \in DOMAIN installed /\ t[k] = installed[k - 1]
    BY <1>3
  <2>2. at \in Nat /\ at <= Len(installed) + 1 /\ at > 0
    BY <1>2
  <2>3. CASE k < at
    BY <1>2, <1>3, <2>2, <2>3
  <2>4. CASE k = at
    BY <1>3, <2>2, <2>4
  <2>5. CASE k > at
    BY <1>2, <1>3, <2>2, <2>5
  <2>. QED
    BY <1>3, <2>2, <2>3, <2>4, <2>5
<1>6. DOMAIN t \subseteq Int
  BY <1>3
<1>. QED
  BY <1>1, <1>4, <1>5, <1>6

\* What is gone moves those after it down by one.
LEMMA UninstallMoves ==
  ASSUME TypeOK, Uninstall
  PROVE  /\ DOMAIN installed' \subseteq Int
         /\ \E at \in DOMAIN installed :
              /\ steady' = steady \ {installed[at]}
              /\ removed' = removed \cup {installed[at]}
              /\ \A k \in DOMAIN installed' :
                   \/ k \in DOMAIN installed /\ k # at /\ installed'[k] = installed[k]
                   \/ k + 1 \in DOMAIN installed /\ k + 1 # at /\ installed'[k] = installed[k + 1]
<1>1. PICK at \in DOMAIN installed :
         /\ installed' = RemoveAt(installed, at)
         /\ steady' = steady \ {installed[at]}
         /\ removed' = removed \cup {installed[at]}
  BY DEF Uninstall
<1>2. /\ installed \in Seq(Installation) /\ Len(installed) \in Nat
      /\ DOMAIN installed = 1..Len(installed) /\ at \in 1..Len(installed)
  BY <1>1 DEF TypeOK
<1>. DEFINE t == RemoveAt(installed, at)
<1>3. /\ t \in Seq(Installation) /\ Len(t) = Len(installed) - 1
      /\ \A k \in 1..Len(t) : t[k] = IF k < at THEN installed[k] ELSE installed[k + 1]
  BY <1>2, RemoveType
<1>. HIDE DEF t
<1>4. installed' = t
  BY <1>1 DEF t
<1>5. ASSUME NEW k \in 1..Len(t)
      PROVE  \/ k \in DOMAIN installed /\ k # at /\ t[k] = installed[k]
             \/ k + 1 \in DOMAIN installed /\ k + 1 # at /\ t[k] = installed[k + 1]
  BY <1>2, <1>3, <1>5
<1>6. DOMAIN t = 1..Len(t) /\ DOMAIN t \subseteq Int
  BY <1>3
<1>. QED
  BY <1>1, <1>4, <1>5, <1>6
LEMMA MissedInit ==
  ASSUME Init
  PROVE  MissedInv
<1>1. TypeOK /\ request = Unanswered("page", skew, 1, 0) /\ listing = "running"
  BY InitIInv DEF IInv, Init, FreshToken
<1>2. /\ request.use = "page" /\ request.page = 1 /\ request.answer = "none"
      /\ removed = {} /\ installations = {}
  BY <1>1 DEF Init, Unanswered
<1>3. request \in Request
  <2>1. skew \in Int
    BY TimeAssumption DEF Init
  <2>. QED
    BY <1>1, <2>1, UnansweredType
<1>4. Listed
  BY <1>1, <1>2, <1>3 DEF Listed
<1>5. Missed = {}
  <2>1. Passed = 0
    BY <1>2, PageAssumption DEF Passed, Served
  <2>2. DOMAIN installed = 1..Len(installed)
    BY <1>1 DEF TypeOK
  <2>3. MissedBelow(steady, installed, 0, Taken) = {}
    BY <2>2 DEF MissedBelow
  <2>. QED
    BY <1>1, <1>2, <2>1, <2>3 DEF Missed, Served
<1>6. Cardinality({}) <= Cardinality({})
  BY FS_EmptySet
<1>. QED
  BY <1>2, <1>4, <1>5, <1>6 DEF MissedInv

LEMMA PassedType ==
  ASSUME Listed, listing = "running"
  PROVE  /\ Passed \in Int /\ request.page \in Nat \ {0}
         /\ request.page * PageSize \in Int /\ (request.page - 1) * PageSize \in Int
<1>1. request.page \in Nat \ {0}
  BY DEF Listed, Request
<1>2. request.page * PageSize \in Int /\ (request.page - 1) * PageSize \in Int
  BY <1>1, PageAssumption
<1>. QED
  BY <1>1, <1>2 DEF Passed

\* A step that uninstalls nothing misses nothing.
LEMMA NothingMissed ==
  ASSUME TypeOK, MissedInv, removed' = removed, Listed',
         listing' \in {"running", "complete"} =>
           listing \in {"running", "complete"} /\ Missed' \subseteq Missed
  PROVE  MissedInv'
<1>1. ASSUME listing' \in {"running", "complete"}
      PROVE  Cardinality(Missed') <= Cardinality(removed)
  <2>1. Cardinality(Missed) <= Cardinality(removed)
    BY <1>1 DEF MissedInv
  <2>2. Missed \in SUBSET Installation /\ Missed' \in SUBSET Missed
    BY <1>1, MissedType
  <2>3. Cardinality(Missed') <= Cardinality(Missed)
    BY <2>2, FewerInstallations
  <2>4. Cardinality(Missed) \in Nat /\ Cardinality(removed) \in Nat
    BY MissedType
  <2>5. Cardinality(Missed') \in Nat
    <3>1. IsFiniteSet(Missed')
      BY <2>2, InstallationAssumption, FS_Subset
    <3>. QED
      BY <3>1, FS_CardinalityType
  <2>. QED
    BY <2>1, <2>3, <2>4, <2>5
<1>. QED
  BY <1>1 DEF MissedInv

LEMMA MissedInstall ==
  ASSUME TypeOK, MissedInv, Install
  PROVE  MissedInv'
<1>1. DOMAIN installed' \subseteq Int
  BY InstallMoves
<1>2. PICK i \in Installation \ (ToSet(installed) \cup removed) :
        \A k \in DOMAIN installed' :
          \/ installed'[k] = i
          \/ k \in DOMAIN installed /\ installed'[k] = installed[k]
          \/ k - 1 \in DOMAIN installed /\ installed'[k] = installed[k - 1]
  BY InstallMoves
<1>3. UNCHANGED <<now, skew, listing, installations, request, steady, removed>>
  BY DEF Install
<1>4. Listed'
  <2>1. ToSet(installed') \subseteq ToSet(installed) \cup {i}
    BY <1>2 DEF ToSet
  <2>. QED
    BY <1>3, <2>1 DEF MissedInv, Listed
<1>5. steady \subseteq ToSet(installed) /\ \A k \in DOMAIN installed : k \in Int
  BY DEF TypeOK
<1>6. \A taken : \A n \in Int :
        MissedBelow(steady, installed', n, taken) \subseteq MissedBelow(steady, installed, n, taken)
  <2>1. SUFFICES ASSUME NEW n \in Int, NEW taken, NEW j \in steady \ taken,
                        NEW k \in DOMAIN installed', k <= n, installed'[k] = j
                 PROVE  \E m \in DOMAIN installed : m <= n /\ installed[m] = j
    BY DEF MissedBelow
  <2>2. j # i /\ k \in Int
    BY <1>1, <1>2, <1>5, <2>1
  <2>3. CASE k \in DOMAIN installed /\ installed'[k] = installed[k]
    BY <2>1, <2>3
  <2>4. CASE k - 1 \in DOMAIN installed /\ installed'[k] = installed[k - 1]
    <3>1. k - 1 <= n
      BY <2>1, <2>2
    <3>. QED
      BY <2>1, <2>4, <3>1
  <2>. QED
    BY <1>2, <2>1, <2>2, <2>3, <2>4
<1>7. ASSUME listing' \in {"running", "complete"}
      PROVE  listing \in {"running", "complete"} /\ Missed' \subseteq Missed
  <2>1. listing = "running" => Passed \in Int
    BY PassedType DEF MissedInv
  <2>2. Passed' = Passed /\ Taken' = Taken /\ Served' = Served
    BY <1>3 DEF Passed, Taken, Served
  <2>3. listing = "running" =>
          MissedBelow(steady, installed', Passed, Taken) \subseteq MissedBelow(steady, installed, Passed, Taken)
    BY <1>6, <2>1
  <2>. QED
    BY <1>3, <1>7, <2>2, <2>3 DEF Missed
<1>. QED
  BY <1>3, <1>4, <1>7, NothingMissed

LEMMA MissedUninstall ==
  ASSUME TypeOK, MissedInv, Uninstall
  PROVE  MissedInv'
<1>1. DOMAIN installed' \subseteq Int
  BY UninstallMoves
<1>2. PICK at \in DOMAIN installed :
        /\ steady' = steady \ {installed[at]}
        /\ removed' = removed \cup {installed[at]}
        /\ \A k \in DOMAIN installed' :
             \/ k \in DOMAIN installed /\ k # at /\ installed'[k] = installed[k]
             \/ k + 1 \in DOMAIN installed /\ k + 1 # at /\ installed'[k] = installed[k + 1]
  BY UninstallMoves
<1>3. UNCHANGED <<now, skew, listing, installations, request>>
  BY DEF Uninstall
<1>4. /\ installed[at] \in Installation \ removed /\ removed \subseteq Installation
      /\ \A k \in DOMAIN installed : k # at => installed[k] # installed[at]
  BY <1>2 DEF MissedInv, Listed, ToSet, TypeOK, IsInjective
<1>5. Listed'
  <2>1. ToSet(installed') \subseteq ToSet(installed) \ {installed[at]}
    BY <1>2, <1>4 DEF ToSet
  <2>. QED
    BY <1>2, <1>3, <2>1 DEF MissedInv, Listed
<1>6. \A taken : \A n \in Int :
        MissedBelow(steady', installed', n, taken)
          \subseteq MissedBelow(steady, installed, n, taken) \cup {installed[n + 1]}
  <2>1. SUFFICES ASSUME NEW n \in Int, NEW taken, NEW j \in steady \ taken,
                        NEW k \in DOMAIN installed', k <= n, installed'[k] = j, j # installed[n + 1]
                 PROVE  \E m \in DOMAIN installed : m <= n /\ installed[m] = j
    BY <1>2 DEF MissedBelow
  <2>2. k \in Int
    BY <1>1
  <2>3. CASE k \in DOMAIN installed /\ installed'[k] = installed[k]
    BY <2>1, <2>3
  <2>4. CASE k + 1 \in DOMAIN installed /\ installed'[k] = installed[k + 1]
    <3>1. k # n
      BY <2>1, <2>4
    <3>2. k + 1 <= n
      BY <2>1, <2>2, <3>1
    <3>. QED
      BY <2>1, <2>4, <3>2
  <2>. QED
    BY <1>2, <2>1, <2>3, <2>4
<1>7. ASSUME listing' \in {"running", "complete"}
      PROVE  Cardinality(Missed') <= Cardinality(removed')
  <2>1. listing = "running" => Passed \in Int
    BY PassedType DEF MissedInv
  <2>2. Passed' = Passed /\ Taken' = Taken /\ Served' = Served
    BY <1>3 DEF Passed, Taken, Served
  <2>3. Missed' \subseteq Missed \cup {installed[Passed + 1]}
    <3>1. CASE listing = "running" /\ ~(Served /\ ~request.more)
      <4>1. MissedBelow(steady', installed', Passed, Taken)
              \subseteq MissedBelow(steady, installed, Passed, Taken) \cup {installed[Passed + 1]}
        BY <1>6, <2>1, <3>1
      <4>2. Missed = MissedBelow(steady, installed, Passed, Taken)
        BY <3>1 DEF Missed
      <4>3. Missed' = MissedBelow(steady', installed', Passed, Taken)
        BY <1>3, <2>2, <3>1 DEF Missed
      <4>. QED
        BY <4>1, <4>2, <4>3
    <3>2. CASE ~(listing = "running" /\ ~(Served /\ ~request.more))
      <4>1. steady' \subseteq steady
        BY <1>2
      <4>. QED
        BY <1>3, <1>7, <2>2, <3>2, <4>1 DEF Missed
    <3>. QED
      BY <3>1, <3>2
  <2>4. Missed \in SUBSET Installation
    BY MissedType
  <2>5. Cardinality(Missed') <= Cardinality(Missed) + 1
    BY <2>3, <2>4, OneMoreInstallation
  <2>6. Cardinality(removed') = Cardinality(removed) + 1 /\ Cardinality(removed) \in Nat
    BY <1>2, <1>4, RemovedCounts
  <2>7. Cardinality(Missed) <= Cardinality(removed)
    BY <1>3, <1>7 DEF MissedInv
  <2>8. Cardinality(Missed) \in Nat /\ Cardinality(Missed') \in Int
    <3>1. IsFiniteSet(Missed \cup {installed[Passed + 1]})
      BY <2>4, InstallationAssumption, FS_Subset, FS_AddElement
    <3>2. IsFiniteSet(Missed')
      BY <2>3, <3>1, FS_Subset
    <3>. QED
      BY <3>2, MissedType, FS_CardinalityType
  <2>. QED
    BY <2>5, <2>6, <2>7, <2>8
<1>. QED
  BY <1>5, <1>7 DEF MissedInv
LEMMA MissedServe ==
  ASSUME TypeOK, MissedInv, Serve
  PROVE  MissedInv'
<1>1. /\ request # None /\ request.answer = "none" /\ request \in Request
      /\ UNCHANGED <<now, skew, installed, listing, installations, steady, removed>>
  BY DEF Serve, TypeOK
<1>2. /\ request' \in Request
      /\ request'.use = request.use /\ request'.page = request.page
      /\ request'.answer \in {"served", "refused"}
      /\ request'.answer = "served" /\ request.use = "page" =>
           /\ request'.items = PageOf(request.page)
           /\ request'.more = (request.page * PageSize < Len(installed))
  <2>1. CASE ~ Accepts(request.made)
    BY <1>1, <2>1 DEF Serve, Request
  <2>2. CASE Accepts(request.made) /\ request.use = "page"
    <3>. DEFINE items == PageOf(request.page)
                more == request.page * PageSize < Len(installed)
    <3>1. request' = [request EXCEPT !.answer = "served", !.items = items, !.more = more]
      BY <1>1, <2>2 DEF Serve
    <3>2. items \in Seq(Installation) /\ more \in BOOLEAN
      <4>1. request.page \in Nat \ {0}
        BY <1>1 DEF Request
      <4>. QED
        BY <4>1, PageType
    <3>. HIDE DEF items, more
    <3>3. /\ request' \in Request
          /\ request'.use = request.use /\ request'.page = request.page
          /\ request'.answer = "served" /\ request'.items = items /\ request'.more = more
      BY <1>1, <3>1, <3>2 DEF Request
    <3>. QED
      BY <3>3 DEF items, more
  <2>3. CASE Accepts(request.made) /\ request.use # "page"
    BY <1>1, <2>3 DEF Serve, Request
  <2>. QED
    BY <2>1, <2>2, <2>3
<1>3. Listed'
  BY <1>1, <1>2 DEF MissedInv, Listed
<1>4. ASSUME listing = "running", request'.answer = "served"
      PROVE  Missed' \subseteq Missed
  <2>. DEFINE page == request.page
              before == MissedBelow(steady, installed, (page - 1) * PageSize, installations)
              taken == installations \cup ToSet(PageOf(page))
  <2>1. request.use = "page" /\ page \in Nat \ {0} /\ page * PageSize \in Int
    BY <1>4, PassedType DEF MissedInv, Listed
  <2>2. Missed = before
    BY <1>1, <1>4 DEF Missed, Passed, Taken, Served
  <2>3. Taken' = taken /\ Passed' = page * PageSize /\ Served'
    BY <1>1, <1>2, <1>4, <2>1 DEF Passed, Taken, Served
  <2>4. /\ request'.more => Missed' = MissedBelow(steady, installed, page * PageSize, taken)
        /\ ~request'.more => Missed' = steady \ taken
    BY <1>1, <1>4, <2>3 DEF Missed
  <2>5. MissedBelow(steady, installed, page * PageSize, taken) \subseteq before
    <3>1. SUFFICES ASSUME NEW i \in steady \ taken,
                          NEW k \in DOMAIN installed, k <= page * PageSize, installed[k] = i
                   PROVE  k <= (page - 1) * PageSize
      BY DEF MissedBelow
    <3>2. ~ ((page - 1) * PageSize < k)
      BY <2>1, <3>1, PageCovers
    <3>3. k \in Int /\ (page - 1) * PageSize \in Int
      BY <1>4, PassedType DEF MissedInv, TypeOK
    <3>. QED
      BY <3>2, <3>3
  <2>6. ~request'.more => steady \ taken \subseteq MissedBelow(steady, installed, page * PageSize, taken)
    <3>1. SUFFICES ASSUME ~request'.more, NEW i \in steady \ taken
                   PROVE  \E k \in DOMAIN installed : k <= page * PageSize /\ installed[k] = i
      BY DEF MissedBelow
    <3>2. PICK k \in DOMAIN installed : installed[k] = i
      BY DEF TypeOK, ToSet
    <3>3. k <= Len(installed) /\ k \in Int /\ Len(installed) \in Int
      BY <3>2 DEF TypeOK
    <3>4. Len(installed) <= page * PageSize
      <4>1. ~ (request.page * PageSize < Len(installed))
        BY <1>2, <1>4, <2>1, <3>1
      <4>2. request.page * PageSize \in Int
        BY <2>1
      <4>. QED
        BY <3>3, <4>1, <4>2
    <3>. QED
      BY <2>1, <3>2, <3>3, <3>4
  <2>. HIDE DEF page, before, taken
  <2>. QED
    BY <2>2, <2>4, <2>5, <2>6
<1>5. ASSUME listing = "running", request'.answer # "served"
      PROVE  Missed' \subseteq Missed
  BY <1>1, <1>2, <1>5 DEF Missed, Passed, Taken, Served
<1>6. listing = "complete" => Missed' \subseteq Missed
  BY <1>1 DEF Missed
<1>. QED
  BY <1>1, <1>3, <1>4, <1>5, <1>6, NothingMissed

LEMMA MissedPageArrives ==
  ASSUME TypeOK, MissedInv, PageArrives
  PROVE  MissedInv'
<1>1. /\ request # None /\ request.use = "page" /\ request.answer = "served"
      /\ UNCHANGED <<now, skew, installed, steady, removed>>
  BY DEF PageArrives
<1>2. listing = "running" /\ request \in Request /\ now \in Nat
  BY <1>1 DEF MissedInv, Listed, TypeOK
<1>3. CASE Refused(Converted(request.items))
  <2>1. listing' = "aborted" /\ request' = None
    BY <1>1, <1>3 DEF PageArrives
  <2>. QED
    BY <1>1, <2>1 DEF MissedInv, Listed
<1>4. CASE ~Refused(Converted(request.items))
  <2>1. /\ installations' = Taken
        /\ IF request.more
           THEN request' = Unanswered("page", request.made, request.page + 1, now) /\ UNCHANGED listing
           ELSE listing' = "complete" /\ request' = None
    BY <1>1, <1>4 DEF PageArrives, Converted, KeyOf, Taken, Served
  <2>2. CASE request.more
    <3>1. request.page + 1 \in Nat \ {0} /\ (request.page + 1) - 1 = request.page /\ request.made \in Int
      BY <1>2 DEF Request
    <3>2. request' \in Request
      BY <1>2, <2>1, <2>2, <3>1, UnansweredType
    <3>3. request'.use = "page" /\ request'.page = request.page + 1 /\ request'.answer = "none"
      BY <2>1, <2>2 DEF Unanswered
    <3>4. Listed'
      BY <1>1, <1>2, <2>1, <2>2, <3>2, <3>3 DEF MissedInv, Listed
    <3>5. Passed' = Passed /\ Taken' = Taken /\ ~Served'
      BY <1>1, <2>1, <3>1, <3>3 DEF Passed, Taken, Served
    <3>6. Missed' = Missed
      BY <1>1, <1>2, <2>1, <2>2, <3>5 DEF Missed
    <3>. QED
      BY <1>1, <1>2, <3>4, <3>6, NothingMissed
  <2>3. CASE ~request.more
    <3>1. Listed'
      BY <1>1, <1>2, <2>1, <2>3 DEF MissedInv, Listed
    <3>2. Missed' = Missed
      BY <1>1, <1>2, <2>1, <2>3 DEF Missed, Served
    <3>. QED
      BY <1>1, <1>2, <3>1, <3>2, NothingMissed
  <2>. QED
    BY <2>2, <2>3
<1>. QED
  BY <1>3, <1>4

LEMMA MissedElsewhere ==
  ASSUME TypeOK, MissedInv, Tick \/ ListingFails \/ LookUp \/ LookUpEnds \/ Over \/ UNCHANGED vars
  PROVE  MissedInv'
<1>1. UNCHANGED <<installed, installations, steady, removed>>
  BY DEF Tick, ListingFails, LookUp, LookUpEnds, Over, vars
<1>2. CASE ListingFails
  <2>1. listing' \in {"aborted", "offline"} /\ request' = None
    BY <1>2 DEF ListingFails
  <2>. QED
    BY <1>1, <2>1 DEF MissedInv, Listed
<1>3. CASE LookUp \/ LookUpEnds
  <2>1. listing' = listing /\ listing # "running"
    BY <1>3 DEF LookUp, LookUpEnds, Serving, MissedInv, Listed
  <2>2. request' = None \/ request'.use = "lookup"
    BY <1>3 DEF LookUp, LookUpEnds, Unanswered
  <2>3. Listed'
    BY <1>1, <2>1, <2>2 DEF MissedInv, Listed
  <2>4. listing = "complete" => Missed' = Missed
    BY <1>1, <2>1 DEF Missed
  <2>. QED
    BY <1>1, <2>1, <2>3, <2>4, NothingMissed
<1>4. CASE Tick \/ Over \/ UNCHANGED vars
  <2>1. UNCHANGED <<listing, request>>
    BY <1>4 DEF Tick, Over, vars
  <2>2. Listed'
    BY <1>1, <2>1 DEF MissedInv, Listed
  <2>3. Missed' = Missed
    BY <1>1, <2>1 DEF Missed, Passed, Taken, Served
  <2>. QED
    BY <1>1, <2>1, <2>2, <2>3, NothingMissed
<1>. QED
  BY <1>2, <1>3, <1>4

\* With any number of pages, and with any installations coming and going while
\* they are read, log_installs_list has missed no more of those that were there
\* all along than there were uninstalled meanwhile.
THEOREM ListingMissesFew == Spec => []FewAreMissed
<1>1. Init => MissedInv
  BY MissedInit
<1>2. IInv /\ MissedInv /\ [Next]_vars => MissedInv'
  <2>1. SUFFICES ASSUME TypeOK, MissedInv, [Next]_vars
                 PROVE  MissedInv'
    BY DEF IInv
  <2>2. CASE Install
    BY <2>1, <2>2, MissedInstall
  <2>3. CASE Uninstall
    BY <2>1, <2>3, MissedUninstall
  <2>4. CASE Serve
    BY <2>1, <2>4, MissedServe
  <2>5. CASE PageArrives
    BY <2>1, <2>5, MissedPageArrives
  <2>6. CASE Tick \/ ListingFails \/ LookUp \/ LookUpEnds \/ Over \/ UNCHANGED vars
    BY <2>1, <2>6, MissedElsewhere
  <2>. QED
    BY <2>1, <2>2, <2>3, <2>4, <2>5, <2>6 DEF Next, GitHub, Server
<1>3. MissedInv => FewAreMissed
  BY DEF MissedInv, Missed, FewAreMissed
<1>. QED
  BY <1>1, <1>2, <1>3, ListingInvariance, PTL DEF Spec
=============================================================================
