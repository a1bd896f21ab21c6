--------------------------- MODULE CredentialProofs ---------------------------
(***************************************************************************)
(* What a request is made with. The first part is the safety of the token  *)
(* cache, for any number of clients, any lifetime and any timeout that     *)
(* does not exceed it. The second is about the command `receive`, for any  *)
(* fixture file and whatever is left over in the environment: what is      *)
(* read of the file, and whose credentials the run acts with.              *)
(***************************************************************************)
EXTENDS InstallationToken, CommandLine, TLAPS

\* A refresh that is under way has not timed out.
InTime ==
  \A c \in Client : client[c] = "refreshing" =>
    since[c] <= now /\ now <= since[c] + Timeout

\* A token on its way to a client was issued after its refresh began.
IssuedSince ==
  \A c \in Client : answer[c] # None =>
    client[c] = "refreshing" /\ answer[c] >= since[c] + Lifetime

\* When a token is stored, it has lost no more than the timeout of its life.
StoredInTime == _token # None => _token >= stored + (Lifetime - Timeout)

TokenIInv == TypeOK /\ InTime /\ IssuedSince /\ StoredInTime /\ SentFresh

LEMMA InitTokenIInv == Init => TokenIInv
  BY NoneAssumption
  DEF Init, TokenIInv, TypeOK, Optional, InTime, IssuedSince, StoredInTime, SentFresh

LEMMA RequestWithTokenIInv ==
  ASSUME TokenIInv, NEW c \in Client, RequestWithToken(c)
  PROVE  TokenIInv'
<1>1. _token \in Nat /\ now <= _token
  BY DEF RequestWithToken, Usable, Expired, TokenIInv, TypeOK, Optional
<1>2. TypeOK'
  BY <1>1 DEF RequestWithToken, Send, TokenIInv, TypeOK, Optional, Request
<1>3. InTime' /\ IssuedSince' /\ StoredInTime'
  BY DEF RequestWithToken, Send, TokenIInv, TypeOK, InTime, IssuedSince, StoredInTime
<1>4. SentFresh'
  BY <1>1 DEF RequestWithToken, Send, TokenIInv, TypeOK, SentFresh
<1>. QED
  BY <1>2, <1>3, <1>4 DEF TokenIInv

LEMMA BeginRefreshIInv ==
  ASSUME TokenIInv, NEW c \in Client, BeginRefresh(c)
  PROVE  TokenIInv'
<1>. USE DEF BeginRefresh, TokenIInv
<1>1. TypeOK'
  BY DEF TypeOK
<1>2. InTime'
  BY TimeoutAssumption DEF TypeOK, InTime
<1>3. IssuedSince'
  BY DEF TypeOK, IssuedSince
<1>4. StoredInTime' /\ SentFresh'
  BY DEF StoredInTime, SentFresh
<1>. QED
  BY <1>1, <1>2, <1>3, <1>4

LEMMA IssueIInv ==
  ASSUME TokenIInv, NEW c \in Client, Issue(c)
  PROVE  TokenIInv'
<1>. USE DEF Issue, TokenIInv
<1>1. TypeOK'
  BY LifetimeAssumption DEF TypeOK, Optional
<1>2. IssuedSince'
  BY LifetimeAssumption DEF TypeOK, InTime, IssuedSince
<1>3. InTime' /\ StoredInTime' /\ SentFresh'
  BY DEF InTime, StoredInTime, SentFresh
<1>. QED
  BY <1>1, <1>2, <1>3

LEMMA EndRefreshIInv ==
  ASSUME TokenIInv, NEW c \in Client, EndRefresh(c)
  PROVE  TokenIInv'
<1>. USE DEF EndRefresh, Send, TokenIInv
<1>1. answer[c] \in Nat
  BY DEF TypeOK, Optional
<1>2. answer[c] >= now + (Lifetime - Timeout)
  BY <1>1, LifetimeAssumption, TimeoutAssumption DEF TypeOK, InTime, IssuedSince
<1>3. TypeOK'
  BY <1>1 DEF TypeOK, Optional, Request
<1>4. InTime' /\ IssuedSince'
  BY DEF TypeOK, InTime, IssuedSince
<1>5. StoredInTime'
  BY <1>1, <1>2, LifetimeAssumption, TimeoutAssumption DEF TypeOK, StoredInTime
<1>6. SentFresh'
  <2>1. now <= answer[c]
    BY <1>1, <1>2, LifetimeAssumption, TimeoutAssumption DEF TypeOK
  <2>. QED
    BY <2>1 DEF TypeOK, SentFresh
<1>. QED
  BY <1>3, <1>4, <1>5, <1>6

\* RefreshFails and RequestEnds only forget.
LEMMA ClientIdleIInv ==
  ASSUME TokenIInv, NEW c \in Client, RefreshFails(c) \/ RequestEnds(c)
  PROVE  TokenIInv'
<1>. USE DEF RefreshFails, RequestEnds, TokenIInv
<1>1. TypeOK'
  BY DEF TypeOK, Optional
<1>2. InTime' /\ IssuedSince'
  BY DEF TypeOK, InTime, IssuedSince
<1>3. StoredInTime' /\ SentFresh'
  BY DEF TypeOK, StoredInTime, SentFresh
<1>. QED
  BY <1>1, <1>2, <1>3

LEMMA TickIInv ==
  ASSUME TokenIInv, Tick
  PROVE  TokenIInv'
<1>. USE DEF Tick, TokenIInv
<1>1. TypeOK'
  BY DEF TypeOK
<1>2. InTime'
  BY TimeoutAssumption DEF TypeOK, InTime
<1>3. IssuedSince' /\ StoredInTime' /\ SentFresh'
  BY DEF IssuedSince, StoredInTime, SentFresh
<1>. QED
  BY <1>1, <1>2, <1>3

LEMMA NextTokenIInv == TokenIInv /\ [Next]_vars => TokenIInv'
<1>. SUFFICES ASSUME TokenIInv, [Next]_vars PROVE TokenIInv'
  OBVIOUS
<1>1. ASSUME NEW c \in Client, ClientStep(c) PROVE TokenIInv'
  BY <1>1, RequestWithTokenIInv, BeginRefreshIInv, IssueIInv, EndRefreshIInv,
     ClientIdleIInv DEF ClientStep
<1>2. CASE Tick
  BY <1>2, TickIInv
<1>3. CASE UNCHANGED vars
  BY <1>3 DEF vars, TokenIInv, TypeOK, InTime, IssuedSince, StoredInTime, SentFresh
<1>. QED
  BY <1>1, <1>2, <1>3 DEF Next

\* The inductive invariant holds in every reachable state.
THEOREM TokenInvariance == Spec => []TokenIInv
  BY InitTokenIInv, NextTokenIInv, PTL DEF Spec

\* Every variable of the token cache keeps its type.
THEOREM TokenTypeCorrect == Spec => []TypeOK
<1>1. TokenIInv => TypeOK
  BY DEF TokenIInv
<1>. QED
  BY <1>1, TokenInvariance, PTL

\* No request made by _make_request carries a token that expired before it left.
THEOREM TokensSentAreFresh == Spec => []SentFresh
<1>1. TokenIInv => SentFresh
  BY DEF TokenIInv
<1>. QED
  BY <1>1, TokenInvariance, PTL

\* Once a token is stored, no refresh begins before Lifetime - Timeout is over.
THEOREM RefreshesAreRare == Spec => RefreshedRarely
<1> DEFINE Rare ==
      \A c \in Client :
        client[c] = "idle" /\ client'[c] = "refreshing" /\ _token # None
          => now > stored + (Lifetime - Timeout)
<1>1. TokenIInv /\ [Next]_vars => [Rare]_vars
  <2>. SUFFICES ASSUME TokenIInv, Next, NEW c \in Client,
                       client[c] = "idle", client'[c] = "refreshing", _token # None
                PROVE  now > stored + (Lifetime - Timeout)
    OBVIOUS
  <2>1. PICK d \in Client : BeginRefresh(d)
    BY DEF Next, ClientStep, RequestWithToken, Issue, EndRefresh, RefreshFails,
           RequestEnds, Tick, Send, TokenIInv, TypeOK
  <2>2. _token \in Nat /\ now > _token
    BY <2>1 DEF BeginRefresh, Usable, Expired, TokenIInv, TypeOK, Optional
  <2>3. _token >= stored + (Lifetime - Timeout)
    BY DEF TokenIInv, StoredInTime
  <2>. QED
    BY <2>2, <2>3, LifetimeAssumption, TimeoutAssumption DEF TokenIInv, TypeOK
<1>. QED
  BY <1>1, TokenInvariance, PTL DEF Spec, RefreshedRarely

-----------------------------------------------------------------------------
(* Reading an event from a fixture file *)

\* A probe is only tried when those before it could make nothing of the file, and
\* reads it from the start.
Tried ==
  /\ stage \in {"yaml", "jsonl", "json"} => fd = "start"
  /\ stage \in {"jsonl", "json"} => ProbeYaml.error = "ValueError"
  /\ stage = "json" => ProbeJsonl.error = "ValueError"

\* A file has headers only if it begins with a list.
HeadersInFile == fileHeaders = NoHeaders \/ HeadersFirst

\* What has been read of a file in one of the formats is an object.
ObjectRead ==
  WellFormed /\ stage \in {"name", "augment", "validate", "build", "done"} => payload = "object"

\* What becomes an object, and the name that goes with it.
Objects == {"object", "objectText"}
Name == IF event THEN "good" ELSE fileHeaders.event

\* The headers that go with an object are those of the file, named, then completed.
HeadersOfFile ==
  payload \in Objects =>
    /\ stage = "name" => headers = fileHeaders
    /\ stage = "augment" =>
         class = "GitHubWebhookEvent" /\ ~BadName /\ headers = [fileHeaders EXCEPT !.event = Name]
    /\ stage = "validate" =>
         /\ class = "GitHubWebhookEvent" /\ ~BadName
         /\ headers.event = Name
         /\ \A h \in DOMAIN NoHeaders \ {"event"} : headers[h] = AugmentOne(fileHeaders[h])
    /\ stage \in {"build", "done"} =>
         /\ ~BadName /\ headers.event = Name
         /\ class = "GitHubWebhookEvent" => ~BadHeader /\ headers.event = "good"

FixtureIInv ==
  /\ FixtureTypeOK
  /\ Tried /\ HeadersInFile /\ ObjectRead /\ HeadersOfFile
  /\ FormatsAreRead /\ EventsAreSound

\* What a probe returns has a shape.
LEMMA ResultTypes ==
  ASSUME file \in Content
  PROVE  /\ ProbeYaml.event \in Shape /\ ProbeJsonl.event \in Shape /\ ProbeJson.event \in Shape
         /\ ProbeYaml.headers \in Shape \cup {"none"}
         /\ ProbeJsonl.headers \in Shape \cup {"none"}
         /\ ProbeJson.headers \in Shape \cup {"none"}
         /\ ProbeYaml.error \in {"none", "ValueError", "ScannerError"}
         /\ ProbeJsonl.error \in {"none", "ValueError"}
         /\ ProbeJson.error \in {"none", "ValueError"}
<1>1. \A i \in Nat \ {0} : Document(i) \in Shape /\ Line(i) \in Shape \cup {"bad"}
  BY DEF Content, Document, Line, Shape
<1>2. /\ Document(1) \in Shape /\ Document(2) \in Shape
      /\ Line(1) \in Shape \cup {"bad"} /\ Line(2) \in Shape \cup {"bad"}
  BY <1>1
<1>. QED
  BY <1>2 DEF ProbeYaml, ProbeJsonl, ProbeJson, OneOrTwo, Fails, Reads, ReRaised, Content, Shape

\* A file in one of the formats is read by one of the probes, and left as it is by
\* those before.
LEMMA WellFormedIsRead ==
  ASSUME file \in Content, Consistent(file), WellFormed
  PROVE  \/ /\ ProbeYaml.error = "none" /\ ProbeYaml.event = "object"
            /\ ProbeYaml.headers \in {"none", "list"}
         \/ /\ ProbeYaml.error = "ValueError" /\ ProbeJsonl.error = "none"
            /\ ProbeJsonl.event = "object" /\ ProbeJsonl.headers \in {"none", "list"}
         \/ /\ ProbeYaml.error = "ValueError" /\ ProbeJsonl.error = "ValueError"
            /\ ProbeJson = Reads("none", "object")
<1>1. CASE file.yaml = "none" /\ file.docs = <<"object">>
  <2>1. Document(1) = "object" /\ Document(2) = "null" /\ Document(3) = "null"
    BY <1>1 DEF Document
  <2>. QED
    BY <1>1, <2>1 DEF ProbeYaml, OneOrTwo, Reads
<1>2. CASE file.yaml = "none" /\ file.docs = <<"list", "object">>
  <2>1. Document(1) = "list" /\ Document(2) = "object" /\ Document(3) = "null"
    BY <1>2 DEF Document
  <2>. QED
    BY <1>2, <2>1 DEF ProbeYaml, OneOrTwo, Reads
<1>3. CASE file.yaml = "ParserError" /\ file.lines = <<"list", "object">>
  <2>1. Line(1) = "list" /\ Line(2) = "object" /\ Len(file.lines) = 2
    BY <1>3 DEF Line
  <2>. QED
    BY <1>3, <2>1 DEF ProbeYaml, ProbeJsonl, OneOrTwo, Fails, Reads, ReRaised
<1>4. CASE file.yaml = "ParserError" /\ file.json = "object"
  <2>1. ProbeYaml.error = "ValueError" /\ ProbeJson = Reads("none", "object")
    BY <1>4 DEF ProbeYaml, ProbeJson, Fails, ReRaised
  <2>2. CASE Len(file.lines) > 2 \/ Line(1) = "bad"
    BY <2>1, <2>2 DEF ProbeJsonl, Fails
  <2>3. CASE ~(Len(file.lines) > 2 \/ Line(1) = "bad")
    <3>1. 1 <= Len(file.lines) /\ file.lines[1] # "bad" /\ file.lines # <<>>
      BY <2>3 DEF Line
    <3>2. Line(1) = "object"
      BY <1>4, <3>1 DEF Line, Consistent
    <3>3. Line(2) = "bad"
      BY <1>4, <3>1 DEF Line, Consistent, Content
    <3>. QED
      BY <2>1, <2>3, <3>2, <3>3 DEF ProbeJsonl, OneOrTwo, Reads
  <2>. QED
    BY <2>2, <2>3
<1>. QED
  BY <1>1, <1>2, <1>3, <1>4 DEF WellFormed

\* Whichever probe reads an object, the headers with it are all that the file has.
LEMMA HeadersAreThose ==
  ASSUME file \in Content, Consistent(file), fileHeaders \in Headers, HeadersInFile
  PROVE  /\ ProbeYaml.error = "none" /\ ProbeYaml.event \in Objects
              => FieldsOf(ProbeYaml.headers) = fileHeaders
         /\ ProbeYaml.error = "ValueError" /\ ProbeJsonl.error = "none"
              /\ ProbeJsonl.event \in Objects
              => FieldsOf(ProbeJsonl.headers) = fileHeaders
         /\ ProbeYaml.error = "ValueError" /\ ProbeJsonl.error = "ValueError"
              /\ ProbeJson.error = "none"
              => FieldsOf(ProbeJson.headers) = fileHeaders
<1>1. \A i \in {1, 2, 3} : Document(i) \in Shape /\ Line(i) \in Shape \cup {"bad"}
  BY DEF Content, Document, Line, Shape
<1>2. /\ Document(1) \in Shape /\ Document(2) \in Shape
      /\ Line(1) \in Shape \cup {"bad"} /\ Line(2) \in Shape \cup {"bad"}
  BY <1>1
<1>3. ASSUME ProbeYaml.error = "none", ProbeYaml.event \in Objects
      PROVE  FieldsOf(ProbeYaml.headers) = fileHeaders
  <2>1. file.yaml = "none"
    BY <1>3 DEF ProbeYaml, Fails, ReRaised, Content
  <2>2. \/ ProbeYaml.headers = "none" /\ Document(1) \in Objects
        \/ ProbeYaml.headers = Document(1)
    BY <1>3, <2>1 DEF ProbeYaml, OneOrTwo, Fails, Reads
  <2>. QED
    BY <2>1, <2>2 DEF FieldsOf, HeadersInFile, HeadersFirst, Objects
<1>4. ASSUME ProbeYaml.error = "ValueError", ProbeJsonl.error = "none",
             ProbeJsonl.event \in Objects
      PROVE  FieldsOf(ProbeJsonl.headers) = fileHeaders
  <2>1. Line(1) # "bad" /\ ~(Len(file.lines) > 2)
    BY <1>4 DEF ProbeJsonl, Fails
  <2>2. \/ ProbeJsonl.headers = "none" /\ Line(1) \in Objects
        \/ ProbeJsonl.headers = Line(1)
    BY <1>4, <2>1 DEF ProbeJsonl, OneOrTwo, Fails, Reads
  <2>3. file.yaml = "none" => Document(1) = "null"
    <3>1. Len(file.docs) <= 2
      <4>1. Len(file.lines) \in Nat /\ Len(file.docs) \in Nat
        BY DEF Content
      <4>2. 1 <= Len(file.lines) /\ file.lines[1] # "bad"
        BY <2>1 DEF Line
      <4>3. ~(Len(file.lines) > 2) /\ 1 <= Len(file.lines)
        BY <2>1, <4>2
      <4>4. \A n \in Nat : ~(n > 2) /\ 1 <= n => n \in 1..2
        OBVIOUS
      <4>5. Len(file.lines) \in 1..2
        BY <4>1, <4>3, <4>4
      <4>. QED
        BY <4>1, <4>2, <4>5 DEF Consistent
    <3>2. Document(3) = "null"
      BY <3>1 DEF Document
    <3>. QED
      BY <1>4, <3>2 DEF ProbeYaml, OneOrTwo, Fails, Reads
  <2>. QED
    BY <2>2, <2>3 DEF FieldsOf, HeadersInFile, HeadersFirst, Objects
<1>5. ASSUME ProbeYaml.error = "ValueError", ProbeJsonl.error = "ValueError", ProbeJson.error = "none"
      PROVE  FieldsOf(ProbeJson.headers) = fileHeaders
  <2>1. file.json = "object" /\ ProbeJson.headers = "none"
    BY <1>5 DEF ProbeJson, Fails, Reads
  <2>2. CASE file.yaml = "none"
    <3>1. file.docs = <<"object">>
      BY <2>1, <2>2 DEF Consistent
    <3>2. Document(1) = "object"
      BY <3>1 DEF Document
    <3>. QED
      BY <2>1, <2>2, <3>2 DEF FieldsOf, HeadersInFile, HeadersFirst
  <2>3. CASE file.yaml # "none"
    <3>1. Line(1) \in {"bad", "object"}
      BY <2>1 DEF Consistent, Line, Content
    <3>. QED
      BY <2>1, <2>3, <3>1 DEF FieldsOf, HeadersInFile, HeadersFirst
  <2>. QED
    BY <2>2, <2>3
<1>. QED
  BY <1>3, <1>4, <1>5

LEMMA InitFixtureIInv == FixtureInit => FixtureIInv
  BY DEF FixtureInit, FixtureIInv, FixtureTypeOK, Tried, HeadersInFile, ObjectRead, HeadersOfFile,
         FormatsAreRead, EventsAreSound, NoHeaders, Headers, Header, Stage, Error, Shape

\* A probe keeps the invariant if it reads what is right.
LEMMA ReadingIInv ==
  ASSUME FixtureIInv,
         NEW this \in {"yaml", "jsonl", "json"}, NEW next \in {"jsonl", "json", "failed"},
         NEW result, Probe(this, result, next),
         this = "json" \/ next # "failed",
         result.error \in Error, result.event \in Shape, result.headers \in Shape \cup {"none"},
         result.error = "none" /\ result.event \in Objects =>
           FieldsOf(result.headers) = fileHeaders,
         WellFormed =>
           \/ /\ result.error = "none" /\ result.event = "object"
              /\ result.headers \in {"none", "list"}
           \/ result.error = "ValueError" /\ this # "json"
  PROVE  /\ FixtureTypeOK' /\ HeadersInFile' /\ ObjectRead' /\ HeadersOfFile'
         /\ FormatsAreRead' /\ EventsAreSound'
<1>1. FixtureTypeOK /\ fileHeaders \in Headers /\ NoHeaders \in Headers
  BY DEF FixtureIInv, FixtureTypeOK, NoHeaders, Headers, Header
<1>2. UNCHANGED <<file, fileHeaders, class, event>>
  BY DEF Probe
<1>3. FieldsOf(result.headers) \in Headers
  BY <1>1 DEF FieldsOf
<1>4. TransformErrors(result.headers) \subseteq Error
  BY DEF TransformErrors, Shape, Error
<1>5. FixtureTypeOK'
  BY <1>1, <1>2, <1>3, <1>4 DEF FixtureTypeOK, Probe, Fail, Rewound, Stage
<1>6. HeadersInFile'
  BY <1>2 DEF FixtureIInv, HeadersInFile, HeadersFirst, Document, Line
<1>7. WellFormed' <=> WellFormed
  BY <1>2 DEF WellFormed
<1>8. CASE result.error = "none" /\ stage' = "name"
  <2>1. headers' = FieldsOf(result.headers) /\ payload' = result.event
    BY <1>8 DEF Probe, Fail
  <2>2. ObjectRead' /\ FormatsAreRead' /\ EventsAreSound'
    BY <1>7, <1>8, <2>1 DEF ObjectRead, FormatsAreRead, EventsAreSound
  <2>3. HeadersOfFile'
    BY <1>2, <1>8, <2>1 DEF HeadersOfFile
  <2>. QED
    BY <1>5, <1>6, <2>2, <2>3
<1>9. CASE result.error = "none" /\ stage' # "name"
  <2>1. stage' = "failed" /\ TransformErrors(result.headers) # {"none"}
    BY <1>9 DEF Probe, Fail
  <2>2. ~WellFormed
    BY <1>9, <2>1 DEF TransformErrors
  <2>3. ObjectRead' /\ FormatsAreRead' /\ EventsAreSound' /\ HeadersOfFile'
    BY <1>7, <2>1, <2>2 DEF ObjectRead, FormatsAreRead, EventsAreSound, HeadersOfFile
  <2>. QED
    BY <1>5, <1>6, <2>3
<1>10. CASE result.error # "none"
  <2>1. /\ stage' \in {"jsonl", "json", "failed"}
        /\ stage' = "failed" => ~WellFormed
    BY <1>10 DEF Probe, Fail
  <2>2. ObjectRead' /\ FormatsAreRead' /\ EventsAreSound' /\ HeadersOfFile'
    BY <1>7, <2>1 DEF ObjectRead, FormatsAreRead, EventsAreSound, HeadersOfFile
  <2>. QED
    BY <1>5, <1>6, <2>2
<1>. QED
  BY <1>8, <1>9, <1>10

\* Each probe reads what is right, and from the start.
LEMMA ParseFixtureIInv ==
  ASSUME FixtureIInv, ParseFixture
  PROVE  FixtureIInv'
<1>1. file \in Content /\ Consistent(file) /\ fileHeaders \in Headers /\ HeadersInFile
  BY FileAssumption DEF FixtureIInv, FixtureTypeOK
<1>2. UNCHANGED <<file, fileHeaders, class, event>>
  BY DEF ParseFixture, Probe
<1>3. stage \in {"yaml", "jsonl", "json"} /\ fd = "start"
  BY DEF FixtureIInv, Tried, ParseFixture, Probe
<1>4. /\ ProbeYaml' = ProbeYaml
      /\ ProbeJsonl' = ProbeJsonl
  BY <1>2 DEF ProbeYaml, ProbeJsonl, Document, Line
<1>5. CASE Probe("yaml", ProbeYaml, "jsonl")
  <2>1. /\ ProbeYaml.error \in Error /\ ProbeYaml.event \in Shape
        /\ ProbeYaml.headers \in Shape \cup {"none"}
    BY <1>1, ResultTypes DEF Error
  <2>2. ProbeYaml.error = "none" /\ ProbeYaml.event \in Objects =>
          FieldsOf(ProbeYaml.headers) = fileHeaders
    BY <1>1, HeadersAreThose
  <2>3. WellFormed =>
          \/ /\ ProbeYaml.error = "none" /\ ProbeYaml.event = "object"
             /\ ProbeYaml.headers \in {"none", "list"}
          \/ ProbeYaml.error = "ValueError"
    BY <1>1, WellFormedIsRead
  <2>4. Tried'
    BY <1>4, <1>5 DEF Probe, Fail, Tried, Rewound
  <2>. QED
    BY <1>5, <2>1, <2>2, <2>3, <2>4, ReadingIInv DEF FixtureIInv
<1>6. CASE Probe("jsonl", ProbeJsonl, "json")
  <2>1. /\ ProbeJsonl.error \in Error /\ ProbeJsonl.event \in Shape
        /\ ProbeJsonl.headers \in Shape \cup {"none"}
    BY <1>1, ResultTypes DEF Error
  <2>2. ProbeYaml.error = "ValueError"
    BY <1>6 DEF FixtureIInv, Tried, Probe
  <2>3. ProbeJsonl.error = "none" /\ ProbeJsonl.event \in Objects =>
          FieldsOf(ProbeJsonl.headers) = fileHeaders
    BY <1>1, <2>2, HeadersAreThose
  <2>4. WellFormed =>
          \/ /\ ProbeJsonl.error = "none" /\ ProbeJsonl.event = "object"
             /\ ProbeJsonl.headers \in {"none", "list"}
          \/ ProbeJsonl.error = "ValueError"
    BY <1>1, <2>2, WellFormedIsRead
  <2>5. Tried'
    BY <1>4, <1>6, <2>2 DEF Probe, Fail, Tried, Rewound
  <2>. QED
    BY <1>6, <2>1, <2>3, <2>4, <2>5, ReadingIInv DEF FixtureIInv
<1>7. CASE Probe("json", ProbeJson, "failed")
  <2>1. /\ ProbeJson.error \in Error /\ ProbeJson.event \in Shape
        /\ ProbeJson.headers \in Shape \cup {"none"}
    BY <1>1, ResultTypes DEF Error
  <2>2. ProbeYaml.error = "ValueError" /\ ProbeJsonl.error = "ValueError"
    BY <1>7 DEF FixtureIInv, Tried, Probe
  <2>3. ProbeJson.error = "none" /\ ProbeJson.event \in Objects =>
          FieldsOf(ProbeJson.headers) = fileHeaders
    BY <1>1, <2>2, HeadersAreThose
  <2>4. WellFormed =>
          ProbeJson.error = "none" /\ ProbeJson.event = "object" /\ ProbeJson.headers \in {"none", "list"}
    BY <1>1, <2>2, WellFormedIsRead DEF Reads
  <2>5. Tried'
    BY <1>7 DEF Probe, Fail, Tried, Rewound
  <2>. QED
    BY <1>7, <2>1, <2>3, <2>4, <2>5, ReadingIInv DEF FixtureIInv
<1>. QED
  BY <1>3, <1>5, <1>6, <1>7 DEF ParseFixture, Remaining

LEMMA NameEventIInv ==
  ASSUME FixtureIInv, NameEvent
  PROVE  FixtureIInv'
<1>1. UNCHANGED <<file, fileHeaders, class, event, fd>> /\ stage = "name"
  BY DEF NameEvent, Parameters
<1>2. FixtureTypeOK /\ headers \in Headers
  BY DEF FixtureIInv, FixtureTypeOK
<1>3. [headers EXCEPT !.event = IF event THEN "good" ELSE headers.event] \in Headers
  BY <1>2 DEF Headers, Header
<1>4. payload' = payload /\ stage' \in {"failed", "build", "augment"}
  BY DEF NameEvent, Fail
<1>5. FixtureTypeOK'
  BY <1>1, <1>2, <1>3, <1>4 DEF FixtureTypeOK, NameEvent, Fail, Stage, Error
<1>6. Tried' /\ ObjectRead' /\ EventsAreSound'
  BY <1>1, <1>4 DEF FixtureIInv, Tried, ObjectRead, WellFormed, EventsAreSound
<1>7. HeadersInFile'
  BY <1>1 DEF FixtureIInv, HeadersInFile, HeadersFirst, Document, Line
<1>8. payload \in Objects => headers = fileHeaders
  BY <1>1 DEF FixtureIInv, HeadersOfFile
<1>9. WellFormed' => WellFormed /\ payload = "object"
  BY <1>1 DEF WellFormed, FixtureIInv, ObjectRead
<1>10. CASE AmbiguousName \/ (~event /\ headers.event = "missing")
  <2>1. stage' = "failed"
    BY <1>10 DEF NameEvent, AmbiguousName, Fail
  <2>2. payload = "object" => BadName
    BY <1>2, <1>8, <1>10 DEF AmbiguousName, BadName, Objects, FixtureTypeOK
  <2>3. FormatsAreRead' /\ HeadersOfFile'
    BY <1>1, <1>9, <2>1, <2>2 DEF FormatsAreRead, HeadersOfFile, BadName
  <2>. QED
    BY <1>5, <1>6, <1>7, <2>3 DEF FixtureIInv
<1>11. CASE ~AmbiguousName /\ (event \/ headers.event # "missing")
  <2>1. /\ headers' = [headers EXCEPT !.event = IF event THEN "good" ELSE headers.event]
        /\ stage' = IF class = "GitHubEvent" THEN "build" ELSE "augment"
    BY <1>11 DEF NameEvent, AmbiguousName, Fail
  <2>2. class \in {"GitHubEvent", "GitHubWebhookEvent"} /\ event \in BOOLEAN
    BY <1>2 DEF FixtureTypeOK
  <2>3. payload \in Objects =>
          ~BadName /\ headers' = [fileHeaders EXCEPT !.event = Name] /\ headers'.event = Name
    BY <1>2, <1>8, <1>11, <2>1, <2>2 DEF AmbiguousName, BadName, Name, Headers
  <2>4. FormatsAreRead'
    BY <2>1 DEF FormatsAreRead
  <2>5. HeadersOfFile'
    BY <1>1, <1>4, <2>1, <2>2, <2>3 DEF HeadersOfFile, BadName, BadHeader, Name
  <2>. QED
    BY <1>5, <1>6, <1>7, <2>4, <2>5 DEF FixtureIInv
<1>. QED
  BY <1>10, <1>11

LEMMA AugmentIInv ==
  ASSUME FixtureIInv, Augment
  PROVE  FixtureIInv'
<1>1. /\ UNCHANGED <<file, fileHeaders, class, event, fd, error, payload>>
      /\ stage = "augment" /\ stage' = "validate"
      /\ headers' = [h \in DOMAIN headers |-> AugmentOne(headers[h])]
  BY DEF Augment, Parameters
<1>2. FixtureTypeOK /\ headers \in Headers /\ fileHeaders \in Headers
  BY DEF FixtureIInv, FixtureTypeOK
<1>3. DOMAIN headers = {"event", "content_type", "user_agent", "delivery"}
      /\ DOMAIN NoHeaders = {"event", "content_type", "user_agent", "delivery"}
  BY <1>2 DEF Headers, NoHeaders
<1>4. headers' \in Headers
  BY <1>1, <1>2, <1>3 DEF Headers, Header, AugmentOne
<1>5. FixtureTypeOK'
  BY <1>1, <1>2, <1>4 DEF FixtureTypeOK, Stage
<1>6. Tried' /\ ObjectRead' /\ EventsAreSound' /\ FormatsAreRead'
  BY <1>1 DEF FixtureIInv, Tried, ObjectRead, WellFormed, EventsAreSound, FormatsAreRead
<1>7. HeadersInFile'
  BY <1>1 DEF FixtureIInv, HeadersInFile, HeadersFirst, Document, Line
<1>8. ASSUME payload \in Objects
      PROVE  /\ class = "GitHubWebhookEvent" /\ ~BadName
             /\ headers'.event = Name
             /\ \A h \in DOMAIN NoHeaders \ {"event"} : headers'[h] = AugmentOne(fileHeaders[h])
  <2>1. /\ class = "GitHubWebhookEvent" /\ ~BadName
        /\ headers = [fileHeaders EXCEPT !.event = Name]
    BY <1>1, <1>8 DEF FixtureIInv, HeadersOfFile
  <2>2. headers.event = Name /\ \A h \in DOMAIN NoHeaders \ {"event"} : headers[h] = fileHeaders[h]
    BY <1>2, <1>3, <2>1 DEF Headers
  <2>3. Name # "missing"
    BY <2>1 DEF Name, BadName
  <2>4. headers'.event = Name
    BY <1>1, <1>3, <2>2, <2>3 DEF AugmentOne
  <2>. QED
    BY <1>1, <1>3, <2>1, <2>2, <2>4
<1>9. HeadersOfFile'
  BY <1>1, <1>8 DEF HeadersOfFile, BadName, AugmentOne, NoHeaders, Name
<1>. QED
  BY <1>5, <1>6, <1>7, <1>9 DEF FixtureIInv

LEMMA ValidateIInv ==
  ASSUME FixtureIInv, Validate
  PROVE  FixtureIInv'
<1>1. UNCHANGED <<file, fileHeaders, class, event, fd, payload, headers>> /\ stage = "validate"
  BY DEF Validate, Parameters, Fail
<1>2. FixtureTypeOK /\ headers \in Headers /\ fileHeaders \in Headers
  BY DEF FixtureIInv, FixtureTypeOK
<1>3. DOMAIN headers = {"event", "content_type", "user_agent", "delivery"}
      /\ DOMAIN NoHeaders = {"event", "content_type", "user_agent", "delivery"}
  BY <1>2 DEF Headers, NoHeaders
<1>4. stage' \in {"build", "failed"}
  BY DEF Validate, Fail
<1>5. FixtureTypeOK'
  BY <1>1, <1>2 DEF FixtureTypeOK, Validate, HeaderErrors, Fail, Stage, Error
<1>6. Tried' /\ ObjectRead' /\ EventsAreSound'
  BY <1>1, <1>4 DEF FixtureIInv, Tried, ObjectRead, WellFormed, EventsAreSound
<1>7. HeadersInFile'
  BY <1>1 DEF FixtureIInv, HeadersInFile, HeadersFirst, Document, Line
<1>8. ASSUME payload \in Objects
      PROVE  /\ class = "GitHubWebhookEvent" /\ ~BadName
             /\ headers.event = Name /\ Name \in {"good", "other"}
             /\ \A h \in DOMAIN NoHeaders \ {"event"} : headers[h] = AugmentOne(fileHeaders[h])
  <2>1. /\ class = "GitHubWebhookEvent" /\ ~BadName
        /\ headers.event = Name
        /\ \A h \in DOMAIN NoHeaders \ {"event"} : headers[h] = AugmentOne(fileHeaders[h])
    BY <1>1, <1>8 DEF FixtureIInv, HeadersOfFile
  <2>2. fileHeaders.event \in {"good", "other", "missing"}
    BY <1>2 DEF Headers, Header
  <2>. QED
    BY <2>1, <2>2 DEF Name, BadName
<1>9. \A h \in DOMAIN NoHeaders : fileHeaders[h] \in {"good", "bad", "other", "missing"}
  BY <1>2, <1>3 DEF Headers, Header
<1>10. CASE payload \notin Objects
  <2>1. HeadersOfFile' /\ FormatsAreRead'
    BY <1>1, <1>10 DEF HeadersOfFile, FixtureIInv, ObjectRead, FormatsAreRead, WellFormed, Objects
  <2>. QED
    BY <1>5, <1>6, <1>7, <2>1 DEF FixtureIInv
<1>11. CASE payload \in Objects /\ \A h \in DOMAIN headers : headers[h] = "good"
  <2>1. stage' = "build"
    <3>1. \A i \in 1..4 : Checked[i] \in DOMAIN headers
      BY <1>3 DEF Checked
    <3>. QED
      BY <1>11, <3>1 DEF Validate
  <2>2. Name = "good"
    BY <1>3, <1>8, <1>11
  <2>3. fileHeaders.event \in {"good", "missing"}
    BY <1>8, <1>11, <2>2 DEF Name, BadName
  <2>4. ~BadHeader
    BY <1>3, <1>8, <1>9, <1>11, <2>3 DEF BadHeader, AugmentOne
  <2>5. HeadersOfFile'
    BY <1>1, <1>8, <1>11, <2>1, <2>2, <2>4 DEF HeadersOfFile, BadName, BadHeader, NoHeaders, Name
  <2>6. FormatsAreRead'
    BY <2>1 DEF FormatsAreRead
  <2>. QED
    BY <1>5, <1>6, <1>7, <2>5, <2>6 DEF FixtureIInv
<1>12. CASE payload \in Objects /\ \E h \in DOMAIN headers : headers[h] # "good"
  <2>1. stage' = "failed"
    BY <1>12 DEF Validate, Fail
  <2>2. BadHeader
    <3>1. PICK h \in DOMAIN headers : headers[h] # "good"
      BY <1>12
    <3>2. CASE h = "event"
      <4>1. fileHeaders.event = "other"
        BY <1>8, <1>12, <3>1, <3>2 DEF Name
      <4>. QED
        BY <1>3, <1>8, <1>12, <4>1 DEF BadHeader
    <3>3. CASE h # "event"
      BY <1>3, <1>8, <1>9, <1>12, <3>1, <3>3 DEF BadHeader, AugmentOne
    <3>. QED
      BY <3>2, <3>3
  <2>3. FormatsAreRead'
    BY <1>1, <2>2 DEF FormatsAreRead, BadHeader, NoHeaders
  <2>4. HeadersOfFile'
    BY <2>1 DEF HeadersOfFile
  <2>. QED
    BY <1>5, <1>6, <1>7, <2>3, <2>4 DEF FixtureIInv
<1>. QED
  BY <1>10, <1>11, <1>12

LEMMA BuildIInv ==
  ASSUME FixtureIInv, Build
  PROVE  FixtureIInv'
<1>1. UNCHANGED <<file, fileHeaders, class, event, fd, headers>> /\ stage = "build"
  BY DEF Build, Parameters, Fail
<1>2. FixtureTypeOK /\ payload \in Shape
  BY DEF FixtureIInv, FixtureTypeOK
<1>3. ConversionError(payload) \in Error /\ (ConversionError(payload) = "none" <=> payload \in Objects)
  BY <1>2 DEF ConversionError, Shape, Error, Objects
<1>4. FixtureTypeOK'
  BY <1>1, <1>2, <1>3 DEF FixtureTypeOK, Build, Fail, Stage, Shape
<1>5. \/ payload \in Objects /\ stage' = "done" /\ payload' = "object"
      \/ payload \notin Objects /\ stage' = "failed" /\ payload' = payload
  BY <1>3 DEF Build, Fail
<1>6. HeadersInFile'
  BY <1>1 DEF FixtureIInv, HeadersInFile, HeadersFirst, Document, Line
<1>7. payload \in Objects =>
        /\ ~BadName /\ headers.event = Name
        /\ class = "GitHubWebhookEvent" => ~BadHeader /\ headers.event = "good"
  BY <1>1 DEF FixtureIInv, HeadersOfFile
<1>8. WellFormed' => payload \in Objects
  BY <1>1 DEF FixtureIInv, ObjectRead, WellFormed, Objects
<1>9. Tried' /\ ObjectRead' /\ FormatsAreRead'
  BY <1>1, <1>5, <1>8 DEF Tried, ObjectRead, FormatsAreRead
<1>10. EventsAreSound' /\ HeadersOfFile'
  BY <1>1, <1>5, <1>7 DEF EventsAreSound, HeadersOfFile, BadName, BadHeader, NoHeaders, Name
<1>. QED
  BY <1>4, <1>6, <1>9, <1>10 DEF FixtureIInv

LEMMA NextFixtureIInv == FixtureIInv /\ [FixtureNext]_fixtureVars => FixtureIInv'
<1>. SUFFICES ASSUME FixtureIInv, [FixtureNext]_fixtureVars PROVE FixtureIInv'
  OBVIOUS
<1>1. CASE UNCHANGED fixtureVars
  BY <1>1
  DEF fixtureVars, FixtureIInv, FixtureTypeOK, Tried, ProbeYaml, ProbeJsonl, HeadersInFile,
      HeadersFirst, Document, Line, ObjectRead, WellFormed, HeadersOfFile, BadName, BadHeader,
      Name, FormatsAreRead, EventsAreSound
<1>. QED
  BY <1>1, ParseFixtureIInv, NameEventIInv, AugmentIInv, ValidateIInv, BuildIInv DEF FixtureNext

\* Whatever the file, and whatever the probes before have made of it, the invariant
\* of the reading holds.
THEOREM FixtureInvariance == FixtureSpec => []FixtureIInv
<1>. QED
  BY InitFixtureIInv, NextFixtureIInv, PTL DEF FixtureSpec

-----------------------------------------------------------------------------
(* The command *)

\* In steps of the command an event is read as it is read alone: `receive` builds
\* nothing but from_fixture_fd's event.
THEOREM CommandReadsEvents == CommandSpec => FixtureSpec
<1>1. CommandInit => FixtureInit
  BY DEF CommandInit
<1>2. [CommandNext]_<<fixtureVars, own>> => [FixtureNext]_fixtureVars
  BY DEF CommandNext, CheckOptions, ReadEvent, EventRead, UpdateEnvironment, LoadRouters, MakeConfig,
         MakeApp, LookUpFails, HandlersEnd, Exited
<1>. QED
  BY <1>1, <1>2, PTL DEF CommandSpec, FixtureSpec

\* The credentials of the command line, in an environment and in a configuration.
Named(e) == IF AsApp THEN e.mode = "app" /\ e.id = "option" /\ e.key \in {"option", "broken"}
            ELSE e.mode = "action" /\ e.token = "option"
Granted(c) == IF AsApp THEN c.mode = "app" /\ c.id = "option" /\ c.key = "option"
              ELSE c.mode = "action" /\ c.token = "option"

\* What holds the credentials of the command line, and from which step on.
Credentials ==
  /\ step \in {"routers", "config", "app", "dispatch"} => Named(env)
  /\ cached # Clean => Granted(cached)
  /\ step \in {"app", "dispatch"} \/ handlers # "not_run" => Granted(config)

\* What has been done when a step is reached.
Reached ==
  /\ class = IF AsApp THEN "GitHubWebhookEvent" ELSE "GitHubEvent"
  /\ step \in {"environment", "routers", "config", "app", "dispatch"} => stage = "done"
  /\ step \in {"routers", "config", "app", "dispatch"} => headers.event = "good"
  /\ step = "dispatch" => loaded > 0
  /\ handlers # "not_run" \/ status # "none" => step = "exited"

CommandIInv ==
  /\ CommandTypeOK /\ EventsAreSound
  /\ Credentials /\ Reached /\ SuccessMeansProcessed

LEMMA InitCommandIInv == CommandInit => CommandIInv
<1>. SUFFICES ASSUME CommandInit PROVE CommandIInv
  OBVIOUS
<1>1. FixtureTypeOK /\ EventsAreSound
  BY InitFixtureIInv DEF CommandInit, FixtureIInv
<1>2. Clean \in Env
  BY DEF Clean, Env, Whose
<1>3. CommandTypeOK
  BY <1>1, <1>2 DEF CommandInit, CommandTypeOK
<1>4. Credentials /\ Reached /\ SuccessMeansProcessed
  BY DEF CommandInit, Credentials, Reached, SuccessMeansProcessed
<1>. QED
  BY <1>1, <1>3, <1>4 DEF CommandIInv

\* A configuration is made of the environment, and only if its key is one.
LEMMA ConfigOfEnvironment ==
  ASSUME env \in Env, options \in Options, Named(env), ConfigError = "none"
  PROVE  ConfigMade \in Env /\ ConfigMade = env /\ Granted(env)
<1>1. ConfigMade = env
  BY DEF ConfigMade, Named
<1>2. env.key # "broken"
  BY DEF ConfigError
<1>. QED
  BY <1>1, <1>2 DEF Named, Granted

\* The steps before and after the configuration: what they set is what they reach.
LEMMA OptionsAndEventIInv ==
  ASSUME CommandIInv, CheckOptions \/ ReadEvent \/ EventRead, FixtureTypeOK', EventsAreSound'
  PROVE  CommandIInv'
<1>. USE DEF CommandIInv
<1>1. UNCHANGED <<options, loaded, cached, config, handlers>> /\ step \in {"options", "event"}
  BY DEF CheckOptions, ReadEvent, EventRead, own
<1>2. step' \in {"options", "event", "environment", "exited"}
  BY DEF CheckOptions, ReadEvent, EventRead, own, Exit, StepAfter
<1>3. env' \in Env
  BY LeftOverAssumption DEF CheckOptions, ReadEvent, EventRead, own, CommandTypeOK
<1>4. status' \in {"none", "usage", "traceback"} /\ (status' # "none" => step' = "exited")
  BY DEF CheckOptions, ReadEvent, EventRead, own, Exit, Reached
<1>5. step' = "environment" => stage' = "done"
  BY DEF CheckOptions, ReadEvent, EventRead, own, Exit, fixtureVars
<1>6. CommandTypeOK'
  BY <1>1, <1>2, <1>3, <1>4 DEF CommandTypeOK
<1>7. Credentials'
  BY <1>1, <1>2 DEF Credentials, Reached, Granted, AsApp
<1>8. Reached'
  <2>1. class' = class
    BY DEF CheckOptions, ReadEvent, EventRead, fixtureVars, FixtureNext, ParseFixture, Probe,
           NameEvent, Augment, Validate, Build, Parameters
  <2>. QED
    BY <1>1, <1>2, <1>4, <1>5, <2>1 DEF Reached, AsApp
<1>9. SuccessMeansProcessed'
  BY <1>4 DEF SuccessMeansProcessed
<1>. QED
  BY <1>6, <1>7, <1>8, <1>9

LEMMA UpdateEnvironmentIInv ==
  ASSUME CommandIInv, UpdateEnvironment
  PROVE  CommandIInv'
<1>. USE DEF CommandIInv
<1>1. UNCHANGED <<fixtureVars, options, loaded, cached, config, handlers>> /\ step = "environment"
  BY DEF UpdateEnvironment
<1>2. /\ step' \in {"routers", "exited"} /\ status' \in {"none", "traceback"}
      /\ status' # "none" => step' = "exited"
  BY DEF UpdateEnvironment, Exit, StepAfter, Reached
<1>3. env' \in Env
  BY DEF UpdateEnvironment, CommandTypeOK, Env, Whose
<1>4. step' = "routers" => Named(env)'
  BY <1>1 DEF UpdateEnvironment, Exit, Named, AsApp, CommandTypeOK, Env
<1>5. CommandTypeOK' /\ EventsAreSound'
  BY <1>1, <1>2, <1>3
  DEF CommandTypeOK, FixtureTypeOK, EventsAreSound, BadName, BadHeader, fixtureVars
<1>6. Credentials'
  BY <1>1, <1>2, <1>4 DEF Credentials, Reached, Granted, AsApp
<1>7. step' = "routers" => headers.event = "good"
  <2>1. AsApp => headers.event = "good"
    BY <1>1 DEF Reached, EventsAreSound
  <2>. QED
    BY <2>1 DEF UpdateEnvironment, Exit
<1>8. Reached' /\ SuccessMeansProcessed'
  BY <1>1, <1>2, <1>7 DEF Reached, AsApp, SuccessMeansProcessed, fixtureVars
<1>. QED
  BY <1>5, <1>6, <1>8

LEMMA LoadRoutersIInv ==
  ASSUME CommandIInv, LoadRouters
  PROVE  CommandIInv'
<1>. USE DEF CommandIInv
<1>1. UNCHANGED <<fixtureVars, options, env, config, handlers>> /\ step = "routers"
  BY DEF LoadRouters
<1>2. /\ step' \in {"config", "exited"} /\ status' \in {"none", "usage", "traceback"}
      /\ status' # "none" => step' = "exited"
  BY DEF LoadRouters, Exit, StepAfter, Reached
<1>3. loaded' \in 0..2
  BY DEF LoadRouters, CommandTypeOK
<1>4. Named(env) /\ env \in Env /\ options \in Options /\ cached \in Env
  BY <1>1 DEF Credentials, CommandTypeOK
<1>5. cached' \in Env /\ (cached' # Clean => Granted(cached'))
  <2>1. \/ cached' = cached \/ cached' = Clean
        \/ cached' = ConfigMade /\ ConfigError = "none"
    BY DEF LoadRouters
  <2>2. Clean \in Env
    BY DEF Clean, Env, Whose
  <2>. QED
    BY <1>4, <2>1, <2>2, ConfigOfEnvironment DEF Credentials
<1>6. CommandTypeOK' /\ EventsAreSound'
  BY <1>1, <1>2, <1>3, <1>5
  DEF CommandTypeOK, FixtureTypeOK, EventsAreSound, BadName, BadHeader, fixtureVars
<1>7. Credentials'
  BY <1>1, <1>2, <1>4, <1>5 DEF Credentials, Reached, Named, Granted, AsApp
<1>8. Reached' /\ SuccessMeansProcessed'
  BY <1>1, <1>2 DEF Reached, AsApp, SuccessMeansProcessed, fixtureVars
<1>. QED
  BY <1>6, <1>7, <1>8

LEMMA MakeConfigIInv ==
  ASSUME CommandIInv, MakeConfig
  PROVE  CommandIInv'
<1>. USE DEF CommandIInv
<1>1. UNCHANGED <<fixtureVars, options, env, loaded, cached, handlers>> /\ step = "config"
  BY DEF MakeConfig
<1>2. /\ step' \in {"app", "exited"} /\ status' \in {"none", "traceback"}
      /\ status' # "none" => step' = "exited"
  BY DEF MakeConfig, Exit, StepAfter, Reached
<1>3. Named(env) /\ env \in Env /\ options \in Options /\ cached \in Env /\ config \in Env
  BY <1>1 DEF Credentials, CommandTypeOK
<1>4. config' \in Env /\ (step' = "app" => Granted(config'))
  <2>1. \/ config' = config /\ step' = "exited"
        \/ config' = cached /\ cached # Clean
        \/ config' = ConfigMade /\ ConfigError = "none"
    BY DEF MakeConfig, Exit
  <2>. QED
    BY <1>3, <2>1, ConfigOfEnvironment DEF Credentials
<1>5. CommandTypeOK' /\ EventsAreSound'
  BY <1>1, <1>2, <1>4
  DEF CommandTypeOK, FixtureTypeOK, EventsAreSound, BadName, BadHeader, fixtureVars
<1>6. Credentials'
  BY <1>1, <1>2, <1>3, <1>4 DEF Credentials, Reached, Named, Granted, AsApp
<1>7. Reached' /\ SuccessMeansProcessed'
  BY <1>1, <1>2 DEF Reached, AsApp, SuccessMeansProcessed, fixtureVars
<1>. QED
  BY <1>5, <1>6, <1>7

LEMMA RunIInv ==
  ASSUME CommandIInv, MakeApp \/ LookUpFails \/ HandlersEnd
  PROVE  CommandIInv'
<1>. USE DEF CommandIInv
<1>1. UNCHANGED <<fixtureVars, options, env, loaded, cached, config>> /\ step \in {"app", "dispatch"}
  BY DEF MakeApp, LookUpFails, HandlersEnd
<1>2. /\ step' \in {"dispatch", "exited"} /\ status' \in {"none", "success", "traceback"}
      /\ status' # "none" \/ handlers' # "not_run" => step' = "exited"
      /\ handlers' \in {"not_run", "returned", "raised", "outcome"}
  BY DEF MakeApp, LookUpFails, HandlersEnd, Exit, StatusOf, Reached, CommandTypeOK
<1>3. Granted(config) /\ Named(env) /\ stage = "done" /\ headers.event = "good"
  BY <1>1 DEF Credentials, Reached
<1>4. step' = "dispatch" => loaded > 0
  BY DEF MakeApp, LookUpFails, HandlersEnd, Exit, CommandTypeOK
<1>5. status' = "success" =>
        loaded > 0 /\ (handlers' = "returned" \/ (AsApp /\ handlers' = "raised"))
  BY <1>1 DEF MakeApp, LookUpFails, HandlersEnd, Exit, StatusOf, Reached
<1>6. CommandTypeOK' /\ EventsAreSound'
  BY <1>1, <1>2
  DEF CommandTypeOK, FixtureTypeOK, EventsAreSound, BadName, BadHeader, fixtureVars
<1>7. Credentials'
  BY <1>1, <1>2, <1>3 DEF Credentials, Named, Granted, AsApp
<1>8. Reached'
  BY <1>1, <1>2, <1>3, <1>4 DEF Reached, AsApp, fixtureVars
<1>9. SuccessMeansProcessed'
  BY <1>1, <1>3, <1>5 DEF SuccessMeansProcessed, AsApp, fixtureVars
<1>. QED
  BY <1>6, <1>7, <1>8, <1>9

LEMMA NextCommandIInv ==
  CommandIInv /\ [CommandNext]_<<fixtureVars, own>> /\ FixtureTypeOK' /\ EventsAreSound' => CommandIInv'
<1>. SUFFICES ASSUME CommandIInv, [CommandNext]_<<fixtureVars, own>>, FixtureTypeOK', EventsAreSound'
              PROVE  CommandIInv'
  OBVIOUS
<1>1. CASE UNCHANGED <<fixtureVars, own>>
  BY <1>1
  DEF own, fixtureVars, CommandIInv, CommandTypeOK, Credentials, Named, Granted, AsApp, Reached,
      SuccessMeansProcessed
<1>. QED
  BY <1>1, OptionsAndEventIInv, UpdateEnvironmentIInv, LoadRoutersIInv, MakeConfigIInv, RunIInv
  DEF CommandNext, Exited

\* The inductive invariant of the command holds in every reachable state.
THEOREM CommandInvariance == CommandSpec => []CommandIInv
<1>1. FixtureIInv => FixtureTypeOK /\ EventsAreSound
  BY DEF FixtureIInv
<1>. QED
  BY <1>1, CommandReadsEvents, FixtureInvariance, InitCommandIInv, NextCommandIInv, PTL DEF CommandSpec

\* Every variable of the command and of its reading keeps its type.
THEOREM CommandTypeCorrect == CommandSpec => []CommandTypeOK
<1>1. CommandIInv => CommandTypeOK
  BY DEF CommandIInv
<1>. QED
  BY <1>1, CommandInvariance, PTL

\* parse_event_stub_from_fd reads a file in one of the three formats whatever the
\* probes before have done to it; only a name or headers that are not right make
\* from_fixture_fd refuse it.
THEOREM FormatsRead == CommandSpec => []FormatsAreRead
<1>1. FixtureIInv => FormatsAreRead
  BY DEF FixtureIInv
<1>. QED
  BY <1>1, CommandReadsEvents, FixtureInvariance, PTL

\* An event that from_fixture_fd makes has an object for a payload and a name from
\* the one source that had it and, for an app, a text for a name and headers of
\* GitHub, whatever values the file has for them.
THEOREM EventsSound == CommandSpec => []EventsAreSound
<1>1. FixtureIInv => EventsAreSound
  BY DEF FixtureIInv
<1>. QED
  BY <1>1, CommandReadsEvents, FixtureInvariance, PTL

\* `receive` acts with the credentials of its options, whatever was in the
\* environment, and whether or not a router had the configuration cached before.
THEOREM CredentialsAreOwn == CommandSpec => []OwnCredentials
<1>1. CommandIInv => OwnCredentials
  BY DEF CommandIInv, Credentials, Granted, OwnCredentials
<1>. QED
  BY <1>1, CommandInvariance, PTL

\* `receive` exits with success only after a sound event has come to handlers of
\* at least one router, and they have returned or are captured for an app.
THEOREM SuccessIsEarned == CommandSpec => []SuccessMeansProcessed
<1>1. CommandIInv => SuccessMeansProcessed
  BY DEF CommandIInv
<1>. QED
  BY <1>1, CommandInvariance, PTL
=============================================================================
