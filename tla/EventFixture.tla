---------------------------- MODULE EventFixture -----------------------------
(***************************************************************************)
(* How an event is read from a fixture file: three probes try in turn to   *)
(* make sense of the same open file (github/utils/event_utils.py), then    *)
(* HTTP headers are completed and checked and the event object is built    *)
(* (from_fixture_fd of both classes in github/models/events.py).           *)
(*                                                                         *)
(* A file is described by what the parsers make of it: the documents that  *)
(* YAML finds, or the exception it raises, what JSON makes of each line,   *)
(* and of the whole.  Parsed values are told apart by their shape only.    *)
(***************************************************************************)
EXTENDS Naturals, Sequences

VARIABLES
  file, fileHeaders,   \* the content, and the headers in it, if it has some
  class, event,        \* parameters: the class to build, and the event name
  fd,                  \* where the file is read from next
  stage, error,        \* what is done next; the exception that ended it all
  headers, payload     \* what was read

fixtureVars == <<file, fileHeaders, class, event, fd, stage, error, headers, payload>>

CONSTANT File   \* the contents that a file may have

\* A list is one of non-empty mappings, as headers are; a badList has other items,
\* too.  An objectText is a text that is itself JSON of an object.
Shape == {"object", "list", "badList", "text", "objectText", "number", "null"}

Content == [yaml : {"none", "ScannerError", "ParserError"},
            docs : Seq(Shape),
            lines : Seq(Shape \cup {"bad"}),
            json : Shape \cup {"bad"}]

\* What the formats have to do with one another: no document is counted in a file
\* with an error; JSON that YAML can read is one document; documents are separated
\* by lines, or by what JSON has no room for; and nothing but blank follows a first
\* line that is all of the JSON.
Consistent(f) ==
  /\ f.yaml # "none" => f.docs = <<>>
  /\ f.yaml = "none" /\ f.json \in {"object", "list", "badList"} => f.docs = <<f.json>>
  /\ Len(f.docs) > 2 => Len(f.lines) \notin 1..2 \/ f.lines[1] = "bad"
  /\ f.json # "bad" /\ f.lines # <<>> /\ f.lines[1] # "bad" =>
       f.lines[1] = f.json /\ \A i \in 2..Len(f.lines) : f.lines[i] = "bad"

ASSUME FileAssumption == \A f \in File : f \in Content /\ Consistent(f)

\* A header is not there, or has a value that GitHub sends, another text, or what is
\* no text at all.  Any text is the name of an event.
Header == {"good", "bad", "other", "missing"}
Headers == [event : Header \ {"bad"}, content_type : Header, user_agent : Header, delivery : Header]
NoHeaders == [h \in {"event", "content_type", "user_agent", "delivery"} |-> "missing"]

Stage == {"yaml", "jsonl", "json", "name", "augment", "validate", "build", "done", "failed"}
Error == {"none", "ValueError", "KeyError", "TypeError", "AttributeError", "ScannerError"}

FixtureTypeOK ==
  /\ file \in File /\ fileHeaders \in Headers
  /\ class \in {"GitHubEvent", "GitHubWebhookEvent"} /\ event \in BOOLEAN
  /\ fd \in {"start", "moved"}
  /\ stage \in Stage /\ error \in Error
  /\ headers \in Headers /\ payload \in Shape

\* What is not there reads as None, or as an empty line.
Document(i) == IF i <= Len(file.docs) THEN file.docs[i] ELSE "null"
Line(i) == IF i <= Len(file.lines) THEN file.lines[i] ELSE "bad"

\* The file begins with a list that may be one of headers.
HeadersFirst == IF file.yaml = "none" THEN Document(1) = "list" ELSE Line(1) = "list"

FixtureInit ==
  /\ file \in File
  /\ fileHeaders \in IF HeadersFirst THEN Headers ELSE {NoHeaders}
  /\ class \in {"GitHubEvent", "GitHubWebhookEvent"} /\ event \in BOOLEAN
  /\ fd = "start"
  /\ stage = "yaml" /\ error = "none"
  /\ headers = NoHeaders /\ payload = "null"

-----------------------------------------------------------------------------
(* The probes *)

Fails(exception) == [error |-> exception, headers |-> "none", event |-> "null"]
Reads(hs, ev) == [error |-> "none", headers |-> hs, event |-> ev]

\* Of two values the second is the event, and a single one is, too.
OneOrTwo(first, second) ==
  IF second # "null" THEN Reads(first, second) ELSE Reads("none", first)

\* Of the exceptions of the YAML parser only one becomes a ValueError.
ReRaised(exception) == IF exception = "ParserError" THEN "ValueError" ELSE exception

ProbeYaml ==
  IF file.yaml # "none" THEN Fails(ReRaised(file.yaml))
  ELSE IF Document(3) # "null" \/ (Document(1) = "null" /\ Document(2) = "null")
       THEN Fails("ValueError")
  ELSE OneOrTwo(Document(1), Document(2))

\* What cannot be parsed in the second line is ignored.
ProbeJsonl ==
  IF Len(file.lines) > 2 \/ Line(1) = "bad" THEN Fails("ValueError")
  ELSE OneOrTwo(Line(1), IF Line(2) = "bad" THEN "null" ELSE Line(2))

ProbeJson == IF file.json # "object" THEN Fails("ValueError") ELSE Reads("none", "object")

\* At the end of the file there is nothing but an empty text.
AtEnd == Fails("ValueError")

FieldsOf(hs) == IF hs = "list" THEN fileHeaders ELSE NoHeaders

\* _transform_http_headers_list_to_multidict expects a sequence of mappings, which
\* an empty text passes for; an item may be no mapping, an empty one, or one whose
\* key is no text.
TransformErrors(hs) ==
  CASE hs \in {"none", "list"} -> {"none"}
    [] hs = "object" -> {"ValueError"}
    [] hs = "text" -> {"none", "AttributeError"}
    [] hs = "objectText" -> {"AttributeError"}
    [] hs = "badList" -> {"AttributeError", "TypeError", "ValueError"}
    [] hs \in {"null", "number"} -> {"TypeError"}

Fail(exception) ==
  /\ stage' = "failed"
  /\ error' = exception
  /\ UNCHANGED <<headers, payload>>

\* Mutant: a probe that fails leaves the file where it has read it to.
RewoundOnSuccess(result) == IF result.error = "none" THEN "start" ELSE "moved"

\* The file is rewound however a probe ends, but for the last one.
Rewound(result) == "start"

Probe(this, result, next) ==
  /\ stage = this
  /\ \/ /\ result.error = "none" /\ "none" \in TransformErrors(result.headers)
        /\ headers' = FieldsOf(result.headers) /\ payload' = result.event
        /\ stage' = "name" /\ UNCHANGED error
     \/ /\ result.error = "none"
        /\ \E exception \in TransformErrors(result.headers) \ {"none"} : Fail(exception)
     \/ /\ result.error = "ValueError" /\ this # "json"
        /\ stage' = next
        /\ UNCHANGED <<error, headers, payload>>
     \/ result.error # "none" /\ (result.error # "ValueError" \/ this = "json")
          /\ Fail(result.error)
  /\ fd' = IF this = "json" /\ result.error # "none" THEN "moved" ELSE Rewound(result)
  /\ UNCHANGED <<file, fileHeaders, class, event>>

Remaining(result) == IF fd = "start" THEN result ELSE AtEnd

ParseFixture ==
  \/ Probe("yaml", Remaining(ProbeYaml), "jsonl")
  \/ Probe("jsonl", Remaining(ProbeJsonl), "json")
  \/ Probe("json", Remaining(ProbeJson), "failed")

-----------------------------------------------------------------------------
(* The event object *)

Parameters == <<file, fileHeaders, class, event, fd>>

AmbiguousName == event /\ headers.event # "missing"

\* The option is a text, what is in the file need not be.
NameEvent ==
  /\ stage = "name"
  /\ \/ AmbiguousName /\ Fail("ValueError")
     \/ ~AmbiguousName /\ ~event /\ headers.event = "missing" /\ Fail("KeyError")
     \/ /\ ~AmbiguousName /\ (event \/ headers.event # "missing")
        /\ headers' = [headers EXCEPT !.event = IF event THEN "good" ELSE headers.event]
        /\ stage' = IF class = "GitHubEvent" THEN "build" ELSE "augment"
        /\ UNCHANGED <<error, payload>>
  /\ UNCHANGED Parameters

\* Mutant: what is not right is replaced, too.
AugmentAll(value) == "good"

AugmentOne(value) == IF value = "missing" THEN "good" ELSE value

Augment ==
  /\ stage = "augment"
  /\ headers' = [h \in DOMAIN headers |-> AugmentOne(headers[h])]
  /\ stage' = "validate"
  /\ UNCHANGED <<Parameters, error, payload>>

\* The headers in the order in which validate_http_headers looks at them.
Checked == <<"content_type", "user_agent", "delivery", "event">>

\* What is no text has no startswith, and no replace as UUID needs it.
HeaderErrors(h) ==
  IF headers[h] = "other" /\ h \in {"user_agent", "delivery"}
  THEN {"AttributeError", "TypeError"} ELSE {"ValueError"}

Validate ==
  /\ stage = "validate"
  /\ \/ /\ \A h \in DOMAIN headers : headers[h] = "good"
        /\ stage' = "build"
        /\ UNCHANGED <<error, headers, payload>>
     \/ \E i \in 1..4 :
          /\ headers[Checked[i]] # "good"
          /\ \A j \in 1..(i - 1) : headers[Checked[j]] = "good"
          /\ \E exception \in HeaderErrors(Checked[i]) : Fail(exception)
  /\ UNCHANGED Parameters

\* The converter hands what is no mapping to json.loads, and the validator refuses
\* what that makes of a text, unless it is an object.
ConversionError(shape) ==
  CASE shape \in {"object", "objectText"} -> "none"
    [] shape = "text" -> "ValueError"
    [] shape \in {"list", "badList", "number", "null"} -> "TypeError"

Build ==
  /\ stage = "build"
  /\ \/ /\ ConversionError(payload) = "none"
        /\ stage' = "done" /\ payload' = "object"
        /\ UNCHANGED <<error, headers>>
     \/ ConversionError(payload) # "none" /\ Fail(ConversionError(payload))
  /\ UNCHANGED Parameters

FixtureNext == ParseFixture \/ NameEvent \/ Augment \/ Validate \/ Build

FixtureSpec == FixtureInit /\ [][FixtureNext]_fixtureVars

-----------------------------------------------------------------------------
(* Properties *)

\* A file in one of the three formats: one or two YAML documents, as which most
\* JSON is read as well, JSON lines, of which the last is an object and the first
\* the headers, or other JSON. JSON that makes the YAML scanner fail (by tabs) is
\* left out: ScannerError is no ParserError and ends the reading.
WellFormed ==
  \/ file.yaml = "none" /\ file.docs \in {<<"object">>, <<"list", "object">>}
  \/ file.yaml = "ParserError" /\ (file.lines = <<"list", "object">> \/ file.json = "object")

\* Why an event in a proper file may still be refused.
BadName == event <=> fileHeaders.event # "missing"
BadHeader ==
  class = "GitHubWebhookEvent" /\ \E h \in DOMAIN NoHeaders : fileHeaders[h] \in {"bad", "other"}

\* A file in one of the formats is read, whichever probes have tried before: the
\* event is only refused for its name or its headers.
FormatsAreRead == WellFormed /\ stage = "failed" => BadName \/ BadHeader

\* An event has an object for a payload, whatever shape that came in, and a name
\* from the one source that had it.  If it pretends to have come over HTTP the name
\* is a text, and the headers are those of GitHub; GitHubEvent itself looks at
\* neither.
EventsAreSound ==
  stage = "done" =>
    /\ payload = "object"
    /\ ~BadName /\ headers.event = IF event THEN "good" ELSE fileHeaders.event
    /\ class = "GitHubWebhookEvent" => ~BadHeader /\ headers.event = "good"
=============================================================================
