---------------------------- MODULE MCCommandLine ----------------------------
EXTENDS CommandLine

Text(docs, lines, json) == [yaml |-> "none", docs |-> docs, lines |-> lines, json |-> json]
Unparsed(exception, lines, json) == [Text(<<>>, lines, json) EXCEPT !.yaml = exception]
Lines == <<"bad", "bad", "bad">>

JsonFile == {
  Text(<<"object">>, <<"object">>, "object"),       \* on one line
  Text(<<"object">>, Lines, "object"),              \* indented with spaces
  Unparsed("ScannerError", Lines, "object"),        \* indented with tabs
  Unparsed("ParserError", Lines, "object"),         \* with a very long key
  Unparsed("ParserError", <<"object">>, "object"),
  Text(<<"list">>, <<"list">>, "list"),
  Text(<<"badList">>, <<"badList">>, "badList"),
  Text(<<"objectText">>, <<"objectText">>, "objectText"),
  Text(<<"number">>, <<"number">>, "number"),
  Text(<<"null">>, <<"null">>, "null")}

YamlFile ==
  {Text(docs, Lines, "bad") :
     docs \in {<<"object">>, <<"text">>, <<"list", "object">>, <<"object", "object">>,
               <<"text", "object">>, <<"null", "object">>, <<"list", "number">>,
               <<"badList", "object">>, <<"list", "objectText">>, <<"objectText", "text">>,
               <<"list", "object", "list">>, <<"list", "object", "null">>}}

JsonlFile ==
  {Unparsed("ParserError", lines, "bad") :
     lines \in {<<"list", "object">>, <<"object", "object">>, <<"object", "bad">>,
                <<"list", "bad">>, <<"list", "object", "object">>, <<"bad", "object">>}}

Garbage == {Text(<<>>, <<>>, "bad"),
            Unparsed("ScannerError", Lines, "bad"), Unparsed("ParserError", Lines, "bad")}

MCFile == JsonFile \cup YamlFile \cup JsonlFile \cup Garbage

OfAnApp == [Clean EXCEPT !.mode = "app", !.id = "left", !.key = "left"]
OfAnAction == [Clean EXCEPT !.token = "left", !.metadata = TRUE]
MCLeftOver == {[left EXCEPT !.fingerprint = f] :
                 left \in {Clean, OfAnApp, OfAnAction, [OfAnApp EXCEPT !.key = "broken"]},
                 f \in {"unset", "left", "option"}}
=============================================================================
