---------------------------- MODULE MCCodeMapRun ----------------------------
(* Small instances of CodeMapRun and of CodeMapMembers for TLC.            *)
EXTENDS CodeMapRun, CodeMapMembers

-----------------------------------------------------------------------------
(* One commit for each way the tree can turn out.                          *)
Entry(kind, size) == [kind |-> kind, size |-> size]

MCTree == <<
    <<Entry("source", 1), Entry("vendored", 2), Entry("source", 1)>>,
    <<Entry("sensitive", 1), Entry("submodule", 0)>>,
    <<Entry("other", 1), Entry("other", 1), Entry("source", 1)>>,
    <<Entry("source", 2), Entry("source", 1)>>,
    <<Entry("source", 1), Entry("link", 0)>>,
    <<Entry("source", 3), Entry("unsafe", 1)>>,
    <<Entry("binary", 1), Entry("source", 2)>>,
    <<Entry("unsafe", 1)>> >>

MCCommits == DOMAIN MCTree

-----------------------------------------------------------------------------
(* Sources: a file of statements among others that say nothing.            *)
File(dir, stem, ext) == [dir |-> dir, stem |-> stem, ext |-> ext]

Says(statements) == [statements |-> statements, syntax |-> "OK", json |-> "OBJECT"]

SourceTree(others, path, statements) ==
    [p \in others \cup {path} |-> Says(IF p = path THEN statements ELSE <<>>)]

\* Names that end in an extension, and what they are made of.
MCFileNames ==
    [name \in {"b.js", "b.ts"} |->
        [stem |-> "b", ext |-> IF name = "b.js" THEN ".js" ELSE ".ts"]]

Specified(names) == [plain |-> TRUE, names |-> names]
Package(name) == Specified(<<name>>)

Import(specifier) == [kind |-> "IMPORT", specifier |-> specifier, binds |-> "OTHER"]
Binding(what) == [kind |-> "IMPORT", specifier |-> Package("fastify"), binds |-> what]
ExportFrom(names, specifier) ==
    [kind |-> "EXPORT_FROM", names |-> names, specifier |-> specifier]
Contract(name, exported) == [kind |-> "CONTRACT", name |-> name, exported |-> exported]
ExportList(pairs) == [kind |-> "EXPORT_LIST", pairs |-> pairs]
As(local, exported) == [local |-> local, exported |-> exported]
Receiver(name, factory) == [kind |-> "RECEIVER", name |-> name, factory |-> factory]

Call(receiver, length, rooted, trimmed) ==
    [receiver |-> receiver, method |-> "GET",
     route |-> [length |-> length, rooted |-> rooted, trimmed |-> trimmed]]
Route(call) == [kind |-> "ROUTE", call |-> call]
Plugin(typed, calls) ==
    [kind |-> "PLUGIN", parameter |-> "app", typed |-> typed, calls |-> calls]

A == File(<<"src">>, "a", ".ts")
B == File(<<"src">>, "b", ".ts")
Index == File(<<"src", "b">>, "index", ".ts")

Sentences(S, n) == UNION {[1 .. m -> S] : m \in 0 .. n}

\* What an import may say: "b", ".", "..", "./", "../", "./b", "./b/" and so on.
Specifiers ==
    {Package("b"), Specified(<<".">>), Specified(<<"..">>), Specified(<<".", "">>),
     Specified(<<"..", "">>), Specified(<<".", "b">>), Specified(<<".", "b", "">>),
     Specified(<<".", "b", ".">>), Specified(<<".", "", "b", ".", "index">>),
     Specified(<<".", "b.js">>), Specified(<<".", "b.ts">>),
     Specified(<<"..", "src", "b">>), Specified(<<".", "c", "..", "b">>),
     Specified(<<"..", "src", "..", "src", "b">>),
     Specified(<<"..", "..", "b">>), Specified(<<"..", "..", "src", "b">>),
     [plain |-> FALSE, names |-> <<".", "b.js?">>]}

\* One import, from here and there, of a file that may be several or none.
Resolutions ==
    {SourceTree(others, path, <<Import(specifier)>>) :
        others \in SUBSET {B, File(<<"src">>, "b", ".js"), Index, File(<<>>, "index", ".ts"),
                           File(<<"src">>, "index", ".tsx")},
        path \in {A, File(<<>>, "a", ".ts"), File(<<"test">>, "a", ".ts"),
                   File(<<"src">>, "a.test", ".ts")},
        specifier \in Specifiers}

\* The same from and into a directory with the name of a file.
Misnamed ==
    {SourceTree(others, path, <<Import(specifier)>>) :
        others \in SUBSET {B, File(<<"src">>, "b", ".js"), File(<<"src", "b.js">>, "index", ".ts"),
                           File(<<"src", "b.js">>, "c", ".ts")},
        path \in {A, File(<<"src", "b.js">>, "a", ".ts"), File(<<"src", "b.js", "d">>, "a", ".ts")},
        specifier \in {Specified(<<".">>), Specified(<<"..">>), Specified(<<".", "b.js">>),
                       Specified(<<".", "b.js", "index">>), Specified(<<".", "b.js", "c">>),
                       Specified(<<".", "c">>)}}

\* Statements of one file about two others, and about itself; "././b" is not
\* "./b" to say.
ToB == Specified(<<".", "b">>)

Said ==
    {Import(ToB), Import(Specified(<<".", ".", "b">>)), Import(Specified(<<".", "b.ts">>)),
     Import(Package("b")), Import(Specified(<<".", "a">>)), ExportFrom({"*"}, ToB),
     ExportFrom({"x"}, ToB), ExportFrom({"x", "y"}, ToB), ExportFrom({}, ToB),
     ExportFrom({"*"}, Specified(<<".", "b.ts">>))}

Repetitions ==
    {SourceTree({B}, path, statements) :
        path \in {A, File(<<"src">>, "a.test", ".ts")}, statements \in Sentences(Said, 2)}

Declared ==
    {Contract("X", "NO"), Contract("X", "NAMED"), Contract("X", "DEFAULT"),
     Contract("Y", "NAMED"), ExportList({As("X", "X")}), ExportList({As("X", "Z")}),
     ExportList({As("X", "X"), As("X", "Z"), As("Y", "Y")})}

Declarations == {SourceTree({}, A, statements) : statements \in Sentences(Declared, 3)}

\* A route that fits, one too long for a label, one too long at all; one that
\* ends in a blank, one that is no path.
Served ==
    {Binding("FACTORY"), Binding("INSTANCE"), Receiver("app", TRUE), Receiver("app", FALSE),
     Route(Call("app", 1, TRUE, TRUE)), Route(Call("app", 3, TRUE, TRUE)),
     Route(Call("app", 5, TRUE, TRUE)), Route(Call("app", 1, TRUE, FALSE)),
     Route(Call("app", 1, FALSE, TRUE)),
     Plugin(TRUE, <<Call("app", 1, TRUE, TRUE), Call("app", 1, TRUE, TRUE)>>),
     Plugin(FALSE, <<Call("app", 1, TRUE, TRUE)>>)}

Servers == {SourceTree({}, A, statements) : statements \in Sentences(Served, 3)}

\* Manifests of every kind, a file that does not parse, and many files.
Manifest(dir) == File(dir, "package", ".json")

Packages ==
    {[p \in {A, Manifest(<<>>), Manifest(<<"src">>)} |->
        [statements |-> <<>>, syntax |-> IF p = broken THEN "ERROR" ELSE "OK",
         json |-> IF p = Manifest(<<>>) THEN json ELSE "OBJECT"]] :
        broken \in {A, Manifest(<<>>), NoPath},
        json \in {"OBJECT", "FAULTY_OBJECT", "OTHER_VALUE"}}

Crowds ==
    {SourceTree({File(<<>>, stem, ".ts") : stem \in stems} \cup others, A, statements) :
        stems \in SUBSET {"c", "d", "e", "f", "g", "h", "i"},
        others \in {{}, {File(<<"x", "y", "z">>, "deep", ".ts")}},
        statements \in {<<>>, <<Contract("X", "NAMED"), Contract("Y", "NAMED"),
                                Import(Specified(<<"..", "c">>))>>}}

NoSources == <<>>

MCSourceTrees ==
    {NoSources} \cup Resolutions \cup Misnamed \cup Repetitions \cup Declarations
    \cup Servers \cup Packages \cup Crowds

\* What two files of a plain program may say, well within every limit.
MCPlainSources ==
    {SourceTree({B}, A, statements) :
        statements \in Sentences({Import(ToB), Import(Package("b"))}, 2)}

-----------------------------------------------------------------------------
(* The run starts where there are no sources to map.  Elsewhere it is over *)
(* and only its members are looked at, which it takes as given.            *)
MCInit ==
    \/ RunInit /\ sources = NoSources
    \/ InitIn("done") /\ SourcesInit

MCSpec ==
    /\ MCInit
    /\ [][RunNext /\ UNCHANGED sources]_<<codeMapVars, sources>>
    /\ Fairness
=============================================================================
