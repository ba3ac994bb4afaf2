---------------------------- MODULE CodeMapMembers ----------------------------
(***************************************************************************)
(* What a code map is made of: extractCodeMap reads the statements of the  *)
(* scanned files, extractedMembers makes assets and edges of them, and     *)
(* createCodeMapProjectionRevision takes these or refuses.  A run is a     *)
(* pure function of the sources, which are the only variable.              *)
(*                                                                         *)
(* Statements are given as the compiler parses them.  A member key is what *)
(* it is put together from, and its length, like any here, is counted in   *)
(* names; a place in a file is the number of its statement.                *)
(***************************************************************************)
EXTENDS Integers, SequencesExt

CONSTANTS
    SourceTrees,   \* the sources a run may be given
    SpecStems,     \* file names that end in .spec or .test
    FileNames,     \* names that end in an extension -> [stem, ext]
    MaxRecords,    \* CODE_MAP_EXTRACTION_LIMITS.maximumRecords
    MaxRoute,      \* .maximumRouteCharacters
    MaxAssets,     \* MAXIMUM_CODE_MAP_ASSETS
    MaxEdges,      \* MAXIMUM_CODE_MAP_EDGES
    MaxLabel,      \* the limits of validToken: 256 for a label,
    MaxKey         \* 512 for a member key

\* Path -> [statements, syntax, json]: the files of the scan.
VARIABLE sources

ASSUME LimitAssumption ==
    /\ {MaxRecords, MaxRoute, MaxAssets, MaxEdges, MaxKey} \subseteq Nat
    /\ MaxLabel \in Nat \ {0}

-----------------------------------------------------------------------------
(***************************************************************************)
(* Paths: [dir, stem, ext], and specifiers: [plain, names], where names is  *)
(* the text split at each "/".  Names are told apart in lower case.        *)
(***************************************************************************)
Extensions == {".js", ".jsx", ".json", ".ts", ".tsx"}

ASSUME FileNamesAssumption ==
    \A name \in DOMAIN FileNames : FileNames[name] \in [stem : STRING, ext : Extensions]

\* The names that lead nowhere: "." and, between two slashes or after one, "".
Still == {".", ""}

\* safeRelativePath: every segment leads down.
SafePath(path) ==
    /\ path \in [dir : Seq(STRING), stem : STRING, ext : Extensions]
    /\ ToSet(path.dir) \cap (Still \cup {".."}) = {}

\* plain: no backslash, question mark, number sign or control character.
Specifier(specifier) ==
    /\ specifier \in [plain : BOOLEAN, names : Seq(STRING)]
    /\ specifier.names # <<>>

relative(specifier) == specifier.plain /\ Head(specifier.names) \in {".", ".."}

IsList(seq) == seq \in Seq(ToSet(seq))

\* What the length of a route is counted in, and what a statement carries.
Calling(call) == call.route.length \in Nat

Statement(statement) ==
    CASE statement.kind = "IMPORT"      -> Specifier(statement.specifier)
      [] statement.kind = "EXPORT_FROM" ->
            Specifier(statement.specifier) /\ IsFiniteSet(statement.names)
      [] statement.kind = "EXPORT_LIST" -> IsFiniteSet(statement.pairs)
      [] statement.kind = "ROUTE"       -> Calling(statement.call)
      [] statement.kind = "PLUGIN"      ->
            IsList(statement.calls) /\ \A call \in ToSet(statement.calls) : Calling(call)
      [] OTHER                          -> TRUE

ASSUME SourcesAssumption ==
    \A tree \in SourceTrees :
        /\ IsFiniteSet(DOMAIN tree)
        /\ \A path \in DOMAIN tree :
              /\ SafePath(path)
              /\ IsList(tree[path].statements)
              /\ \A statement \in ToSet(tree[path].statements) : Statement(statement)

SourcesInit == sources \in SourceTrees

NoPath == [dir |-> <<>>, stem |-> "", ext |-> ""]

PathLength(path) == Len(path.dir) + 1
SpecifierLength(specifier) == Len(specifier.names)

isTestPath(path) ==
    \/ ToSet(path.dir) \cap {"__tests__", "test", "tests"} # {}
    \/ path.ext # ".json" /\ path.stem \in SpecStems

\* One name of posix.normalize.
Follow(base, name) ==
    IF name \in Still THEN base
    ELSE IF name = ".." /\ base # <<>> /\ Last(base) # ".." THEN Front(base)
    ELSE Append(base, name)

PathAt(base, ext) == [dir |-> Front(base), stem |-> Last(base), ext |-> ext]

\* A base that ends in an extension of ours, expectedExtension, is that file and
\* no other, be it the name of a directory.
Candidates(base) ==
    LET name == Last(base) IN
    IF name \in DOMAIN FileNames
    THEN {[dir |-> Front(base), stem |-> FileNames[name].stem, ext |-> FileNames[name].ext]}
    ELSE {PathAt(base, e) : e \in Extensions}
         \cup {PathAt(Append(base, "index"), e) : e \in Extensions}

\* posix.normalize of the specifier, joined to the directory of the file; but
\* for the slash that it keeps at the end.
normalized(source, specifier) ==
    LET base[n \in 0 .. Len(specifier.names)] ==
            IF n = 0 THEN source.dir
            ELSE LET before == base[n - 1] IN Follow(before, specifier.names[n])
    IN  base[Len(specifier.names)]

\* Refused: the root itself, which is ".", what lies above it, and a base that
\* has kept its slash, whose last segment is empty.
UnsafeBase(specifier, base) == base = <<>> \/ base[1] = ".." \/ Last(specifier.names) = ""

\* Mutant: of several candidates the first one is taken.
resolveRelativeSpecifier_FirstMatch(source, specifier) ==
    LET base == normalized(source, specifier)
        matches == IF UnsafeBase(specifier, base) THEN {} ELSE Candidates(base) \cap DOMAIN sources
    IN  IF relative(specifier) /\ matches # {} THEN CHOOSE path \in matches : TRUE
        ELSE NoPath

resolveRelativeSpecifier(source, specifier) ==
    LET base == normalized(source, specifier)
        matches == IF UnsafeBase(specifier, base) THEN {} ELSE Candidates(base) \cap DOMAIN sources
    IN  IF relative(specifier) /\ Cardinality(matches) = 1
        THEN CHOOSE path \in matches : TRUE
        ELSE NoPath

-----------------------------------------------------------------------------
(***************************************************************************)
(* The records of extractSourceFacts.  A place is a file and the number of *)
(* a statement.                                                            *)
(***************************************************************************)
Places(kind) ==
    UNION {{<<path, i>> : i \in {j \in DOMAIN sources[path].statements :
                                    sources[path].statements[j].kind = kind}} :
              path \in DOMAIN sources}

StatementAt(place) == sources[place[1]].statements[place[2]]

imports ==
    {[at |-> place, specifier |-> StatementAt(place).specifier,
      target |-> resolveRelativeSpecifier(place[1], StatementAt(place).specifier)] :
        place \in Places("IMPORT")}

\* export * from, export * as n from, export { a, b } from.
reexports ==
    UNION {{[at |-> place, name |-> name, specifier |-> StatementAt(place).specifier,
             target |-> resolveRelativeSpecifier(place[1], StatementAt(place).specifier)] :
                name \in StatementAt(place).names} : place \in Places("EXPORT_FROM")}

\* Of the declarations of one name the map of contracts keeps the last.
localContracts ==
    {place \in Places("CONTRACT") :
        \A other \in Places("CONTRACT") :
            other[1] = place[1] /\ StatementAt(other).name = StatementAt(place).name
                => other[2] <= place[2]}

\* The local exports: those of lists, and those of the declarations themselves.
localContractExports(path) ==
    UNION {StatementAt(place).pairs : place \in {q \in Places("EXPORT_LIST") : q[1] = path}}

directlyExported == {place \in Places("CONTRACT") : StatementAt(place).exported # "NO"}

DirectName(place) ==
    IF StatementAt(place).exported = "DEFAULT" THEN "default" ELSE StatementAt(place).name

exportedNames(place) ==
    {DirectName(q) : q \in {place} \cap directlyExported}
    \cup {pair.exported : pair \in {q \in localContractExports(place[1]) :
                                       q.local = StatementAt(place).name}}

contracts ==
    UNION {{[at |-> place, name |-> StatementAt(place).name, exportedName |-> name] :
                name \in exportedNames(place)} : place \in localContracts}

\* What a file imports from fastify: the factory, or the type of its instances.
Binds(path, what) ==
    \E place \in Places("IMPORT") : place[1] = path /\ StatementAt(place).binds = what

\* The names that stand for a Fastify instance at a statement: the last
\* declaration before it, of a variable, was initialised with the factory.
receivers(path, i) ==
    LET declared == {j \in 1 .. i - 1 : sources[path].statements[j].kind = "RECEIVER"}
        NameAt(j) == sources[path].statements[j].name
    IN  {NameAt(j) : j \in {k \in declared :
            /\ Binds(path, "FACTORY") /\ sources[path].statements[k].factory
            /\ \A l \in declared : NameAt(l) = NameAt(k) => l <= k}}

\* A parameter hides a receiver of its name, and is one if its type says so.
PluginReceivers(path, i) ==
    LET plugin == sources[path].statements[i]
    IN  (receivers(path, i) \ {plugin.parameter})
        \cup {name \in {plugin.parameter} : plugin.typed /\ Binds(path, "INSTANCE")}

\* Every call of a route with the receivers where it stands.
RouteCalls ==
    {[at |-> Append(place, 0), call |-> StatementAt(place).call,
      known |-> receivers(place[1], place[2])] : place \in Places("ROUTE")}
    \cup UNION {{[at |-> Append(place, n), call |-> StatementAt(place).calls[n],
                  known |-> PluginReceivers(place[1], place[2])] :
                     n \in DOMAIN StatementAt(place).calls} : place \in Places("PLUGIN")}

Recognized == {c \in RouteCalls : c.call.receiver \in c.known}

\* addRoute: a route that is too long is omitted, with a diagnostic.
routes == {c \in Recognized : c.call.route.rooted /\ c.call.route.length <= MaxRoute}

OmittedRoutes == {c \in Recognized : c.call.route.length > MaxRoute}

-----------------------------------------------------------------------------
(***************************************************************************)
(* extractCodeMap.                                                         *)
(***************************************************************************)
Manifests ==
    {path \in DOMAIN sources : path.stem = "package" /\ path.ext = ".json"}

\* parseManifest: an object is a manifest, whatever fields it has to leave out.
manifests ==
    {path \in Manifests : /\ sources[path].syntax = "OK"
                          /\ sources[path].json \in {"OBJECT", "FAULTY_OBJECT"}}

\* An import of a test that is repeated is one association.
testAssociations ==
    {[source |-> item.at[1], target |-> item.target, specifier |-> item.specifier] :
        item \in {i \in imports : /\ isTestPath(i.at[1])
                                  /\ i.target # NoPath
                                  /\ ~isTestPath(i.target)}}

Diagnosed ==
    \/ OmittedRoutes # {}
    \/ \E path \in DOMAIN sources : sources[path].syntax = "ERROR"
    \/ \E path \in Manifests : sources[path].json # "OBJECT"

completeness == IF Diagnosed THEN "PARTIAL" ELSE "COMPLETE"

ExportListPairs ==
    UNION {{<<place, pair>> : pair \in StatementAt(place).pairs} :
              place \in Places("EXPORT_LIST")}

\* What ExtractionBudget.record counts, but for the dependencies of a manifest.
RecordCount ==
    Cardinality(DOMAIN sources) + Cardinality(imports) + Cardinality(reexports)
    + Cardinality(ExportListPairs) + Cardinality(directlyExported)
    + Cardinality(contracts) + Cardinality(routes) + Cardinality(manifests)
    + Cardinality(testAssociations)

-----------------------------------------------------------------------------
(***************************************************************************)
(* extractedMembers.  "of" tells the members of different records apart.   *)
(***************************************************************************)
fileKey(path) == <<"file", path>>

Asset(kind, key, length, label, trimmed, of) ==
    [kind |-> kind, key |-> key, length |-> length, label |-> label,
     trimmed |-> trimmed, of |-> of]

contractKey(c) == <<"contract", c.at, c.name>>
routeKey(c) == <<"route", c.at, c.call.method, c.call.route>>

contractKeyLength(c) == PathLength(c.at[1]) + 2
routeKeyLength(c) == PathLength(c.at[1]) + c.call.route.length + 2

FileAssets ==
    {Asset("FILE", fileKey(p), PathLength(p) + 1, PathLength(p), TRUE, p) : p \in DOMAIN sources}

PackageAssets ==
    {Asset("PACKAGE", <<"package", p>>, PathLength(p) + 1, 1, TRUE, p) : p \in manifests}

ContractAssets ==
    {Asset("CONTRACT", contractKey(c), contractKeyLength(c), 1, TRUE, c) : c \in contracts}

RouteAssets ==
    {Asset("ROUTE", routeKey(c), routeKeyLength(c), c.call.route.length + 1,
           c.call.route.trimmed, c) : c \in routes}

Assets == FileAssets \cup PackageAssets \cup ContractAssets \cup RouteAssets

Edge(kind, key, length, from, to, of) ==
    [kind |-> kind, key |-> key, length |-> length, from |-> from, to |-> to, of |-> of]

DeclarationEdges ==
    {Edge("DECLARES_CONTRACT", <<"declares", a.key>>, a.length + 1, a.key,
          fileKey(a.of.at[1]), a.of) : a \in ContractAssets}
    \cup {Edge("DECLARES_ROUTE", <<"declares", a.key>>, a.length + 1, a.key,
               fileKey(a.of.at[1]), a.of) : a \in RouteAssets}
    \cup {Edge("DECLARES_PACKAGE", <<"declares", a.key>>, a.length, a.key,
               fileKey(a.of), a.of) : a \in PackageAssets}

LinkLength(source, specifier, target) ==
    1 + PathLength(source) + SpecifierLength(specifier) + PathLength(target)

ImportEdges ==
    {Edge("IMPORTS", <<"imports", i.at[1], i.specifier, i.target>>,
          LinkLength(i.at[1], i.specifier, i.target),
          fileKey(i.at[1]), fileKey(i.target), i) : i \in {j \in imports : j.target # NoPath}}

ReexportEdges ==
    {Edge("REEXPORTS", <<"reexports", e.at[1], e.name, e.specifier, e.target>>,
          LinkLength(e.at[1], e.specifier, e.target) + 1,
          fileKey(e.at[1]), fileKey(e.target), e) : e \in {f \in reexports : f.target # NoPath}}

TestEdges ==
    {Edge("TEST_IMPORTS", <<"test-imports", t.source, t.target, t.specifier>>,
          LinkLength(t.source, t.specifier, t.target),
          fileKey(t.source), fileKey(t.target), t) : t \in testAssociations}

Edges == DeclarationEdges \cup ImportEdges \cup ReexportEdges \cup TestEdges

-----------------------------------------------------------------------------
(***************************************************************************)
(* createCodeMapProjectionRevision, and what the route answers.            *)
(***************************************************************************)
KeysAreUnique(members) == \A m, n \in members : m.key = n.key => m = n

\* buildAssets.
AssetsAccepted ==
    /\ Cardinality(Assets) <= MaxAssets
    /\ KeysAreUnique(Assets)
    /\ \A a \in Assets : a.length <= MaxKey /\ a.label <= MaxLabel /\ a.trimmed

\* buildEdges.
EdgesAccepted ==
    /\ Cardinality(Edges) <= MaxEdges
    /\ KeysAreUnique(Edges)
    /\ \A e \in Edges : e.length <= MaxKey /\ e.from # e.to

Refused(code) == [code |-> code, assets |-> {}, edges |-> {}]

\* A limit of the extraction is a conflict; what the projection refuses, whatever
\* it is, is an internal error.
mapping ==
    IF RecordCount > MaxRecords THEN Refused("CONFLICT")
    ELSE IF ~(AssetsAccepted /\ EdgesAccepted) THEN Refused("INTERNAL_ERROR")
    ELSE [code |-> completeness, assets |-> Assets, edges |-> Edges]

-----------------------------------------------------------------------------
(***************************************************************************)
(* The references.  What a specifier names is said without a search, what  *)
(* cannot be mapped by the statements themselves.                          *)
(***************************************************************************)
Leads(name) == name \notin Still \cup {".."}

\* How deep the first n names of a trail lead, each a step down, one up or none.
Depth(trail, n) ==
    Cardinality({i \in 1 .. n : Leads(trail[i])}) - Cardinality({i \in 1 .. n : trail[i] = ".."})

Inside(trail) == \A n \in DOMAIN trail : Depth(trail, n) >= 0

\* Where it ends: at each depth, the name by which it was last entered.
Place(trail) ==
    [k \in 1 .. Depth(trail, Len(trail)) |->
        trail[Max({i \in DOMAIN trail : Depth(trail, i) = k /\ Leads(trail[i])})]]

\* The trail through the directories of the source leads to the file, which has
\* to be named in full if the last name on it could be a file's, or to its index;
\* and nowhere above the root.  The root, and what is named as a directory by a
\* slash at the end, mean no file.
Names(source, specifier, path) ==
    LET trail == source.dir \o specifier.names
        place == Place(trail)
        name == Last(place)
    IN  /\ relative(specifier) /\ Last(trail) # ""
        /\ Inside(trail) /\ place # <<>>
        /\ IF name \in DOMAIN FileNames
           THEN /\ path.dir = Front(place)
                /\ path.stem = FileNames[name].stem /\ path.ext = FileNames[name].ext
           ELSE \/ Append(path.dir, path.stem) = place
                \/ path.dir = place /\ path.stem = "index"

\* The one file that a specifier may mean.
Means(source, specifier, path) ==
    {q \in DOMAIN sources : Names(source, specifier, q)} = {path}

\* export { } from a file says nothing of it.
Speaks(place) ==
    StatementAt(place).kind = "EXPORT_FROM" => StatementAt(place).names # {}

SourceLinks(kind) ==
    UNION {{<<place[1], path>> : path \in
               {q \in DOMAIN sources : Means(place[1], StatementAt(place).specifier, q)}} :
              place \in {q \in Places(kind) : Speaks(q)}}

LinksAreExact(map) ==
    LET Linked(kind) == {<<e.from[2], e.to[2]>> : e \in {f \in map.edges : f.kind = kind}}
    IN  /\ Linked("IMPORTS") = SourceLinks("IMPORT")
        /\ Linked("REEXPORTS") = SourceLinks("EXPORT_FROM")
        /\ Linked("TEST_IMPORTS") =
              {link \in SourceLinks("IMPORT") : isTestPath(link[1]) /\ ~isTestPath(link[2])}

\* Two statements that say the same of one target; a file that names itself; a
\* contract under two names.
SaysTwice(kind) ==
    \E p, q \in Places(kind), path \in DOMAIN sources :
        /\ p[1] = q[1] /\ p # q
        /\ StatementAt(p).specifier = StatementAt(q).specifier
        /\ Means(p[1], StatementAt(p).specifier, path)
        /\ kind = "EXPORT_FROM" => StatementAt(p).names \cap StatementAt(q).names # {}

NamesItself ==
    \E place \in Places("IMPORT") \cup Places("EXPORT_FROM") :
        Speaks(place) /\ Means(place[1], StatementAt(place).specifier, place[1])

HasTwoNames == \E place \in localContracts : Cardinality(exportedNames(place)) > 1

\* A path, a route or a key over its limit, and too many members.
Oversized ==
    \/ \E path \in DOMAIN sources : PathLength(path) > MaxLabel
    \/ \E c \in routes : c.call.route.length >= MaxLabel \/ ~c.call.route.trimmed
    \/ \E m \in Assets \cup Edges : m.length > MaxKey
    \/ Cardinality(Assets) > MaxAssets
    \/ Cardinality(Edges) > MaxEdges

\* A map has an edge for every import and every export from another file that
\* can mean one file only (Names says how), tests among them, and no other
\* (docs/architecture/DOMAIN_MODEL.md:295); and what has no map is what the
\* limits, or one of three things that a program may well say, exclude.
MembersAreExact ==
    CASE mapping.code = "CONFLICT" -> RecordCount > MaxRecords
      [] mapping.code = "INTERNAL_ERROR" ->
            \/ SaysTwice("IMPORT") \/ SaysTwice("EXPORT_FROM")
            \/ NamesItself \/ HasTwoNames \/ Oversized
      [] OTHER ->
            /\ LinksAreExact(mapping)
            /\ ~(SaysTwice("IMPORT") \/ SaysTwice("EXPORT_FROM"))
            /\ ~(NamesItself \/ HasTwoNames)

\* An internal error is a failure of the storage or the service, a limit a
\* conflict (docs/api/API_REFERENCE.md:33, :250): no sources are answered with one.
SourcesAreNoFailure == mapping.code # "INTERNAL_ERROR"
=============================================================================
