--------------------------- MODULE CitedExplanation ---------------------------
(***************************************************************************)
(* A cited explanation: one of six questions is answered from the latest   *)
(* assessment of a Mission.  The service compiles an evidence pack of what *)
(* the question is about, redacts and bounds it, and a renderer that sees  *)
(* nothing but the pack writes the answer, every statement of which cites  *)
(* items of the pack.  Nothing is stored: the only variable is the input   *)
(* of one call.                                                            *)
(***************************************************************************)
EXTENDS ImpactAnalysis, ClaimComparison

CONSTANTS
    MaxPackItems,       \* items that fit in MAXIMUM_EVIDENCE_PACK_TOKEN_UPPER_BOUND bytes
    MaxInspectedLinks,  \* MAXIMUM_TWIN_PROJECTION_RELATIONSHIPS
    Questions           \* the inputs of the call

\* [question, assessed] and, if there is an assessment, [set, of, analysed,
\* missing, changes, later]: its claim set, the [source, label, text] of each
\* claim, the input of its impact analysis, the requirements it found no support
\* for, the number of changes that made its predecessor stale, and the links
\* stored since.
VARIABLE asked

QuestionKinds ==
    {"RELEASE", "CONFLICTS", "IMPACT", "MISSING_VALIDATION", "NEXT_ACTIONS", "POST_CORRECTION"}

ValidationGaps == {"REQUIRED_VALIDATION_RESULT_ABSENT", "REQUIRED_VALIDATION_PATH_ABSENT"}

-----------------------------------------------------------------------------
(***************************************************************************)
(* The findings of the assessment.                                         *)
(***************************************************************************)
Outcome(q) == analyzeChangeImpact(q.analysed).outcome

ImpactPaths(q) == {p.key : p \in UNION {Outcome(q)[r].paths : r \in q.analysed.requirements}}

\* supportingPathKey: of the one path there is, or of the first of several.
SupportingPath(found) ==
    IF found.paths = {} THEN {} ELSE {(CHOOSE p \in found.paths : TRUE).key}

ImpactGaps(outcome) ==
    {[kind |-> "IMPACT_GAP", requirement |-> r.id, reason |-> outcome[r].reason,
      path |-> SupportingPath(outcome[r])] :
        r \in {s \in DOMAIN outcome : outcome[s].reason # "NONE"}}

allFindings(q) ==
    LET compared == reconcileClaimSet(q.set)
    IN  {[kind |-> "CONFLICT", claims |-> pair] : pair \in compared.conflict}
        \cup {[kind |-> "AMBIGUOUS", claims |-> pair] : pair \in compared.ambiguous}
        \cup {[kind |-> "MISSING", support |-> m.support, key |-> m.key] : m \in q.missing}
        \cup (IF q.changes = 0 THEN {} ELSE {[kind |-> "STALE", changes |-> q.changes]})
        \cup ImpactGaps(Outcome(q))

-----------------------------------------------------------------------------
(***************************************************************************)
(* compileEvidencePack.                                                    *)
(***************************************************************************)
Relevant(question, finding) ==
    \/ question \in {"RELEASE", "NEXT_ACTIONS"}
    \/ question = "CONFLICTS" /\ finding.kind \in {"CONFLICT", "AMBIGUOUS"}
    \/ question = "IMPACT" /\ finding.kind = "IMPACT_GAP"
    \/ /\ question = "MISSING_VALIDATION"
       /\ \/ finding.kind = "MISSING" /\ finding.support = "VALIDATION_RESULT"
          \/ finding.kind = "IMPACT_GAP" /\ finding.reason \in ValidationGaps
    \/ question = "POST_CORRECTION" /\ finding.kind = "STALE"

ClaimsNamed(findings) ==
    UNION {f.claims : f \in {g \in findings : g.kind \in {"CONFLICT", "AMBIGUOUS"}}}

PathsNamed(findings) ==
    UNION {f.path : f \in {g \in findings : g.kind = "IMPACT_GAP"}}

\* Mutant: the claims of the supersessions are left out.
selectionOf_FindingsOnly(q, findings, links) ==
    [findings |-> findings,
     links    |-> links,
     claims   |-> ClaimsNamed(findings),
     paths    |-> IF q.question = "IMPACT" THEN ImpactPaths(q) ELSE PathsNamed(findings)]

\* The findings and links a question is about, with the claims and paths they name.
selectionOf(q, findings, links) ==
    [findings |-> findings,
     links    |-> links,
     claims   |-> ClaimsNamed(findings) \cup UNION {{l.predecessor, l.successor} : l \in links},
     paths    |-> IF q.question = "IMPACT" THEN ImpactPaths(q) ELSE PathsNamed(findings)]

\* All paths are about the impact, all corrections about what they changed.
questionSelection(q, links) ==
    selectionOf(q, {f \in allFindings(q) : Relevant(q.question, f)},
                IF q.question = "POST_CORRECTION" THEN links ELSE {})

AssessmentItem == [item |-> "ASSESSMENT"]

Items(q, selected) ==
    {AssessmentItem}
    \cup {[item |-> "EVIDENCE_SOURCE", source |-> q.of[c].source] : c \in selected.claims}
    \cup {[item |-> "CLAIM", claim |-> c, label |-> q.of[c].label] : c \in selected.claims}
    \cup {[item |-> "CLAIM_SUPERSESSION", link |-> l] : l \in selected.links}
    \cup {[item |-> "RECONCILIATION_FINDING", finding |-> f] : f \in selected.findings}
    \cup {[item |-> "IMPACT_PATH", path |-> p] : p \in selected.paths}

\* redactPayload: redaction is of the JSON of an item as text, then as JSON.  A
\* claim that ends in an assignment of a secret, even a redacted one, takes the
\* quote at its end for a part of the secret, and is no JSON any more.
RedactionFails(q, claim) == q.of[claim].text = "ENDS_IN_SECRET"

TooLong(q, claim) == q.of[claim].text = "LONG"

\* The first claim that fails decides how.
packOf(q, claims, items) ==
    IF \E c \in claims : RedactionFails(q, c) /\ \A d \in claims : TooLong(q, d) => c < d
    THEN [error |-> "EVIDENCE_PACK_INPUT_INVALID"]
    ELSE IF (\E c \in claims : TooLong(q, c)) \/ Cardinality(items) > MaxPackItems
    THEN [error |-> "EVIDENCE_PACK_LIMIT_EXCEEDED"]
    ELSE [error |-> "NONE", question |-> q.question, items |-> items]

compileEvidencePack(q, links) ==
    LET Pack(selected) == packOf(q, selected.claims, Items(q, selected))
    IN  Pack(questionSelection(q, links))

-----------------------------------------------------------------------------
(***************************************************************************)
(* buildExplanation, which sees the pack alone.  A citation is its item.   *)
(***************************************************************************)
Of(pack, kind) == {i \in pack.items : i.item = kind}

ClaimItems(pack, claims) == {i \in Of(pack, "CLAIM") : i.claim \in claims}

PathItems(pack, paths) == {i \in Of(pack, "IMPACT_PATH") : i.path \in paths}

supersededClaimIds(pack) == {i.link.predecessor : i \in Of(pack, "CLAIM_SUPERSESSION")}

statement(category, says, cites) == [category |-> category, says |-> says, cites |-> cites]

addClaimStatement(pack, i) ==
    {statement(i.label, IF i.claim \in supersededClaimIds(pack) THEN "HISTORICAL" ELSE "CURRENT", {i})}

addSupersessionStatement(pack, i) ==
    {statement("FACT", "CORRECTION",
               {i} \cup ClaimItems(pack, {i.link.predecessor, i.link.successor}))}

\* What a finding names besides itself.
NamedBy(pack, finding) ==
    CASE finding.kind \in {"CONFLICT", "AMBIGUOUS"} -> ClaimItems(pack, finding.claims)
      [] finding.kind = "IMPACT_GAP"                -> PathItems(pack, finding.path)
      [] OTHER                                      -> {}

addFindingStatements(pack, i) ==
    LET f     == i.finding
        cites == {i} \cup NamedBy(pack, f)
    IN  {statement(IF f.kind \in {"CONFLICT", "AMBIGUOUS"} THEN "CONFLICT" ELSE "GAP",
                   CASE f.kind = "MISSING"    -> f.support
                     [] f.kind = "IMPACT_GAP" -> f.reason
                     [] OTHER                 -> f.kind, cites),
         statement("NEXT_ACTION", f.kind, cites)}

addImpactPathStatement(i) == {statement("FACT", "PATH", {i})}

StatementsOf(pack, i) ==
    CASE i.item = "CLAIM"                  -> addClaimStatement(pack, i)
      [] i.item = "CLAIM_SUPERSESSION"     -> addSupersessionStatement(pack, i)
      [] i.item = "RECONCILIATION_FINDING" -> addFindingStatements(pack, i)
      [] i.item = "IMPACT_PATH"            -> addImpactPathStatement(i)
      [] OTHER                             -> {}

\* Whatever an item names is in the pack.  (Else OFFLINE_EXPLANATION_INPUT_INVALID.)
Resolves(pack, i) ==
    LET named == IF i.item = "CLAIM_SUPERSESSION" THEN {i.link.predecessor, i.link.successor}
                 ELSE IF i.item = "RECONCILIATION_FINDING" THEN ClaimsNamed({i.finding}) ELSE {}
        paths == IF i.item = "RECONCILIATION_FINDING" THEN PathsNamed({i.finding}) ELSE {}
    IN  /\ named \subseteq {j.claim : j \in Of(pack, "CLAIM")}
        /\ paths \subseteq {j.path : j \in Of(pack, "IMPACT_PATH")}

FindingsIn(pack) == {i.finding : i \in Of(pack, "RECONCILIATION_FINDING")}

validationGapCount(pack) ==
    Cardinality({f \in FindingsIn(pack) :
        \/ f.kind = "MISSING" /\ f.support = "VALIDATION_RESULT"
        \/ f.kind = "IMPACT_GAP" /\ f.reason \in ValidationGaps})

\* The counts that the answer states.
answerText(pack, statements) ==
    LET Count(category) == Cardinality({s \in statements : s.category = category})
        Open(kind)      == Cardinality({f \in FindingsIn(pack) : f.kind = kind})
    IN  CASE pack.question = "RELEASE"   -> <<Count("CONFLICT"), Count("GAP")>>
          [] pack.question = "CONFLICTS" -> <<Count("CONFLICT")>>
          [] pack.question = "IMPACT"    ->
                 <<Cardinality(Of(pack, "IMPACT_PATH")), Open("IMPACT_GAP")>>
          [] pack.question = "MISSING_VALIDATION" -> <<validationGapCount(pack)>>
          [] pack.question = "NEXT_ACTIONS"       -> <<Count("NEXT_ACTION")>>
          [] pack.question = "POST_CORRECTION"    ->
                 <<Cardinality(Of(pack, "CLAIM_SUPERSESSION")), Open("STALE")>>

buildExplanation(pack) ==
    LET statements == UNION {StatementsOf(pack, i) : i \in pack.items}
    IN  IF \E i \in pack.items : ~ Resolves(pack, i)
        THEN [error |-> "OFFLINE_EXPLANATION_INPUT_INVALID"]
        ELSE [error      |-> "NONE",
              answer     |-> answerText(pack, statements),
              statements |-> statements,
              citations  |-> {AssessmentItem} \cup UNION {s.cites : s \in statements}]

-----------------------------------------------------------------------------
(***************************************************************************)
(* createSyntheticEdgeCaseSuggestions and the service.                     *)
(***************************************************************************)
suggestionKind(finding) ==
    CASE finding.kind = "CONFLICT"  -> "CONFLICT_BOUNDARY"
      [] finding.kind = "AMBIGUOUS" -> "INTERPRETATION_VARIANT"
      [] finding.kind = "STALE"     -> "DEPENDENCY_CHANGE_REPLAY"
      [] finding.kind = "MISSING"   ->
             IF finding.support = "VALIDATION_RESULT"
             THEN "MISSING_VALIDATION_PAIR" ELSE "MISSING_EVIDENCE_PAIR"
      [] finding.kind = "IMPACT_GAP" ->
             IF finding.reason \in ValidationGaps
             THEN "VALIDATION_GAP_VARIANT" ELSE "IMPLEMENTATION_GAP_VARIANT"

createSyntheticEdgeCaseSuggestions(pack) ==
    {[kind |-> suggestionKind(i.finding), cites |-> i] : i \in Of(pack, "RECONCILIATION_FINDING")}
    \cup {[kind |-> "IMPACT_PATH_INTERRUPTION", cites |-> i] : i \in Of(pack, "IMPACT_PATH")}

\* Of all links of the Mission, those the assessment depends on.
exactSupersessions(q) == {l \in q.set.links \cup q.later : l \in q.set.links}

Refused(code) == [error |-> code]

\* Whatever fails in the pack or in the rendering is reported as an integrity
\* error, a pack that is too large too.
answered(pack, explanation, suggestions) ==
    IF pack.error # "NONE" THEN Refused("CITED_EXPLANATION_INTEGRITY_INVALID")
    ELSE IF explanation.error # "NONE" THEN Refused("CITED_EXPLANATION_INTEGRITY_INVALID")
    ELSE [error       |-> "NONE",
          disclosed   |-> pack.items,
          explanation |-> explanation,
          suggestions |-> suggestions,
          details     |-> explanation.citations \cup {s.cites : s \in suggestions}]

execute(q) ==
    LET Rendered(pack) ==
            answered(pack, buildExplanation(pack), createSyntheticEdgeCaseSuggestions(pack))
    IN  IF ~ q.assessed THEN Refused("CITED_EXPLANATION_ASSESSMENT_UNAVAILABLE")
        ELSE IF q.set.links # {} /\ Cardinality(q.set.links \cup q.later) > MaxInspectedLinks
        THEN Refused("CITED_EXPLANATION_LIMIT_EXCEEDED")
        ELSE Rendered(compileEvidencePack(q, exactSupersessions(q)))

\* A question, and the assessment it is asked about.  Its claim set was reconciled
\* and its impact analysed without an error, or there would be no assessment.
Askable(q) ==
    /\ q.question \in QuestionKinds
    /\ q.assessed \in BOOLEAN
    /\ q.assessed =>
          /\ Created(q.set.claims) /\ IsFiniteSet(q.set.links)
          /\ reconcileClaimSet(q.set).error = "NONE"
          /\ \A c \in DOMAIN q.set.claims : q.of[c].label \in {"FACT", "INFERENCE"}
          /\ \A c \in DOMAIN q.set.claims : q.of[c].text \in {"PLAIN", "ENDS_IN_SECRET", "LONG"}
          /\ IsFiniteSet(q.analysed.requirements) /\ DeclarationsAccepted(q.analysed)
          /\ analyzeChangeImpact(q.analysed).error = "NONE"
          /\ IsFiniteSet(q.missing)
          /\ \A m \in q.missing : m \in [support : {"EVIDENCE_SOURCE", "VALIDATION_RESULT"}, key : {m.key}]
          /\ q.changes \in Nat

ExplanationInit == asked \in {q \in Questions : Askable(q)}

-----------------------------------------------------------------------------
(***************************************************************************)
(* Reference definitions, of the assessment and not of the pack.           *)
(***************************************************************************)
Superseded(q, c) == \E l \in q.set.links : l.predecessor = c

\* The claims the question is about.
Concerned(q) ==
    {c \in DOMAIN q.set.claims :
        \/ /\ q.question \in {"RELEASE", "NEXT_ACTIONS", "CONFLICTS"}
           /\ ~ Superseded(q, c)
           /\ \E d \in DOMAIN q.set.claims :
                 ~ Superseded(q, d) /\ Differ(q.set.claims[c], q.set.claims[d])
        \/ /\ q.question = "POST_CORRECTION"
           /\ \E l \in q.set.links : c \in {l.predecessor, l.successor}}

Disputes(q) ==
    Cardinality({pair \in SUBSET DOMAIN q.set.claims :
        \E c, d \in DOMAIN q.set.claims :
            /\ pair = {c, d} /\ ~ Superseded(q, c) /\ ~ Superseded(q, d)
            /\ Differ(q.set.claims[c], q.set.claims[d])})

Gaps(q, reasons) ==
    Cardinality({r \in q.analysed.requirements : Outcome(q)[r].reason \in reasons})

GapReasons ==
    ValidationGaps \cup {"CRITICAL_IMPLEMENTATION_ASSET_ABSENT",
        "CRITICAL_IMPLEMENTATION_PATH_ABSENT", "IMPLEMENTATION_SUPPORT_UNAVAILABLE"}

\* The counts of the open findings of the assessment.
Counts(q) ==
    LET stale == IF q.changes = 0 THEN 0 ELSE 1
        open  == Cardinality(q.missing) + stale + Gaps(q, GapReasons)
    IN  CASE q.question = "RELEASE"            -> <<Disputes(q), open>>
          [] q.question = "CONFLICTS"          -> <<Disputes(q)>>
          [] q.question = "IMPACT"             -> <<Cardinality(ImpactPaths(q)), Gaps(q, GapReasons)>>
          [] q.question = "MISSING_VALIDATION" ->
                 <<Cardinality({m \in q.missing : m.support = "VALIDATION_RESULT"})
                     + Gaps(q, ValidationGaps)>>
          [] q.question = "NEXT_ACTIONS"       -> <<Disputes(q) + open>>
          [] q.question = "POST_CORRECTION"    -> <<Cardinality(q.set.links), stale>>

-----------------------------------------------------------------------------
(***************************************************************************)
(* Properties.                                                             *)
(***************************************************************************)
\* An answer, though written from the pack alone, states the counts of the
\* assessment; a claim is said to hold exactly when no correction supersedes it;
\* a correction or a dispute cites the two claims it is between; and no item is
\* disclosed that no statement rests on, but for the sources of its claims
\* (docs/architecture/DOMAIN_MODEL.md:311 and :319).
AnswersAreTheAssessment ==
    \A given \in {execute(asked)} : given.error = "NONE" =>
        /\ given.explanation.answer = Counts(asked)
        /\ \A s \in given.explanation.statements :
              /\ s.says \in {"CURRENT", "HISTORICAL"} =>
                    \A i \in s.cites : (s.says = "HISTORICAL") <=> Superseded(asked, i.claim)
              /\ s.category = "CONFLICT" \/ s.says = "CORRECTION" =>
                    Cardinality({i \in s.cites : i.item = "CLAIM"}) = 2
        /\ \A i \in given.disclosed \ given.details :
              /\ i.item = "EVIDENCE_SOURCE"
              /\ \E j \in given.details : j.item = "CLAIM" /\ asked.of[j.claim].source = i.source

\* Every question about an assessment is answered, unless its pack would be too
\* large, too many corrections were stored since, or a claim it is about is too
\* long or ends in an assignment of a secret (README.md:83).
QuestionsAreAnswered ==
    LET links == asked.set.links
        disclosed == Items(asked, questionSelection(asked, links))
    IN  asked.assessed /\ execute(asked).error # "NONE" =>
            \/ Cardinality(disclosed) > MaxPackItems
            \/ Cardinality(links \cup asked.later) > MaxInspectedLinks
            \/ \E c \in Concerned(asked) : asked.of[c].text # "PLAIN"

\* An explanation is given wherever one can be, and says what the assessment says.
ExplanationsAreExact == AnswersAreTheAssessment /\ QuestionsAreAnswered
=============================================================================
