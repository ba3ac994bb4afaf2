----------------------------- MODULE MCEvidence -----------------------------
(* Small instances of EvidencePage for TLC. *)
EXTENDS EvidencePage, TLC

CONSTANTS d1, d2, d3, d4, u1, u2

\* What is explored: imports of claims that race, the page that shows them,
\* uploads that race, or readers of the timeline and of the observations.
VARIABLE part

MCSeriesOf == [d \in Summaries |-> IF d = d4 THEN "other" ELSE "one"]

MCUntilOf == [d \in Summaries |-> IF d = d1 THEN 1 ELSE 2]

\* d2 and d3 end one window at one time.
Symmetry == Permutations({d2, d3}) \cup Permutations(Values) \cup Permutations(Importers)

MCInit ==
    /\ PageInit
    /\ part \in {"CLAIMS", "PAGE", "UPLOADS", "READS"}
    /\ part \in {"CLAIMS", "PAGE"} => clock = 1

\* u1 uploads the given documents, each once.
UploadsOnce(kind, documents) ==
    /\ uploading'[u2] = NoUpload
    /\ uploading'[u1].stage = "PREPARED" =>
           /\ uploading'[u1].kind = kind
           /\ uploading'[u1].document \in documents
           /\ uploading[u1].stage = "NONE" => Existing(uploading'[u1].document) = {}

Uploaded(documents) == \A p \in Uploaders : uploading'[p].stage = "PREPARED" =>
                           uploading'[p].document \in documents

\* At most so many rows, in the order of their identities.
AtMost(n, table) == DOMAIN table \in {1 .. m : m \in 0 .. n}

Idle(p) == importing'[p] = Nothing

\* The claims wait for the sources.  The page shows claims of one value, that are
\* imported one after the other, and waits for what is prepared to be stored.
Bound ==
    CASE part = "CLAIMS" ->
             /\ UNCHANGED <<clock, observed, reader, page>>
             /\ AtMost(2, evidence') /\ AtMost(2, links')
             /\ UploadsOnce("EVIDENCE", {d2, d3})
             /\ uploading' # uploading => claims = <<>> /\ \A p \in Importers : Idle(p)
      [] part = "PAGE" ->
             /\ UNCHANGED <<current, clock, observed, reader>>
             /\ page.view # "LOADING" => UNCHANGED evidenceVars
             /\ page' # page =>
                    /\ uploading[u1] = NoUpload /\ \A p \in Importers : Idle(p)
                    /\ page.view = "LOADING" => page' # Loading
             /\ AtMost(1, links')
             /\ \/ AtMost(2, evidence') /\ AtMost(2, claims')
                \/ AtMost(3, evidence') /\ AtMost(1, claims')
             /\ UploadsOnce("EVIDENCE", {d2, d3, d4})
             /\ \A p, q \in Importers : p = q \/ Idle(p) \/ Idle(q)
             /\ \A p \in Importers, c \in DOMAIN claims :
                    Idle(p) \/ importing'[p].value = claims[c].value
      [] part = "UPLOADS" ->
             /\ UNCHANGED <<claims, links, importing, reader, page>>
             /\ AtMost(2, evidence') /\ Uploaded({d1, d2})
      [] part = "READS" ->
             /\ UNCHANGED <<current, claims, links, importing, page>>
             /\ UploadsOnce("RUNTIME", Documents)

MCNext == PageNext /\ UNCHANGED part /\ Bound

MCSpec == MCInit /\ [][MCNext]_<<pageVars, part>>
=============================================================================
