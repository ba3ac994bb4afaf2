---------------------------- MODULE EvidencePage ----------------------------
(***************************************************************************)
(* The Linked Evidence page of the web client (EvidenceTimeline.tsx): it   *)
(* asks for the Mission, then for the first page of four collections, in   *)
(* four requests that are answered in any order, and compares the answers  *)
(* with one another.  Meanwhile, others import.                            *)
(***************************************************************************)
EXTENDS EvidenceTimeline

VARIABLE page   \* what the client has of the page

pageVars == <<evidenceVars, page>>

Collections == {"EVIDENCE_SOURCES", "TIMELINE", "CLAIMS", "SUPERSESSIONS"}

\* The identities in each collection; an event is that of its source.
Everything ==
    [c \in Collections |->
        CASE c = "EVIDENCE_SOURCES" -> DOMAIN evidence
          [] c = "TIMELINE"         -> DOMAIN sequences
          [] c = "CLAIMS"           -> DOMAIN claims
          [] c = "SUPERSESSIONS"    -> DOMAIN links]

\* began: what was stored when the load began.
Loading == [view |-> "LOADING", began |-> Everything, got |-> <<>>]

PageInit == EvidenceInit /\ page = Loading

\* The four collections are asked for once the Mission is there.  (None of what
\* the Mission itself shows is compared.)
FirstPage(c) == IF c = "TIMELINE" THEN TimelinePage(0) ELSE FirstOf(Everything[c])

Receive(c) ==
    /\ page.view = "LOADING"
    /\ c \in Collections \ DOMAIN page.got
    /\ page' = [page EXCEPT !.got =
           Insert(@, c, [items |-> FirstPage(c), more |-> FirstPage(c) # Everything[c]])]
    /\ UNCHANGED evidenceVars

Items(c) == page.got[c].items

\* Mutant: only the claims and their links say that there is more.
partial_ClaimsOnly == page.got["CLAIMS"].more \/ page.got["SUPERSESSIONS"].more

partial == \E c \in Collections : page.got[c].more

\* What is named is there, unless there is more.  What is said of both sides of
\* a reference was compared when it was stored.
isConsistent ==
    \/ partial
    \/ /\ Items("TIMELINE") \subseteq Items("EVIDENCE_SOURCES")
       /\ {claims[c].source : c \in Items("CLAIMS")} \subseteq Items("EVIDENCE_SOURCES")
       /\ UNION {{links[l].predecessor, links[l].successor} : l \in Items("SUPERSESSIONS")}
              \subseteq Items("CLAIMS")

Show ==
    /\ page.view = "LOADING"
    /\ DOMAIN page.got = Collections
    /\ page' = [page EXCEPT !.view = IF isConsistent THEN "READY" ELSE "INTEGRITY_ERROR"]
    /\ UNCHANGED evidenceVars

\* A request failed or timed out.
ShowError ==
    /\ page.view = "LOADING"
    /\ page' = [page EXCEPT !.view = "ERROR", !.got = <<>>]
    /\ UNCHANGED evidenceVars

\* A retry, an import that succeeded, or another Mission and back.  The requests
\* of the load before are aborted, and their answers dropped.
Reload ==
    /\ page' = Loading
    /\ UNCHANGED evidenceVars

PageNext ==
    \/ EvidenceNext /\ UNCHANGED page
    \/ \E c \in Collections : Receive(c)
    \/ Show
    \/ ShowError
    \/ Reload

PageSpec == PageInit /\ [][PageNext]_pageVars

-----------------------------------------------------------------------------
\* A page that is shown as complete has everything that was stored when it was
\* asked for, and whatever that names; and a page that reports damaged
\* evidence, where nothing is damaged, was overtaken by an import, so that a
\* retry alone can help (docs/product/USER_GUIDE.md:216 tells to restore a
\* database).
PageIsHonest ==
    /\ page.view = "READY" /\ ~ partial =>
           /\ \A c \in Collections : page.began[c] \subseteq Items(c)
           /\ \A c \in Items("CLAIMS") : claims[c].source \in Items("EVIDENCE_SOURCES")
    /\ page.view = "INTEGRITY_ERROR" => page.began # Everything
=============================================================================
