--------------------------- MODULE ReleaseHistory ---------------------------
(***************************************************************************)
(* What the release-assessment history promises, with no requests and no   *)
(* tables: it is a list of distinct states of the readiness inputs, each   *)
(* appended while it was the current state.  A state that has been         *)
(* assessed and has passed never becomes current again, so an assessment   *)
(* once stale is stale for good.                                           *)
(***************************************************************************)
EXTENDS Sequences

CONSTANT Assessable   \* the input states an assessment may be made of

VARIABLES
    current,   \* the state of the inputs now
    history    \* the assessed states, oldest first

Recorded == {history[i] : i \in DOMAIN history}

Init ==
    /\ current \notin Assessable
    /\ history = <<>>

\* The inputs change, never back to a state that has been assessed.
Supply ==
    /\ current' # current
    /\ current' \notin Recorded
    /\ UNCHANGED history

Record ==
    /\ current \in Assessable
    /\ current \notin Recorded
    /\ history' = Append(history, current)
    /\ UNCHANGED current

Next == Supply \/ Record

Spec == Init /\ [][Next]_<<current, history>>
=============================================================================
