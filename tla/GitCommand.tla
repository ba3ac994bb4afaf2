----------------------------- MODULE GitCommand -----------------------------
(***************************************************************************)
(* One run of a Git command in a child process (FixedGitCommandRunner.run, *)
(* and runGit of the committed-source reader, which also writes to the     *)
(* child).  The event loop delivers output, an error, the close of the     *)
(* child and the timeout in whatever order they become ready; the first    *)
(* that decides settles the promise and the others find it settled.        *)
(***************************************************************************)
EXTENDS Integers

CONSTANTS
    MaximumOutputBytes,   \* limit on stdout and stderr together
    MaxWritten,           \* bound on what the child writes to either stream
    HasInput              \* whether the child is given an input to read

VARIABLES
    child,         \* external: "starting", "running", "exited", "signalled" or "failed"
    exitCode,      \* external: what the child exits with, NoCode after a signal
    written,       \* external: bytes written by the child: [stdout, stderr]
    killSent,      \* child.kill() was called
    delivered,     \* bytes of either stream delivered as data events
    outputBytes,   \* bytes counted against the limit
    retained,      \* bytes of stdoutChunks
    timer,         \* the timeout is armed
    settled,
    outcome        \* what the promise settled with

childVars == <<child, exitCode, written>>
commandVars == <<childVars, killSent, delivered, outputBytes, retained, timer,
                 settled, outcome>>

ASSUME LimitsAreNat == MaximumOutputBytes \in Nat /\ MaxWritten \in Nat

NoCode == -1      \* the exit code is null
ExitCodes == {0, 1}
Streams == {"stdout", "stderr"}

Pending == [error |-> "NONE", code |-> NoCode, stdout |-> 0]

\* spawn() and setTimeout()
CommandInit ==
    /\ child = "starting"
    /\ exitCode = NoCode
    /\ written = [s \in Streams |-> 0]
    /\ killSent = FALSE
    /\ delivered = [s \in Streams |-> 0]
    /\ outputBytes = 0
    /\ retained = 0
    /\ timer = TRUE
    /\ settled = FALSE
    /\ outcome = Pending

-----------------------------------------------------------------------------
(***************************************************************************)
(* The child.                                                              *)
(***************************************************************************)
Spawned ==
    /\ child = "starting"
    /\ child' \in {"running", "failed"}
    /\ UNCHANGED <<exitCode, written>>

Writes(s) ==
    /\ child = "running"
    /\ written[s] < MaxWritten
    /\ written' = [written EXCEPT ![s] = @ + 1]
    /\ UNCHANGED <<child, exitCode>>

Exits ==
    /\ child = "running"
    /\ child' = "exited"
    /\ exitCode' \in ExitCodes
    /\ UNCHANGED written

\* The signal of child.kill(), or one from elsewhere.
DiesOfSignal ==
    /\ child = "running"
    /\ child' = "signalled"
    /\ UNCHANGED <<exitCode, written>>

Child ==
    /\ Spawned \/ (\E s \in Streams : Writes(s)) \/ Exits \/ DiesOfSignal
    /\ UNCHANGED <<killSent, delivered, outputBytes, retained, timer, settled, outcome>>

-----------------------------------------------------------------------------
(***************************************************************************)
(* The callbacks.                                                          *)
(***************************************************************************)
Kill == killSent' = TRUE

\* finish: the first decision wins and clears the timeout.
finish(error, code) ==
    IF settled THEN UNCHANGED <<settled, timer, outcome>>
    ELSE /\ settled' = TRUE
         /\ timer' = FALSE
         /\ outcome' = [error |-> error, code |-> code, stdout |-> retained]

\* Mutant: output beyond the limit is dropped and the run goes on.
acceptChunk_Truncates(s, n) ==
    /\ outputBytes' = outputBytes + n
    /\ retained' = IF s = "stdout" /\ outputBytes + n <= MaximumOutputBytes
                   THEN retained + n ELSE retained
    /\ UNCHANGED <<killSent, settled, timer, outcome>>

\* acceptChunk: counted, and kept when it is standard output.
acceptChunk(s, n) ==
    IF settled THEN UNCHANGED <<outputBytes, retained, killSent, settled, timer, outcome>>
    ELSE /\ outputBytes' = outputBytes + n
         /\ IF outputBytes + n > MaximumOutputBytes
            THEN /\ Kill
                 /\ finish("OUTPUT_LIMIT", NoCode)
                 /\ UNCHANGED retained
            ELSE /\ retained' = IF s = "stdout" THEN retained + n ELSE retained
                 /\ UNCHANGED <<killSent, settled, timer, outcome>>

\* A data event hands over some of what the child has written.
OnData(s, n) ==
    /\ delivered[s] + n <= written[s]
    /\ delivered' = [delivered EXCEPT ![s] = @ + n]
    /\ acceptChunk(s, n)
    /\ UNCHANGED childVars

\* The child could not be started, or writing its input failed.
OnError ==
    /\ child = "failed" \/ HasInput
    /\ finish("FAILED", NoCode)
    /\ UNCHANGED <<childVars, killSent, delivered, outputBytes, retained>>

\* close comes after the end of the child and of both its streams.
OnClose ==
    /\ child \in {"exited", "signalled"}
    /\ delivered = written
    /\ IF exitCode = NoCode THEN finish("FAILED", NoCode) ELSE finish("NONE", exitCode)
    /\ UNCHANGED <<childVars, killSent, delivered, outputBytes, retained>>

\* Mutant: the timeout rejects and leaves the child running.
OnTimeout_NoKill ==
    /\ timer
    /\ finish("TIMEOUT", NoCode)
    /\ UNCHANGED <<childVars, killSent, delivered, outputBytes, retained>>

\* Mutant: the timeout kills the child and leaves it to close to settle.
OnTimeout_WaitsForClose ==
    /\ timer
    /\ Kill
    /\ timer' = FALSE
    /\ UNCHANGED <<childVars, delivered, outputBytes, retained, settled, outcome>>

OnTimeout ==
    /\ timer
    /\ Kill
    /\ finish("TIMEOUT", NoCode)
    /\ UNCHANGED <<childVars, delivered, outputBytes, retained>>

CommandNext ==
    \/ Child
    \/ \E s \in Streams, n \in 1 .. MaxWritten : OnData(s, n)
    \/ OnError
    \/ OnClose
    \/ OnTimeout

\* Nothing is assumed of the child; the timer of an event loop that runs fires.
CommandSpec == CommandInit /\ [][CommandNext]_commandVars /\ WF_commandVars(OnTimeout)

-----------------------------------------------------------------------------
\* The run keeps its types and its counters agree with what was delivered.
CommandTypeOK ==
    /\ child \in {"starting", "running", "exited", "signalled", "failed"}
    /\ exitCode \in ExitCodes \cup {NoCode}
    /\ written \in [Streams -> 0 .. MaxWritten]
    /\ delivered \in [Streams -> 0 .. MaxWritten]
    /\ outputBytes <= delivered["stdout"] + delivered["stderr"]
    /\ retained <= MaximumOutputBytes
    /\ retained <= delivered["stdout"]
    /\ timer \in BOOLEAN /\ settled \in BOOLEAN
    /\ timer <=> ~ settled
    /\ outcome.error \in {"NONE", "OUTPUT_LIMIT", "FAILED", "TIMEOUT"}

\* A run that succeeds hands over everything the child wrote to its standard
\* output, and the code the child itself exited with; a child that was killed
\* or whose output was cut never passes for one that has finished.
SuccessIsWhole ==
    settled /\ outcome.error = "NONE" =>
        /\ child = "exited"
        /\ outcome.code = exitCode
        /\ outcome.stdout = written["stdout"]
        /\ ~ killSent

\* The promise is settled once: what comes late changes nothing.
FirstDecisionStands == [][settled => outcome' = outcome]_commandVars

\* No run that was cut short leaves its Git child to itself: it has been sent
\* the signal, unless writing its input failed.
NoStrayChild ==
    settled /\ child = "running" => killSent \/ (HasInput /\ outcome.error = "FAILED")
=============================================================================
