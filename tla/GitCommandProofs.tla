-------------------------- MODULE GitCommandProofs --------------------------
(***************************************************************************)
(* Proofs about GitCommand and about CodeMapRun, which runs two of them,   *)
(* for any limit, any tree, any output and any order of the callbacks; and *)
(* about CodeMapMembers, what a run makes of the files, for any sources.   *)
(* The invariant of a command says what the counters mean while the        *)
(* promise is open, and what must hold of the child once it is settled;    *)
(* that of a run says what each phase may rely on of the ones before it.   *)
(* The members rest on what a specifier comes to, name by name.            *)
(***************************************************************************)
EXTENDS CodeMapRun, CodeMapMembers, SequenceTheorems, FiniteSetTheorems, WellFoundedInduction,
        TLAPS

ChildTypes ==
    /\ child \in {"starting", "running", "exited", "signalled", "failed"}
    /\ exitCode \in ExitCodes \cup {NoCode}
    /\ exitCode # NoCode <=> child = "exited"
    /\ written \in [Streams -> 0 .. MaxWritten]

RunTypes ==
    /\ delivered \in [Streams -> 0 .. MaxWritten]
    /\ outputBytes \in Nat
    /\ retained \in Nat
    /\ outcome.error \in {"NONE", "OUTPUT_LIMIT", "FAILED", "TIMEOUT"}

Flags ==
    /\ killSent \in BOOLEAN
    /\ settled \in BOOLEAN
    /\ timer \in BOOLEAN
    /\ timer <=> ~ settled

\* What the counters have counted.
CountersOK ==
    /\ outputBytes <= delivered["stdout"] + delivered["stderr"]
    /\ retained <= outputBytes
    /\ retained <= delivered["stdout"]
    /\ retained <= MaximumOutputBytes

\* Until the promise is settled everything that was delivered is kept, and the
\* child has been left alone.
OpenOK ==
    ~ settled =>
        /\ retained = delivered["stdout"]
        /\ outputBytes <= MaximumOutputBytes
        /\ ~ killSent

\* The reasons a promise may have been settled for.
SettledOK ==
    settled =>
        \/ outcome.error # "NONE" /\ killSent
        \/ outcome.error = "FAILED" /\ HasInput
        \/ outcome.error = "FAILED" /\ child \in {"signalled", "failed"}
        \/ /\ outcome.error = "NONE"
           /\ child = "exited"
           /\ outcome.code = exitCode
           /\ outcome.stdout = written["stdout"]
           /\ ~ killSent

CommandInv == ChildTypes /\ RunTypes /\ Flags /\ CountersOK /\ OpenOK /\ SettledOK

\* A promise that has just been opened.
LEMMA CommandInvInit == CommandInit => CommandInv
  <1> SUFFICES ASSUME CommandInit PROVE CommandInv
    OBVIOUS
  <1>1. ChildTypes
    BY LimitsAreNat DEF CommandInit, ChildTypes, ExitCodes, NoCode
  <1>2. RunTypes
    BY LimitsAreNat DEF CommandInit, RunTypes, Pending
  <1>5. Flags
    BY Zenon DEF CommandInit, Flags
  <1>3. CountersOK
    BY LimitsAreNat DEF CommandInit, CountersOK, Streams
  <1>4. OpenOK /\ SettledOK
    BY LimitsAreNat DEF CommandInit, OpenOK, SettledOK, Streams
  <1> QED
    BY <1>1, <1>2, <1>3, <1>4, <1>5 DEF CommandInv

\* The child may start, write and end: it keeps what its callbacks have done.
LEMMA ChildKeeps == CommandInv /\ Child => CommandInv'
  <1> SUFFICES ASSUME CommandInv, Child PROVE CommandInv'
    OBVIOUS
  <1>1. UNCHANGED <<killSent, delivered, outputBytes, retained, timer, settled, outcome>>
    BY DEF Child
  <1>2. RunTypes' /\ Flags' /\ CountersOK' /\ OpenOK'
    BY <1>1 DEF CommandInv, RunTypes, Flags, CountersOK, OpenOK
  <1>3. ChildTypes' /\ SettledOK'
    <2>1. CASE Spawned
      BY <1>1, <2>1 DEF CommandInv, ChildTypes, SettledOK, Spawned
    <2>2. ASSUME NEW s \in Streams, Writes(s)
          PROVE  ChildTypes' /\ SettledOK'
      <3>1. written' \in [Streams -> 0 .. MaxWritten]
        BY <2>2, LimitsAreNat DEF CommandInv, ChildTypes, Writes
      <3> QED
        BY <1>1, <2>2, <3>1 DEF CommandInv, ChildTypes, SettledOK, Writes
    <2>3. CASE Exits
      BY <1>1, <2>3 DEF CommandInv, ChildTypes, SettledOK, Exits, ExitCodes, NoCode
    <2>4. CASE DiesOfSignal
      BY <1>1, <2>4 DEF CommandInv, ChildTypes, SettledOK, DiesOfSignal
    <2> QED
      BY <2>1, <2>2, <2>3, <2>4 DEF Child
  <1> QED
    BY <1>2, <1>3 DEF CommandInv

\* A chunk is counted and kept, or settles the run at its limit.
LEMMA DataKeeps ==
    ASSUME CommandInv, NEW s \in Streams, NEW n \in 1 .. MaxWritten, OnData(s, n)
    PROVE  CommandInv'
  <1>1. /\ n \in Nat
        /\ "stdout" \in Streams /\ "stderr" \in Streams
        /\ UNCHANGED childVars
        /\ delivered' = [delivered EXCEPT ![s] = @ + n]
        /\ delivered[s] + n <= written[s]
    BY LimitsAreNat DEF OnData, Streams
  <1>2. ChildTypes'
    BY <1>1 DEF CommandInv, ChildTypes, childVars
  <1>3. /\ delivered' \in [Streams -> 0 .. MaxWritten]
        /\ delivered["stdout"] \in Nat /\ delivered["stderr"] \in Nat
        /\ delivered'["stdout"] = delivered["stdout"] + (IF s = "stdout" THEN n ELSE 0)
        /\ delivered'["stderr"] = delivered["stderr"] + (IF s = "stderr" THEN n ELSE 0)
    <2>1. delivered[s] + n \in 0 .. MaxWritten
      BY <1>1, LimitsAreNat DEF CommandInv, ChildTypes, RunTypes
    <2> QED
      BY <1>1, <2>1, LimitsAreNat DEF CommandInv, RunTypes
  <1>4. s = "stdout" \/ s = "stderr"
    BY DEF Streams
  <1>5. CASE settled
    <2>1. UNCHANGED <<outputBytes, retained, killSent, settled, timer, outcome>>
      BY <1>5 DEF OnData, acceptChunk
    <2> QED
      BY <1>1, <1>2, <1>3, <1>5, <2>1
      DEF CommandInv, RunTypes, Flags, CountersOK, OpenOK, SettledOK, childVars
  <1>6. CASE ~ settled /\ outputBytes + n > MaximumOutputBytes
    <2>1. /\ outputBytes' = outputBytes + n
          /\ killSent' = TRUE
          /\ settled' = TRUE
          /\ timer' = FALSE
          /\ outcome' = [error |-> "OUTPUT_LIMIT", code |-> NoCode, stdout |-> retained]
          /\ retained' = retained
      BY <1>6 DEF OnData, acceptChunk, Kill, finish
    <2>2. RunTypes' /\ SettledOK' /\ OpenOK'
      BY <1>1, <1>3, <2>1 DEF CommandInv, RunTypes, SettledOK, OpenOK
    <2>4. Flags'
      BY <2>1, Zenon DEF Flags
    <2>3. CountersOK'
      BY <1>1, <1>3, <1>4, <2>1, LimitsAreNat DEF CommandInv, RunTypes, CountersOK
    <2> QED
      BY <1>2, <2>2, <2>3, <2>4 DEF CommandInv
  <1>7. CASE ~ settled /\ ~ (outputBytes + n > MaximumOutputBytes)
    <2>1. /\ outputBytes' = outputBytes + n
          /\ retained' = IF s = "stdout" THEN retained + n ELSE retained
          /\ UNCHANGED <<killSent, settled, timer, outcome>>
      BY <1>7 DEF OnData, acceptChunk
    <2>2. RunTypes' /\ Flags' /\ SettledOK'
      BY <1>1, <1>3, <1>7, <2>1 DEF CommandInv, RunTypes, Flags, SettledOK
    <2>3. CountersOK' /\ OpenOK'
      BY <1>1, <1>3, <1>4, <1>7, <2>1, LimitsAreNat
      DEF CommandInv, RunTypes, CountersOK, OpenOK
    <2> QED
      BY <1>2, <2>2, <2>3 DEF CommandInv
  <1> QED
    BY <1>5, <1>6, <1>7

\* A callback that only decides: it keeps the counters, and a settled promise.
LEMMA FinishKeeps ==
    ASSUME CommandInv, NEW error \in {"NONE", "FAILED", "TIMEOUT"}, NEW code,
           finish(error, code), killSent' \in BOOLEAN,
           UNCHANGED <<childVars, delivered, outputBytes, retained>>
    PROVE  ChildTypes' /\ RunTypes' /\ Flags' /\ CountersOK'
  <1>1. ChildTypes' /\ CountersOK'
    BY DEF CommandInv, ChildTypes, CountersOK, childVars
  <1>2. RunTypes'
    BY DEF CommandInv, RunTypes, finish
  <1>3. Flags'
    BY Zenon DEF CommandInv, Flags, finish
  <1> QED
    BY <1>1, <1>2, <1>3

\* An error of the child or of its input.
LEMMA ErrorKeeps == CommandInv /\ OnError => CommandInv'
  <1> SUFFICES ASSUME CommandInv, OnError PROVE CommandInv'
    OBVIOUS
  <1>1. ChildTypes' /\ RunTypes' /\ Flags' /\ CountersOK'
    BY FinishKeeps DEF OnError, CommandInv, Flags
  <1>2. OpenOK' /\ SettledOK'
    BY DEF OnError, finish, CommandInv, Flags, OpenOK, SettledOK, childVars
  <1> QED
    BY <1>1, <1>2 DEF CommandInv

\* close comes when everything was delivered, so what was kept is everything.
LEMMA CloseKeeps == CommandInv /\ OnClose => CommandInv'
  <1> SUFFICES ASSUME CommandInv, OnClose PROVE CommandInv'
    OBVIOUS
  <1>1. ChildTypes' /\ RunTypes' /\ Flags' /\ CountersOK'
    <2>1. CASE exitCode = NoCode
      BY <2>1, FinishKeeps DEF OnClose, CommandInv, Flags
    <2>2. CASE exitCode # NoCode
      BY <2>2, FinishKeeps DEF OnClose, CommandInv, Flags
    <2> QED
      BY <2>1, <2>2
  <1>2. OpenOK' /\ SettledOK'
    BY DEF OnClose, finish, CommandInv, ChildTypes, Flags, OpenOK, SettledOK, childVars
  <1> QED
    BY <1>1, <1>2 DEF CommandInv

\* The timeout signals the child before it settles the promise.
LEMMA TimeoutKeeps == CommandInv /\ OnTimeout => CommandInv'
  <1> SUFFICES ASSUME CommandInv, OnTimeout PROVE CommandInv'
    OBVIOUS
  <1>1. ChildTypes' /\ RunTypes' /\ Flags' /\ CountersOK'
    BY FinishKeeps DEF OnTimeout, Kill
  <1>2. OpenOK' /\ SettledOK'
    BY DEF OnTimeout, Kill, finish, CommandInv, Flags, OpenOK, SettledOK, childVars
  <1> QED
    BY <1>1, <1>2 DEF CommandInv

\* The invariant holds in every reachable state, fair or not.
LEMMA CommandInvariant == CommandSpec => []CommandInv
  <1>1. CommandInv /\ [CommandNext]_commandVars => CommandInv'
    <2> SUFFICES ASSUME CommandInv, [CommandNext]_commandVars PROVE CommandInv'
      OBVIOUS
    <2>1. CASE UNCHANGED commandVars
      BY <2>1 DEF commandVars, childVars, CommandInv, ChildTypes, RunTypes, Flags,
                  CountersOK, OpenOK, SettledOK
    <2>2. CASE CommandNext
      BY <2>2, ChildKeeps, DataKeeps, ErrorKeeps, CloseKeeps, TimeoutKeeps
      DEF CommandNext
    <2> QED
      BY <2>1, <2>2
  <1> QED
    BY <1>1, CommandInvInit, PTL DEF CommandSpec

-----------------------------------------------------------------------------
\* The counters of FixedGitCommandRunner.run agree with what was delivered,
\* and no more than the limit is ever kept.
THEOREM CommandTypeCorrect == CommandSpec => []CommandTypeOK
  <1>1. CommandInv => CommandTypeOK
    BY DEF CommandInv, ChildTypes, RunTypes, Flags, CountersOK, CommandTypeOK
  <1> QED
    BY <1>1, CommandInvariant, PTL

\* A run that succeeds hands over the whole standard output and the code of a
\* child that was not killed, in whatever order the callbacks came.
THEOREM SuccessWasWhole == CommandSpec => []SuccessIsWhole
  <1>1. CommandInv => SuccessIsWhole
    BY DEF CommandInv, SettledOK, SuccessIsWhole
  <1> QED
    BY <1>1, CommandInvariant, PTL

\* No run that was cut short leaves its child running without the signal.
THEOREM NoChildStrays == CommandSpec => []NoStrayChild
  <1>1. CommandInv => NoStrayChild
    BY DEF CommandInv, SettledOK, NoStrayChild
  <1> QED
    BY <1>1, CommandInvariant, PTL

\* What settles first stands: a late close, error or timeout changes nothing.
THEOREM DecisionStands == CommandSpec => FirstDecisionStands
  <1>1. [CommandNext]_commandVars => [settled => outcome' = outcome]_commandVars
    BY DEF CommandNext, commandVars, Child, OnData, acceptChunk, OnError, OnClose,
           OnTimeout, finish
  <1> QED
    BY <1>1, PTL DEF CommandSpec, FirstDecisionStands

-----------------------------------------------------------------------------
(***************************************************************************)
(* The code map's run: what its scan accepts is the whole commit, within   *)
(* the limits.                                                             *)
(***************************************************************************)
\* The first command's list was not cut: it is the tree of the commit.
LEMMA WholeTreeListed ==
    ASSUME before.commit \in Commits, outcome.stdout = Len(Tree[before.commit])
    PROVE  Listed = Tree[before.commit]
  <1>1. Tree[before.commit] \in Seq(Entries)
    BY TreeAssumption
  <1> QED
    BY <1>1, SubSeqFull DEF Listed

\* A set of places that is not empty has a last one.
LEMMA LastPlace ==
    ASSUME NEW n \in Nat, NEW S \in SUBSET (1 .. n), S # {}
    PROVE  \E last \in S : \A i \in S : i <= last
  <1> DEFINE T == {n - i : i \in S}
  <1>1. T \in SUBSET Nat /\ T # {}
    <2>1. \A i \in S : n - i \in Nat
      OBVIOUS
    <2>2. PICK i \in S : TRUE
      OBVIOUS
    <2>3. n - i \in T
      OBVIOUS
    <2> QED
      BY <2>1, <2>3
  <1>2. PICK t \in T : \A u \in T : <<u, t>> \notin OpToRel(<, Nat)
    BY <1>1, NatLessThanWellFounded, WFMin, Zenon
  <1>3. \A u \in T : ~ (u < t)
    BY <1>1, <1>2 DEF OpToRel
  <1>4. PICK last \in S : t = n - last
    BY <1>2
  <1>5. ASSUME NEW i \in S PROVE i <= last
    <2>1. ~ (n - i < n - last)
      BY <1>3, <1>4
    <2>2. n \in Int /\ i \in Int /\ last \in Int
      OBVIOUS
    <2> QED
      BY <2>1, <2>2
  <1> QED
    BY <1>5

\* The places of a list are finitely many.
LEMMA PlacesAreFinite ==
    ASSUME NEW n \in Nat, NEW S \in SUBSET (1 .. n)
    PROVE  IsFiniteSet(S) /\ Cardinality(S) \in Nat
  <1>1. IsFiniteSet(1 .. n)
    BY FS_Interval
  <1>2. IsFiniteSet(S)
    BY <1>1, FS_Subset
  <1> QED
    BY <1>2, FS_CardinalityType

\* No places, no bytes.
LEMMA NoBytes == ASSUME NEW entries PROVE SizeOf(entries, {}) = 0
  <1> DEFINE Step(iter, s) == IF s = {} THEN 0
                 ELSE LET x == CHOOSE x \in s : TRUE
                      IN  entries[x].size + iter[s \ {x}]
             IsIter(iter) == iter = [s \in SUBSET {} |-> Step(iter, s)]
  <1>1. SizeOf(entries, {}) = (CHOOSE iter : IsIter(iter))[{}]
    BY DEF SizeOf, MapThenSumSet, MapThenFoldSet
  <1>2. IsIter([s \in SUBSET {} |-> 0])
    OBVIOUS
  <1>3. \E iter : IsIter(iter)
    BY <1>2
  <1>4. IsIter(CHOOSE iter : IsIter(iter))
    BY <1>3
  <1> QED
    BY <1>1, <1>4

\* A tree in which nothing is at fault is within the limits: at its last file
\* to be read everything before it has been counted.
LEMMA FaultlessIsWithinLimits ==
    ASSUME Listed \in Seq(Entries), Faults = {}
    PROVE  LET files == OfKind(Read, Len(Listed))
           IN  Cardinality(files) <= MaxFiles /\ ~ TooManyBytes(Listed, files)
  <1> DEFINE n == Len(Listed)
             files == OfKind(Read, n)
  <1>1. n \in Nat /\ DOMAIN Listed = 1 .. n
    OBVIOUS
  <1>2. files \in SUBSET (1 .. n)
    BY DEF OfKind
  <1>3. CASE files = {}
    BY <1>3, FS_EmptySet, NoBytes, ScanLimitsAreNat DEF TooManyBytes
  <1>4. CASE files # {}
    <2>1. PICK last \in files : \A i \in files : i <= last
      BY <1>1, <1>2, <1>4, LastPlace
    <2>2. /\ last \in 1 .. n
          /\ Listed[last].kind \in Read
          /\ FaultOf(last) = "NONE"
      BY <1>1, <2>1 DEF OfKind, Faults
    <2>3. files = OfKind(Read, last)
      BY <1>1, <2>1, <2>2 DEF OfKind
    <2>4. /\ Listed[last].kind \in Counted
          /\ Listed[last].kind \notin {"link", "unsafe"}
      BY <2>2 DEF Read, Counted
    <2>5. /\ ~ (Cardinality(OfKind(Counted, last)) > MaxFiles)
          /\ ~ TooManyBytes(Listed, files)
      BY <2>2, <2>3, <2>4 DEF FaultOf
    <2>6. OfKind(Counted, last) \in SUBSET (1 .. n) /\ files \subseteq OfKind(Counted, last)
      BY <1>1, <2>2, <2>3 DEF OfKind, Read, Counted
    <2>7. /\ IsFiniteSet(OfKind(Counted, last))
          /\ Cardinality(OfKind(Counted, last)) \in Nat
          /\ Cardinality(files) \in Nat
      BY <1>1, <1>2, <2>6, PlacesAreFinite
    <2>8. Cardinality(files) <= Cardinality(OfKind(Counted, last))
      BY <2>6, <2>7, FS_Subset
    <2> QED
      BY <2>5, <2>7, <2>8, ScanLimitsAreNat
  <1> QED
    BY <1>3, <1>4

\* Sources are as many as the places they are read from.
LEMMA SourcesCount ==
    ASSUME NEW commit, NEW n \in Nat, NEW places \in SUBSET (1 .. n),
           NEW taken,
           \A i \in places : <<commit, i>> \in taken,
           \A s \in taken : \E i \in places : s = <<commit, i>>
    PROVE  /\ Cardinality(taken) <= Cardinality(places)
           /\ Cardinality(taken) \in Nat
           /\ SourcePlaces(taken) = places
  <1> DEFINE f == [i \in places |-> <<commit, i>>]
  <1>1. f \in Surjection(places, taken)
    BY DEF Surjection
  <1>2. IsFiniteSet(places)
    BY PlacesAreFinite
  <1>3. IsFiniteSet(taken) /\ Cardinality(taken) <= Cardinality(places)
    BY <1>1, <1>2, FS_Surjection
  <1>4. SourcePlaces(taken) = places
    <2>1. ASSUME NEW i \in places PROVE i \in SourcePlaces(taken)
      <3>1. <<commit, i>> \in taken /\ <<commit, i>>[2] = i
        OBVIOUS
      <3> QED
        BY <3>1, Zenon DEF SourcePlaces
    <2>2. ASSUME NEW i \in SourcePlaces(taken) PROVE i \in places
      <3>1. PICK s \in taken : i = s[2]
        BY <2>2, Zenon DEF SourcePlaces
      <3>2. PICK j \in places : s = <<commit, j>>
        OBVIOUS
      <3> QED
        BY <3>1, <3>2
    <2> QED
      BY <2>1, <2>2
  <1> QED
    BY <1>3, <1>4, FS_CardinalityType

-----------------------------------------------------------------------------
(***************************************************************************)
(* The invariant of a run: what each phase may rely on of the ones before. *)
(***************************************************************************)
FallbackCodes == ScanFallbackCodes \cup ExtractionFallbackCodes

\* The phases behind the scan, in which the run has a result or a reason.
Behind == {"after", "latest", "persist"}

\* A child that exits with 0 has listed the tree, and only a child that is gone
\* lets ls-tree fail.
TreeOK ==
    phase = "tree" =>
        /\ before.commit \in Commits
        /\ child = "exited" /\ exitCode = 0 => written["stdout"] = Len(Tree[before.commit])
        /\ settled /\ outcome.error = "FAILED" => child \in {"signalled", "failed"}

BlobsFound ==
    /\ before.commit \in Commits
    /\ blobs = {i \in DOMAIN Tree[before.commit] : Tree[before.commit][i].kind \in Read}
    /\ Cardinality(blobs) <= MaxFiles
    /\ ~ TooManyBytes(Tree[before.commit], blobs)

\* The blobs are all there is to read, within the limits.
BlobsOK ==
    phase \in {"batch", "extract"} \/ (phase \in Behind /\ failure = "NONE") => BlobsFound

\* Every object that was asked for has been delivered.
ExtractOK == phase = "extract" => blobs = {} \/ outcome.stdout = Cardinality(blobs)

SourcesOK ==
    phase \in Behind /\ failure = "NONE" => extraction.sources = SourcesOf(before.commit)

\* A run behind the scan with a failure has fallen back, with consent.
FallbackOK ==
    /\ phase \in Behind /\ failure # "NONE" => consent /\ failure \in FallbackCodes
    /\ phase \notin Behind \cup {"done"} => failure = "NONE"

AfterOK == phase \in {"latest", "persist"} => after = before

\* A revision that may be stored beside the snapshot of this run.
RowOK(row) ==
    /\ row.evidenceKind = "STATIC_INFERENCE"
          => /\ row.snapshot.commit # NoCommit
             /\ row.sources = SourcesOf(row.snapshot.commit)
             /\ Cardinality(row.sources) <= MaxFiles
             /\ ~ TooManyBytes(Tree[row.snapshot.commit], SourcePlaces(row.sources))
    /\ row.evidenceKind = "DECLARED_INTELLILOOP_FIXTURE"
          => /\ row.consented
             /\ row.snapshot = before
             /\ row.reason \in FallbackCodes

\* Until it is done, a run has stored nothing.
MapsOK ==
    /\ \E S : maps \in Seq(S)
    /\ \A r \in DOMAIN maps : RowOK(maps[r])
    /\ phase # "done" => \A r \in DOMAIN maps : maps[r].evidenceKind = "OTHER"

RunInv ==
    /\ CommandInv
    /\ before \in Snapshots \cup {NoSnapshot}
    /\ TreeOK /\ BlobsOK /\ ExtractOK /\ SourcesOK /\ FallbackOK /\ AfterOK /\ MapsOK

\* What Append does to a table of revisions, whatever its rows are.
LEMMA AppendRow ==
    ASSUME NEW table, \E S : table \in Seq(S), NEW row
    PROVE  /\ \E S : Append(table, row) \in Seq(S)
           /\ \A r \in DOMAIN Append(table, row) :
                 \/ r \in DOMAIN table /\ Append(table, row)[r] = table[r]
                 \/ Append(table, row)[r] = row
  <1>1. PICK S : table \in Seq(S)
    OBVIOUS
  <1>2. table \in Seq(S \cup {row})
    BY <1>1
  <1>3. Append(table, row) \in Seq(S \cup {row})
    BY <1>2
  <1>4. /\ DOMAIN Append(table, row) = 1 .. Len(table) + 1
        /\ DOMAIN table = 1 .. Len(table)
        /\ Append(table, row)[Len(table) + 1] = row
        /\ \A r \in 1 .. Len(table) : Append(table, row)[r] = table[r]
        /\ Len(table) \in Nat
    BY <1>2
  <1> QED
    BY <1>3, <1>4

\* The invariant in one piece is the property that is checked.
LEMMA RowsAreMaps == MapsOK => MapIsOfItsSnapshot
  BY DEF MapsOK, RowOK, MapIsOfItsSnapshot, FallbackCodes, ScanFallbackCodes,
         ExtractionFallbackCodes

\* The run begins with nothing read and nothing stored.
LEMMA RunInvInit == RunInit => RunInv
  <1> SUFFICES ASSUME RunInit PROVE RunInv
    OBVIOUS
  <1>1. CommandInv
    BY CommandInvInit DEF RunInit, InitIn
  <1>2. MapsOK
    <2>1. maps = <<>>
      BY DEF RunInit, InitIn
    <2>2. maps \in Seq({}) /\ DOMAIN maps = {}
      BY <2>1
    <2> QED
      BY <2>2 DEF MapsOK
  <1> QED
    BY <1>1, <1>2
    DEF RunInit, InitIn, RunInv, TreeOK, BlobsOK, ExtractOK, SourcesOK, FallbackOK,
        AfterOK, Behind

\* A command is started as the first one was.
LEMMA StartCommandOpens ==
    ASSUME StartCommand
    PROVE  CommandInv' /\ child' = "starting" /\ settled' = FALSE
  <1>1. CommandInit'
    BY DEF StartCommand, CommandInit
  <1>2. (CommandInit => CommandInv)'
    BY CommandInvInit, PTL
  <1> QED
    BY <1>1, <1>2 DEF StartCommand

\* Nothing of the command's invariant depends on anything else.
LEMMA CommandKept == CommandInv /\ UNCHANGED commandVars => CommandInv'
  BY DEF commandVars, childVars, CommandInv, ChildTypes, RunTypes, Flags, CountersOK,
         OpenOK, SettledOK

\* A command that is waited for goes on, and the run with it.
LEMMA CommandStepKeeps == RunInv /\ Command => RunInv'
  <1> SUFFICES ASSUME RunInv, Command PROVE RunInv'
    OBVIOUS
  <1>1. /\ phase \in {"tree", "batch"}
        /\ UNCHANGED <<runVars, maps>>
        /\ UNCHANGED <<phase, consent, before, after, blobs, extraction, failure, previous>>
    BY DEF Command, runVars
  <1>2. CommandInv'
    BY ChildKeeps, DataKeeps, ErrorKeeps, CloseKeeps, TimeoutKeeps DEF Command, RunInv
  <1>3. TreeOK'
    <2> SUFFICES ASSUME phase = "tree" PROVE TreeOK'
      BY <1>1 DEF TreeOK
    <2>1. CASE Child /\ ChildMay
      <3>1. UNCHANGED <<settled, outcome>>
        BY <2>1 DEF Child
      <3>2. child' = "exited" /\ exitCode' = 0 => written'["stdout"] = Len(Tree[before.commit])
        BY <2>1 DEF Child, ChildMay, Spawned, Writes, Exits, DiesOfSignal
      <3>3. child \in {"signalled", "failed"} => child' = child
        BY <2>1 DEF Child, Spawned, Writes, Exits, DiesOfSignal
      <3> QED
        BY <1>1, <3>1, <3>2, <3>3 DEF RunInv, TreeOK
    <2>2. ASSUME NEW s \in Streams, NEW n \in 1 .. MaxWritten, OnData(s, n)
          PROVE  TreeOK'
      BY <1>1, <2>2 DEF OnData, acceptChunk, finish, childVars, RunInv, TreeOK
    <2>3. CASE ErrorMay /\ OnError
      BY <1>1, <2>3 DEF ErrorMay, OnError, finish, childVars, RunInv, TreeOK
    <2>4. CASE OnClose
      BY <1>1, <2>4 DEF OnClose, finish, childVars, RunInv, TreeOK, CommandInv, ChildTypes
    <2>5. CASE OnTimeout
      <3>1. /\ (settled /\ outcome' = outcome) \/ outcome'.error = "TIMEOUT"
            /\ UNCHANGED <<child, exitCode, written>>
        <4>1. finish("TIMEOUT", NoCode) /\ UNCHANGED childVars
          BY <2>5, Zenon DEF OnTimeout
        <4>2. CASE settled
          BY <4>1, <4>2, Zenon DEF finish, childVars
        <4>3. CASE ~ settled
          BY <4>1, <4>3 DEF finish, childVars
        <4> QED
          BY <4>2, <4>3
      <3> QED
        BY <1>1, <3>1 DEF RunInv, TreeOK
    <2> QED
      BY <2>1, <2>2, <2>3, <2>4, <2>5 DEF Command
  <1>4. /\ BlobsOK' /\ SourcesOK' /\ FallbackOK' /\ AfterOK' /\ MapsOK'
    BY <1>1 DEF RunInv, BlobsOK, BlobsFound, SourcesOK, FallbackOK, AfterOK, MapsOK, RowOK
  <1>5. ExtractOK'
    BY <1>1 DEF ExtractOK
  <1> QED
    BY <1>1, <1>2, <1>3, <1>4, <1>5 DEF RunInv

\* What is known of the table does not change with the phase: the run that has
\* not stored its revision leaves the others as they are.
LEMMA MapsKept ==
    ASSUME MapsOK, UNCHANGED maps, before' = before \/ phase # "done", phase # "done" \/ phase' = "done"
    PROVE  MapsOK'
  BY DEF MapsOK, RowOK

\* A run that stops keeps its invariant.
LEMMA StopKeeps ==
    ASSUME RunInv, NEW code, Stop(code), UNCHANGED <<commandVars, before, maps>>
    PROVE  RunInv'
  <1>1. phase' = "done"
    BY DEF Stop
  <1>2. CommandInv' /\ MapsOK'
    BY <1>1, CommandKept, MapsKept DEF RunInv
  <1> QED
    BY <1>1, <1>2
    DEF RunInv, TreeOK, BlobsOK, ExtractOK, SourcesOK, FallbackOK, AfterOK, Behind

\* A run that fails in or before the extraction ends or falls back.
LEMMA FailKeeps ==
    ASSUME RunInv, NEW code, Fail(code), code # "NONE",
           phase \notin Behind \cup {"done"},
           UNCHANGED <<commandVars, consent, before, maps>>
    PROVE  RunInv'
  <1>1. /\ failure' = code
        /\ phase' = "done" \/ (phase' = "after" /\ consent /\ code \in FallbackCodes)
    BY DEF Fail, fallbackReason, FallbackCodes
  <1>2. CommandInv' /\ MapsOK'
    BY <1>1, CommandKept, MapsKept DEF RunInv, Behind
  <1> QED
    BY <1>1, <1>2
    DEF RunInv, TreeOK, BlobsOK, ExtractOK, SourcesOK, FallbackOK, AfterOK, Behind

\* The first snapshot, of a run that has no result yet.
LEMMA CaptureBeforeKeeps == RunInv /\ CaptureBefore => RunInv'
  <1> SUFFICES ASSUME RunInv, CaptureBefore PROVE RunInv'
    OBVIOUS
  <1>1. /\ phase = "before" /\ phase' = "scan" /\ before' \in Snapshots
        /\ UNCHANGED <<commandVars, failure, maps>>
    BY DEF CaptureBefore
  <1>2. CommandInv'
    BY <1>1, CommandKept DEF RunInv
  <1>3. MapsOK'
    BY <1>1 DEF RunInv, MapsOK, RowOK
  <1>4. before' \in Snapshots' \cup {NoSnapshot}'
    BY <1>1
  <1> QED
    BY <1>1, <1>2, <1>3, <1>4
    DEF RunInv, TreeOK, BlobsOK, ExtractOK, SourcesOK, FallbackOK, AfterOK, Behind

\* The scan begins with a commit to list.
LEMMA ScanKeeps == RunInv /\ Scan => RunInv'
  <1> SUFFICES ASSUME RunInv, Scan PROVE RunInv'
    OBVIOUS
  <1>1. /\ phase = "scan"
        /\ UNCHANGED <<consent, before, after, blobs, extraction, previous, maps>>
    BY DEF Scan
  <1>2. CASE /\ before.commit # NoCommit
             /\ phase' = "tree"
             /\ StartCommand
             /\ UNCHANGED failure
    <2>1. CommandInv' /\ child' = "starting" /\ settled' = FALSE
      BY <1>2, StartCommandOpens
    <2>2. MapsOK'
      BY <1>1, <1>2, MapsKept DEF RunInv
    <2>3. before.commit \in Commits
      BY <1>2 DEF RunInv, Snapshots, NoSnapshot
    <2> QED
      BY <1>1, <1>2, <2>1, <2>2, <2>3
      DEF RunInv, TreeOK, BlobsOK, ExtractOK, SourcesOK, FallbackOK, AfterOK, Behind
  <1>3. CASE \E code \in {"MISSION_ARCHIVED", "REPOSITORY_CHANGED"} :
                 Fail(code) /\ UNCHANGED commandVars
    BY <1>1, <1>3, FailKeeps DEF Behind
  <1> QED
    BY <1>2, <1>3 DEF Scan

\* A command that has failed.
LEMMA CommandFailedKeeps == RunInv /\ CommandFailed => RunInv'
  <1> SUFFICES ASSUME RunInv, CommandFailed PROVE RunInv'
    OBVIOUS
  <1>1. /\ phase \in {"tree", "batch"}
        /\ UNCHANGED <<commandVars, consent, before, maps>>
    BY DEF CommandFailed
  <1>2. PICK code \in CommandErrors : Fail(code)
    BY DEF CommandFailed
  <1>3. code # "NONE"
    BY <1>2 DEF CommandErrors
  <1> QED
    BY <1>1, <1>2, <1>3, FailKeeps DEF Behind

\* A command that succeeded is one that nothing went wrong with.
LEMMA TreeSucceeded ==
    ASSUME RunInv, CommandSucceeded("tree")
    PROVE  Listed = Tree[before.commit] /\ before.commit \in Commits
  <1>1. phase = "tree" /\ settled /\ CommandErrors = {}
    BY DEF CommandSucceeded
  <1>2. outcome.error \in {"NONE", "OUTPUT_LIMIT", "FAILED", "TIMEOUT"}
    BY DEF RunInv, CommandInv, RunTypes
  <1>3. outcome.error # "FAILED"
    <2> SUFFICES ASSUME outcome.error = "FAILED" PROVE FALSE
      OBVIOUS
    <2>1. child \in {"signalled", "failed"}
      BY <1>1 DEF RunInv, TreeOK
    <2>2. CommandErrors = (IF child = "signalled" THEN {"SCAN_FAILED"} ELSE {})
                          \cup (IF ErrorMay THEN {"READ_FAILED"} ELSE {})
      BY DEF CommandErrors
    <2>3. child = "failed" => ErrorMay
      BY DEF ErrorMay
    <2> QED
      BY <1>1, <2>1, <2>2, <2>3
  <1>4. outcome.error = "NONE" /\ outcome.code = 0
    BY <1>1, <1>2, <1>3 DEF CommandErrors
  <1>5. child = "exited" /\ exitCode = 0 /\ outcome.stdout = written["stdout"]
    BY <1>1, <1>4 DEF RunInv, CommandInv, SettledOK
  <1> QED
    BY <1>1, <1>5, WholeTreeListed DEF RunInv, TreeOK

\* What parseTree takes for a fault has a name.
LEMMA FirstFault ==
    ASSUME Listed \in Seq(Entries), Faults # {}
    PROVE  FaultOf(Min(Faults)) # "NONE"
  <1>1. Faults \in SUBSET Nat
    BY DEF Faults
  <1>2. PICK i \in Faults : \A j \in Faults : <<j, i>> \notin OpToRel(<, Nat)
    BY <1>1, NatLessThanWellFounded, WFMin, Zenon
  <1>3. \A j \in Faults : i <= j
    <2> SUFFICES ASSUME NEW j \in Faults PROVE i <= j
      OBVIOUS
    <2>1. i \in Nat /\ j \in Nat
      BY <1>1
    <2>2. ~ (j < i)
      BY <1>2, <2>1 DEF OpToRel
    <2> QED
      BY <2>1, <2>2
  <1>4. Min(Faults) \in Faults
    BY <1>3 DEF Min
  <1> QED
    BY <1>4 DEF Faults

\* The tree is refused, or its blobs are asked for.
LEMMA ParseTreeKeeps == RunInv /\ ParseTree => RunInv'
  <1> SUFFICES ASSUME RunInv, ParseTree PROVE RunInv'
    OBVIOUS
  <1>1. /\ CommandSucceeded("tree") /\ phase = "tree"
        /\ UNCHANGED <<consent, before, after, extraction, previous, maps>>
    BY DEF ParseTree, CommandSucceeded
  <1>2. /\ Listed = Tree[before.commit]
        /\ before.commit \in Commits
        /\ Listed \in Seq(Entries)
    BY <1>1, TreeSucceeded, TreeAssumption
  <1>3. CASE Faults # {}
    <2>1. Fail(FaultOf(Min(Faults))) /\ UNCHANGED commandVars
      BY <1>3 DEF ParseTree
    <2>2. FaultOf(Min(Faults)) # "NONE"
      BY <1>2, <1>3, FirstFault
    <2> QED
      BY <1>1, <2>1, <2>2, FailKeeps DEF Behind
  <1>4. CASE Faults = {}
    <2>1. blobs' = OfKind(Read, Len(Listed))
      BY <1>4 DEF ParseTree
    <2>2. \/ blobs' = {} /\ phase' = "extract" /\ UNCHANGED <<commandVars, failure>>
          \/ StartCommand /\ phase' = "batch" /\ UNCHANGED failure
          \/ Fail("SCAN_TIMEOUT") /\ UNCHANGED commandVars
      BY <1>4 DEF ParseTree
    <2>3. BlobsFound'
      <3>1. DOMAIN Listed = 1 .. Len(Listed)
        BY <1>2
      <3>2. blobs' = {i \in DOMAIN Tree[before.commit] : Tree[before.commit][i].kind \in Read}
        BY <1>2, <2>1, <3>1 DEF OfKind
      <3>3. Cardinality(blobs') <= MaxFiles /\ ~ TooManyBytes(Tree[before.commit], blobs')
        BY <1>2, <1>4, <2>1, FaultlessIsWithinLimits
      <3>4. before'.commit \in Commits /\ before' = before
        BY <1>1, <1>2
      <3> QED
        BY <3>2, <3>3, <3>4 DEF BlobsFound, TooManyBytes
    <2>4. CASE blobs' = {} /\ phase' = "extract" /\ UNCHANGED <<commandVars, failure>>
      <3>1. CommandInv' /\ MapsOK'
        BY <1>1, <2>4, CommandKept, MapsKept DEF RunInv
      <3> QED
        BY <1>1, <2>3, <2>4, <3>1
        DEF RunInv, TreeOK, BlobsOK, ExtractOK, SourcesOK, FallbackOK, AfterOK, Behind
    <2>5. CASE StartCommand /\ phase' = "batch" /\ UNCHANGED failure
      <3>1. CommandInv' /\ MapsOK'
        BY <1>1, <2>5, StartCommandOpens, MapsKept DEF RunInv
      <3> QED
        BY <1>1, <2>3, <2>5, <3>1
        DEF RunInv, TreeOK, BlobsOK, ExtractOK, SourcesOK, FallbackOK, AfterOK, Behind
    <2>6. CASE Fail("SCAN_TIMEOUT") /\ UNCHANGED commandVars
      BY <1>1, <2>6, FailKeeps DEF Behind
    <2> QED
      BY <2>2, <2>4, <2>5, <2>6
  <1> QED
    BY <1>3, <1>4

\* Every object was delivered, or the scan fails.
LEMMA ParseBatchKeeps == RunInv /\ ParseBatch => RunInv'
  <1> SUFFICES ASSUME RunInv, ParseBatch PROVE RunInv'
    OBVIOUS
  <1>1. /\ phase = "batch"
        /\ UNCHANGED <<commandVars, consent, before, after, blobs, extraction, previous, maps>>
    BY DEF ParseBatch, CommandSucceeded
  <1>2. CASE BatchFault = "NONE"
    <2>1. phase' = "extract" /\ UNCHANGED failure
      BY <1>2 DEF ParseBatch
    <2>2. outcome.stdout = Cardinality(blobs) /\ outcome' = outcome
      BY <1>1, <1>2 DEF BatchFault, commandVars
    <2>3. CommandInv' /\ MapsOK'
      BY <1>1, <2>1, CommandKept, MapsKept DEF RunInv
    <2>4. BlobsFound'
      BY <1>1 DEF RunInv, BlobsOK, BlobsFound
    <2> QED
      BY <1>1, <2>1, <2>2, <2>3, <2>4
      DEF RunInv, TreeOK, BlobsOK, ExtractOK, SourcesOK, FallbackOK, AfterOK, Behind
  <1>3. CASE BatchFault # "NONE"
    BY <1>1, <1>3, FailKeeps DEF ParseBatch, Behind
  <1> QED
    BY <1>2, <1>3

\* The sources are those of the whole commit: every blob lies within the count.
LEMMA ExtractKeeps == RunInv /\ Extract => RunInv'
  <1> SUFFICES ASSUME RunInv, Extract PROVE RunInv'
    OBVIOUS
  <1>1. /\ phase = "extract" /\ phase' = "after"
        /\ UNCHANGED <<commandVars, consent, before, after, blobs, failure, previous, maps>>
    BY DEF Extract
  <1>2. extraction'.sources = SourcesRead
    BY DEF Extract
  <1>3. BlobsFound
    BY <1>1 DEF RunInv, BlobsOK
  <1>4. SourcesRead = SourcesOf(before.commit)
    <2>1. /\ Tree[before.commit] \in Seq(Entries)
          /\ DOMAIN Tree[before.commit] = 1 .. Len(Tree[before.commit])
          /\ Len(Tree[before.commit]) \in Nat
      BY <1>3, TreeAssumption DEF BlobsFound
    <2>2. blobs \in SUBSET (1 .. Len(Tree[before.commit]))
      BY <1>3, <2>1 DEF BlobsFound
    <2>3. IsFiniteSet(blobs) /\ Cardinality(blobs) \in Nat
      BY <2>1, <2>2, PlacesAreFinite
    <2>4. ASSUME NEW j \in blobs
          PROVE  Cardinality({k \in blobs : k <= j}) <= outcome.stdout
      <3>1. Cardinality({k \in blobs : k <= j}) <= Cardinality(blobs)
        BY <2>3, FS_Subset
      <3> QED
        BY <1>1, <2>4, <3>1 DEF RunInv, ExtractOK
    <2>5. {j \in blobs : Cardinality({k \in blobs : k <= j}) <= outcome.stdout} = blobs
      BY <2>4
    <2> QED
      BY <1>3, <2>5 DEF SourcesRead, SourcesOf, BlobsFound
  <1>5. CommandInv' /\ MapsOK'
    BY <1>1, CommandKept, MapsKept DEF RunInv
  <1>6. BlobsFound'
    BY <1>1, <1>3 DEF BlobsFound
  <1>7. SourcesOK'
    BY <1>1, <1>2, <1>4 DEF SourcesOK, SourcesOf
  <1>8. failure = "NONE"
    BY <1>1 DEF RunInv, FallbackOK, Behind
  <1> QED
    BY <1>1, <1>5, <1>6, <1>7, <1>8
    DEF RunInv, TreeOK, BlobsOK, ExtractOK, FallbackOK, AfterOK, Behind

\* The second snapshot shows what the first one did, or the run stops.
LEMMA CaptureAfterKeeps == RunInv /\ CaptureAfter => RunInv'
  <1> SUFFICES ASSUME RunInv, CaptureAfter PROVE RunInv'
    OBVIOUS
  <1>1. /\ phase = "after"
        /\ UNCHANGED <<commandVars, consent, before, blobs, extraction, previous, maps>>
    BY DEF CaptureAfter
  <1>2. PICK snapshot \in Snapshots :
           IF before = snapshot
           THEN after' = snapshot /\ phase' = "latest" /\ UNCHANGED failure
           ELSE Stop("SNAPSHOT_CHANGED") /\ UNCHANGED after
    BY DEF CaptureAfter, sameRepositoryState
  <1>3. CASE before = snapshot
    <2>1. after' = before /\ phase' = "latest" /\ UNCHANGED failure
      BY <1>2, <1>3
    <2>2. CommandInv' /\ MapsOK'
      BY <1>1, <2>1, CommandKept, MapsKept DEF RunInv
    <2>3. BlobsFound' = BlobsFound
      BY <1>1 DEF BlobsFound
    <2> QED
      BY <1>1, <2>1, <2>2, <2>3
      DEF RunInv, TreeOK, BlobsOK, ExtractOK, SourcesOK, FallbackOK, AfterOK, Behind
  <1>4. CASE before # snapshot
    BY <1>1, <1>2, <1>4, StopKeeps
  <1> QED
    BY <1>3, <1>4

\* The predecessor is looked up.
LEMMA ReadLatestKeeps == RunInv /\ ReadLatest => RunInv'
  <1> SUFFICES ASSUME RunInv, ReadLatest PROVE RunInv'
    OBVIOUS
  <1>1. /\ phase = "latest" /\ phase' = "persist"
        /\ UNCHANGED <<commandVars, consent, before, after, blobs, extraction, failure, maps>>
    BY DEF ReadLatest
  <1>2. CommandInv' /\ MapsOK'
    BY <1>1, CommandKept, MapsKept DEF RunInv
  <1>3. BlobsFound' = BlobsFound
    BY <1>1 DEF BlobsFound
  <1> QED
    BY <1>1, <1>2, <1>3
    DEF RunInv, TreeOK, BlobsOK, ExtractOK, SourcesOK, FallbackOK, AfterOK, Behind

\* The revision of a run that has reached persist may be stored.
LEMMA ProjectionIsSound ==
    ASSUME RunInv, phase = "persist"
    PROVE  RowOK(Projection)
  <1>1. after = before
    BY DEF RunInv, AfterOK
  <1>2. CASE failure = "NONE"
    <2>1. /\ Projection.evidenceKind = "STATIC_INFERENCE"
          /\ Projection.snapshot = before
          /\ Projection.sources = extraction.sources
      BY <1>1, <1>2 DEF Projection
    <2>2. BlobsFound /\ extraction.sources = SourcesOf(before.commit)
      BY <1>2 DEF RunInv, BlobsOK, SourcesOK, Behind
    <2>3. extraction.sources = {<<before.commit, i>> : i \in blobs}
      BY <2>2 DEF BlobsFound, SourcesOf
    <2>4. /\ Len(Tree[before.commit]) \in Nat
          /\ blobs \in SUBSET (1 .. Len(Tree[before.commit]))
      <3>1. Tree[before.commit] \in Seq(Entries)
        BY <2>2, TreeAssumption DEF BlobsFound
      <3>2. DOMAIN Tree[before.commit] = 1 .. Len(Tree[before.commit])
        BY <3>1
      <3> QED
        BY <2>2, <3>1, <3>2 DEF BlobsFound
    <2>5. /\ Cardinality(extraction.sources) <= Cardinality(blobs)
          /\ Cardinality(extraction.sources) \in Nat
          /\ Cardinality(blobs) \in Nat
          /\ SourcePlaces(extraction.sources) = blobs
      <3>1. Cardinality(blobs) \in Nat
        BY <2>4, PlacesAreFinite
      <3>2. /\ \A i \in blobs : <<before.commit, i>> \in extraction.sources
            /\ \A s \in extraction.sources : \E i \in blobs : s = <<before.commit, i>>
        BY <2>3
      <3>3. /\ Cardinality(extraction.sources) <= Cardinality(blobs)
            /\ Cardinality(extraction.sources) \in Nat
            /\ SourcePlaces(extraction.sources) = blobs
        BY <2>4, <3>2, SourcesCount
      <3> QED
        BY <3>1, <3>3
    <2>6. Cardinality(extraction.sources) <= MaxFiles
      BY <2>2, <2>5, ScanLimitsAreNat DEF BlobsFound
    <2>7. before.commit # NoCommit
      BY <2>2, TreeAssumption DEF BlobsFound
    <2> QED
      BY <2>1, <2>2, <2>5, <2>6, <2>7 DEF RowOK, BlobsFound
  <1>3. CASE failure # "NONE"
    <2>1. /\ Projection.evidenceKind = "DECLARED_INTELLILOOP_FIXTURE"
          /\ Projection.snapshot = before
          /\ Projection.consented = consent
          /\ Projection.reason = failure
      BY <1>1, <1>3 DEF Projection
    <2>2. consent /\ failure \in FallbackCodes
      BY <1>3 DEF RunInv, FallbackOK, Behind
    <2> QED
      BY <2>1, <2>2 DEF RowOK
  <1> QED
    BY <1>2, <1>3

\* The revision is stored, or another run was faster.
LEMMA PersistKeeps == RunInv /\ Persist => RunInv'
  <1> SUFFICES ASSUME RunInv, Persist PROVE RunInv'
    OBVIOUS
  <1>1. /\ phase = "persist"
        /\ UNCHANGED <<commandVars, consent, before, after, blobs, extraction, previous>>
        /\ persist(Projection)
    BY DEF Persist
  <1>2. CASE Stop("PREDECESSOR_CONFLICT") /\ UNCHANGED maps
    BY <1>1, <1>2, StopKeeps
  <1>3. CASE maps' = Append(maps, Projection) /\ Stop(failure)
    <2> DEFINE row == Projection
    <2>1. RowOK(row)
      BY <1>1, ProjectionIsSound
    <2>2. \E S : maps \in Seq(S)
      BY DEF RunInv, MapsOK
    <2> HIDE DEF row
    <2>3. /\ \E S : Append(maps, row) \in Seq(S)
          /\ \A r \in DOMAIN Append(maps, row) :
                \/ r \in DOMAIN maps /\ Append(maps, row)[r] = maps[r]
                \/ Append(maps, row)[r] = row
      BY <2>2, AppendRow
    <2>4. \A r \in DOMAIN maps' : RowOK(maps'[r])
      BY <1>3, <2>1, <2>3 DEF row, RunInv, MapsOK
    <2>5. \A x : RowOK(x) => (/\ x.evidenceKind = "STATIC_INFERENCE"
                                 => /\ x.snapshot.commit # NoCommit
                                    /\ x.sources = SourcesOf(x.snapshot.commit)
                                    /\ Cardinality(x.sources) <= MaxFiles
                                    /\ ~ TooManyBytes(Tree[x.snapshot.commit], SourcePlaces(x.sources))
                              /\ x.evidenceKind = "DECLARED_INTELLILOOP_FIXTURE"
                                 => /\ x.consented
                                    /\ x.snapshot = before'
                                    /\ x.reason \in FallbackCodes)
      BY <1>1 DEF RowOK
    <2>6. phase' = "done"
      BY <1>3 DEF Stop
    <2>7. MapsOK'
      BY <1>3, <2>3, <2>4, <2>5, <2>6 DEF MapsOK, RowOK, row
    <2>8. CommandInv'
      BY <1>1, CommandKept DEF RunInv
    <2> QED
      BY <1>1, <2>6, <2>7, <2>8
      DEF RunInv, TreeOK, BlobsOK, ExtractOK, SourcesOK, FallbackOK, AfterOK, Behind
  <1> QED
    BY <1>1, <1>2, <1>3 DEF persist

\* Another run's revision says nothing of this one's snapshot.
LEMMA OtherRunKeeps == RunInv /\ OtherRun => RunInv'
  <1> SUFFICES ASSUME RunInv, OtherRun PROVE RunInv'
    OBVIOUS
  <1> DEFINE row == [Projection EXCEPT !.revision = Len(maps) + 1, !.predecessor = Len(maps),
                              !.snapshot = NoSnapshot, !.evidenceKind = "OTHER",
                              !.completeness = "NONE", !.sources = {},
                              !.consented = FALSE, !.reason = "NONE"]
  <1>1. /\ maps' = Append(maps, row)
        /\ UNCHANGED <<commandVars, runVars>>
        /\ UNCHANGED <<phase, consent, before, after, blobs, extraction, failure, previous>>
    BY DEF OtherRun, runVars
  <1>2. row.evidenceKind = "OTHER"
    BY DEF Projection
  <1> HIDE DEF row
  <1>3. \E S : maps \in Seq(S)
    BY DEF RunInv, MapsOK
  <1>4. /\ \E S : Append(maps, row) \in Seq(S)
        /\ \A r \in DOMAIN Append(maps, row) :
              \/ r \in DOMAIN maps /\ Append(maps, row)[r] = maps[r]
              \/ Append(maps, row)[r] = row
    BY <1>3, AppendRow
  <1>5. MapsOK'
    BY <1>1, <1>2, <1>4 DEF RunInv, MapsOK, RowOK
  <1>6. CommandInv'
    BY <1>1, CommandKept DEF RunInv
  <1>7. BlobsFound' = BlobsFound
    BY <1>1 DEF BlobsFound
  <1>8. TreeOK' = TreeOK /\ ExtractOK' = ExtractOK
    BY <1>1 DEF TreeOK, ExtractOK, commandVars, childVars
  <1> QED
    BY <1>1, <1>5, <1>6, <1>7, <1>8
    DEF RunInv, BlobsOK, SourcesOK, FallbackOK, AfterOK, Behind

\* Every step of the run keeps the invariant.
LEMMA RunInvStep == RunInv /\ [RunNext]_codeMapVars => RunInv'
  <1> SUFFICES ASSUME RunInv, [RunNext]_codeMapVars PROVE RunInv'
    OBVIOUS
  <1>1. CASE UNCHANGED codeMapVars
    <2>1. UNCHANGED <<commandVars, runVars, maps>>
      BY <1>1 DEF codeMapVars
    <2>2. UNCHANGED <<child, exitCode, written, settled, outcome>>
      BY <2>1 DEF commandVars, childVars
    <2>3. CommandInv'
      BY <2>1, CommandKept DEF RunInv
    <2> QED
      BY <2>1, <2>2, <2>3
      DEF runVars, RunInv, TreeOK, BlobsOK, BlobsFound, ExtractOK, SourcesOK, FallbackOK,
          AfterOK, MapsOK, RowOK
  <1>2. CASE CaptureFails
    BY <1>2, StopKeeps DEF CaptureFails
  <1>3. CASE ExtractionFails
    <2>1. PICK code \in ExtractionFallbackCodes \cup {"UNEXPECTED"} : Fail(code)
      BY <1>3 DEF ExtractionFails
    <2>2. code # "NONE"
      BY <2>1 DEF ExtractionFallbackCodes
    <2> QED
      BY <1>3, <2>1, <2>2, FailKeeps DEF ExtractionFails, Behind
  <1>4. CASE RejectProjection
    BY <1>4, StopKeeps DEF RejectProjection
  <1> QED
    BY <1>1, <1>2, <1>3, <1>4, CommandStepKeeps, CaptureBeforeKeeps, ScanKeeps,
       CommandFailedKeeps, ParseTreeKeeps, ParseBatchKeeps, ExtractKeeps,
       CaptureAfterKeeps, ReadLatestKeeps, PersistKeeps, OtherRunKeeps
    DEF RunNext, Advance

-----------------------------------------------------------------------------
\* code-map-projection-service.ts: a stored map that was inferred from sources
\* is a map of exactly the commit of its snapshot, and within the limits; a
\* declared one was consented to. For any tree, any limits, any order of the
\* callbacks and any number of other runs.
THEOREM MapsAreOfTheirSnapshots == RunSpec => []MapIsOfItsSnapshot
  <1>1. RunInv => MapIsOfItsSnapshot
    BY RowsAreMaps DEF RunInv
  <1> QED
    BY <1>1, RunInvInit, RunInvStep, PTL DEF RunSpec

\* Each of the run's Git commands hands over the whole of its output when it
\* succeeds, and leaves no child running without the signal.
THEOREM RunCommandsAreWhole == RunSpec => [](SuccessIsWhole /\ NoStrayChild)
  <1>1. RunInv => SuccessIsWhole /\ NoStrayChild
    BY DEF RunInv, CommandInv, SettledOK, SuccessIsWhole, NoStrayChild
  <1> QED
    BY <1>1, RunInvInit, RunInvStep, PTL DEF RunSpec
-----------------------------------------------------------------------------
(***************************************************************************)
(* CodeMapMembers: what a specifier comes to, name by name.                *)
(***************************************************************************)
LEMMA LeastNatural ==
    ASSUME NEW S \in SUBSET Nat, S # {}
    PROVE  \E least \in S : \A i \in S : least <= i
  <1>1. PICK m \in S : \A y \in S : <<y, m>> \notin OpToRel(<, Nat)
    BY NatLessThanWellFounded, WFMin, Zenon
  <1>2. \A y \in S : ~ (y < m)
    BY <1>1 DEF OpToRel
  <1> QED
    BY <1>2

\* Turn n makes of one value in D the next.
TurnsBy(f, D, turn, start, N) ==
    /\ f \in [0 .. N -> D]
    /\ f[0] = start
    /\ \A n \in 1 .. N : f[n] = turn[n][f[n - 1]]

\* Such a sequence exists: a least number of turns without one has a predecessor
\* with one.
LEMMA TurnsMakeSequence ==
    ASSUME NEW D, NEW N \in Nat, NEW turn \in [1 .. N -> [D -> D]], NEW start \in D
    PROVE  \E f : TurnsBy(f, D, turn, start, N)
  <1> DEFINE Missing == {k \in 0 .. N : ~ \E f : TurnsBy(f, D, turn, start, k)}
  <1> USE DEF TurnsBy
  <1>1. ASSUME Missing # {}
        PROVE  FALSE
    <2>0. Missing \in SUBSET Nat
      OBVIOUS
    <2>1. PICK k \in Missing : \A i \in Missing : k <= i
      <3> HIDE DEF Missing
      <3> QED
        BY <1>1, <2>0, LeastNatural
    <2>2. CASE k = 0
      <3>1. TurnsBy([n \in 0 .. 0 |-> start], D, turn, start, 0)
        OBVIOUS
      <3> QED
        BY <2>1, <2>2, <3>1
    <2>3. CASE k # 0
      <3>1. k \in 1 .. N /\ k - 1 \in 0 .. N /\ k - 1 \notin Missing
        <4>1. k \in 1 .. N /\ k - 1 \in 0 .. N /\ k - 1 < k
          BY <2>1, <2>3
        <4> HIDE DEF Missing
        <4> QED
          BY <2>1, <4>1
      <3>2. PICK f : TurnsBy(f, D, turn, start, k - 1)
        BY <3>1
      <3> DEFINE longer == [n \in 0 .. k |-> IF n = k THEN turn[k][f[k - 1]] ELSE f[n]]
      <3>3. f[k - 1] \in D
        BY <3>1, <3>2
      <3>4. longer \in [0 .. k -> D]
        BY <3>1, <3>2, <3>3
      <3>5. longer[0] = start
        BY <2>3, <3>1, <3>2
      <3>6. ASSUME NEW n \in 1 .. k
            PROVE  longer[n] = turn[n][longer[n - 1]]
        <4>1. n - 1 \in 0 .. k /\ n - 1 # k /\ n \in 0 .. k
          BY <3>1
        <4>2. longer[n - 1] = f[n - 1]
          BY <4>1
        <4>3. CASE n = k
          BY <4>1, <4>2, <4>3
        <4>4. CASE n # k
          BY <3>1, <3>2, <4>1, <4>2, <4>4
        <4> QED
          BY <4>3, <4>4
      <3> HIDE DEF longer
      <3>7. TurnsBy(longer, D, turn, start, k)
        BY <3>4, <3>5, <3>6
      <3> QED
        BY <2>1, <3>7
    <2> QED
      BY <2>2, <2>3
  <1>2. N \in 0 .. N
    OBVIOUS
  <1> HIDE DEF TurnsBy
  <1> QED
    BY <1>1, <1>2

\* The names of directories and files; the prover does not take a literal for a STRING.
Segments == STRING \cup {"..", "index"}

Words == Seq(Segments)

LEMMA PathForm ==
    ASSUME NEW path, SafePath(path)
    PROVE  /\ path = [dir |-> path.dir, stem |-> path.stem, ext |-> path.ext]
           /\ path.dir \in Words /\ path.stem \in Segments
           /\ path.ext \in Extensions /\ path.ext # ""
           /\ \A name \in ToSet(path.dir) : Leads(name)
  <1>1. /\ path.dir \in Seq(STRING) /\ path.stem \in STRING /\ path.ext \in Extensions
        /\ path = [dir |-> path.dir, stem |-> path.stem, ext |-> path.ext]
        /\ \A name \in ToSet(path.dir) : Leads(name)
    BY DEF SafePath, Leads
  <1>2. STRING \subseteq Segments
    BY DEF Segments
  <1>3. path.dir \in Words
    BY <1>1, <1>2, SeqMonotonic DEF Words
  <1>4. "" \notin Extensions
    BY DEF Extensions
  <1> QED
    BY <1>1, <1>2, <1>3, <1>4

LEMMA SpecifierForm ==
    ASSUME NEW specifier, Specifier(specifier)
    PROVE  /\ specifier.names \in Words
           /\ Len(specifier.names) \in Nat /\ Len(specifier.names) >= 1
  <1>1. specifier.names \in Seq(STRING) /\ specifier.names # <<>>
    BY DEF Specifier
  <1>2. STRING \subseteq Segments
    BY DEF Segments
  <1>3. specifier.names \in Words
    BY <1>1, <1>2, SeqMonotonic DEF Words
  <1>4. Len(specifier.names) \in Nat /\ Len(specifier.names) # 0
    BY <1>1, LenProperties, EmptySeq
  <1> QED
    BY <1>3, <1>4

LEMMA FrontForm ==
    ASSUME NEW base \in Words, base # <<>>
    PROVE  /\ Front(base) \in Words
           /\ Len(base) \in Nat /\ Len(base) >= 1
           /\ Len(Front(base)) = Len(base) - 1
           /\ \A k \in 1 .. Len(base) - 1 : Front(base)[k] = base[k]
  <1>1. Len(base) \in Nat /\ Len(base) >= 1
    BY EmptySeq DEF Words
  <1>2. \A k \in 1 .. Len(base) - 1 : base[k] \in Segments
    BY <1>1 DEF Words
  <1>3. /\ Front(base) \in Words
        /\ Len(Front(base)) = IF 1 <= Len(base) - 1 THEN Len(base) - 1 - 1 + 1 ELSE 0
        /\ \A k \in 1 .. Len(base) - 1 - 1 + 1 : Front(base)[k] = base[1 + k - 1]
    BY <1>1, <1>2, SubSeqProperties DEF Front, Words
  <1>4. Len(Front(base)) = Len(base) - 1
    <2>1. \A n \in Nat : n >= 1 => n - 1 = IF 1 <= n - 1 THEN n - 1 - 1 + 1 ELSE 0
      OBVIOUS
    <2> QED
      BY <1>1, <1>3, <2>1, Zenon
  <1>5. ASSUME NEW k \in 1 .. Len(base) - 1
        PROVE  Front(base)[k] = base[k]
    <2>1. k \in 1 .. Len(base) - 1 - 1 + 1 /\ 1 + k - 1 = k
      BY <1>1
    <2> QED
      BY <1>3, <2>1
  <1> QED
    BY <1>1, <1>3, <1>4, <1>5

LEMMA FollowTypes ==
    ASSUME NEW base \in Words, NEW name \in Segments
    PROVE  Follow(base, name) \in Words
  <1>1. base # <<>> => Front(base) \in Words
    BY FrontForm
  <1>2. Append(base, name) \in Words
    BY AppendProperties DEF Words
  <1> QED
    BY <1>1, <1>2 DEF Follow

\* The bases after each name of a specifier, of which the last one is normalized.
Bases(source, specifier, base) ==
    /\ base[0] = source.dir
    /\ \A n \in 1 .. Len(specifier.names) : base[n] = Follow(base[n - 1], specifier.names[n])
    /\ base[Len(specifier.names)] = normalized(source, specifier)

LEMMA NormalizedByName ==
    ASSUME NEW source, SafePath(source), NEW specifier, Specifier(specifier)
    PROVE  \E base : Bases(source, specifier, base)
  <1> DEFINE N == Len(specifier.names)
             turn == [n \in 1 .. N |-> [x \in Words |-> Follow(x, specifier.names[n])]]
             Is(f) == f = [n \in 0 .. N |->
                              IF n = 0 THEN source.dir
                              ELSE LET last == f[n - 1] IN Follow(last, specifier.names[n])]
             base == CHOOSE f : Is(f)
  <1>1. /\ N \in Nat
        /\ source.dir \in Words
        /\ specifier.names \in Words
        /\ \A n \in 1 .. N : specifier.names[n] \in Segments
    <2>1. source.dir \in Words /\ specifier.names \in Words
      BY PathForm, SpecifierForm
    <2> QED
      BY <2>1 DEF Words
  <1>2. turn \in [1 .. N -> [Words -> Words]]
    BY <1>1, FollowTypes
  <1>3. PICK f : TurnsBy(f, Words, turn, source.dir, N)
    <2> HIDE DEF N, turn
    <2> QED
      BY <1>1, <1>2, TurnsMakeSequence
  <1>4. ASSUME NEW n \in 1 .. N
        PROVE  f[n] = Follow(f[n - 1], specifier.names[n])
    <2>1. n - 1 \in 0 .. N
      BY <1>1
    <2>2. f[n] = turn[n][f[n - 1]] /\ f[n - 1] \in Words
      BY <1>3, <2>1 DEF TurnsBy
    <2> HIDE DEF N
    <2> QED
      BY <2>2
  <1>5. Is(f)
    <2>1. f \in [0 .. N -> Words] /\ f[0] = source.dir
      BY <1>3 DEF TurnsBy
    <2>2. \A n \in 0 .. N : n # 0 => n \in 1 .. N
      BY <1>1
    <2> HIDE DEF turn, N
    <2> QED
      BY <2>1, <2>2, <1>4
  <1>6. Is(base)
    <2> HIDE DEF Is
    <2> QED
      BY <1>5, Zenon
  <1>7. normalized(source, specifier) = base[N]
    BY Zenon DEF normalized
  <1>8. Bases(source, specifier, base)
    <2> HIDE DEF base, N
    <2>1. \A n \in 0 .. N : base[n] = IF n = 0 THEN source.dir
                                      ELSE Follow(base[n - 1], specifier.names[n])
      BY <1>6, Zenon
    <2>2. 0 \in 0 .. N /\ \A n \in 1 .. N : n \in 0 .. N /\ n # 0
      BY <1>1
    <2>3. base[0] = source.dir /\ \A n \in 1 .. N : base[n] = Follow(base[n - 1], specifier.names[n])
      BY <2>1, <2>2, Zenon
    <2> QED
      BY <2>3, <1>7 DEF Bases, N
  <1> QED
    BY <1>8

-----------------------------------------------------------------------------
(***************************************************************************)
(* CodeMapMembers: where a trail of names leads.                           *)
(***************************************************************************)
LEMMA CountOneMore ==
    ASSUME NEW P, NEW n \in Nat
    PROVE  LET Count(m) == Cardinality({i \in 1 .. m : i \in P})
           IN  /\ Count(0) = 0 /\ Count(n) \in Nat
               /\ n + 1 \in P => Count(n + 1) = Count(n) + 1
               /\ n + 1 \notin P => Count(n + 1) = Count(n)
  <1> DEFINE Some(m) == {i \in 1 .. m : i \in P}
  <1>1. IsFiniteSet(Some(n)) /\ Cardinality(Some(n)) \in Nat
    <2>1. IsFiniteSet(1 .. n)
      BY FS_Interval
    <2>2. Some(n) \in SUBSET (1 .. n)
      OBVIOUS
    <2> HIDE DEF Some
    <2> QED
      BY <2>1, <2>2, FS_Subset, FS_CardinalityType
  <1>2. Some(0) = {}
    OBVIOUS
  <1>3. 1 .. n + 1 = (1 .. n) \cup {n + 1} /\ n + 1 \notin 1 .. n
    OBVIOUS
  <1>4. n + 1 \in P => Some(n + 1) = Some(n) \cup {n + 1} /\ n + 1 \notin Some(n)
    BY <1>3
  <1>5. n + 1 \notin P => Some(n + 1) = Some(n)
    BY <1>3
  <1>6. /\ Cardinality(Some(0)) = 0
        /\ n + 1 \in P => Cardinality(Some(n + 1)) = Cardinality(Some(n)) + 1
        /\ n + 1 \notin P => Cardinality(Some(n + 1)) = Cardinality(Some(n))
    <2> HIDE DEF Some
    <2> QED
      BY <1>1, <1>2, <1>4, <1>5, FS_AddElement, FS_EmptySet
  <1> QED
    BY <1>1, <1>6, Zenon

LEMMA DepthSteps ==
    ASSUME NEW trail
    PROVE  /\ Depth(trail, 0) = 0
           /\ \A n \in Nat :
                 /\ Depth(trail, n) \in Int
                 /\ trail[n + 1] = ".." => Depth(trail, n + 1) = Depth(trail, n) - 1
                 /\ Leads(trail[n + 1]) => Depth(trail, n + 1) = Depth(trail, n) + 1
                 /\ trail[n + 1] \in Still => Depth(trail, n + 1) = Depth(trail, n)
  <1> DEFINE Ups == {i \in Int : trail[i] = ".."}
             Downs == {i \in Int : Leads(trail[i])}
             Count(P, m) == Cardinality({i \in 1 .. m : i \in P})
  <1>1. \A n \in Nat : Depth(trail, n) = Count(Downs, n) - Count(Ups, n)
    <2>1. ASSUME NEW n \in Nat
          PROVE  /\ {i \in 1 .. n : Leads(trail[i])} = {i \in 1 .. n : i \in Downs}
                 /\ {i \in 1 .. n : trail[i] = ".."} = {i \in 1 .. n : i \in Ups}
      <3>1. \A i \in 1 .. n : i \in Int
        OBVIOUS
      <3> QED
        BY <3>1
    <2> HIDE DEF Ups, Downs
    <2> QED
      BY <2>1, Zenon DEF Depth
  <1>2. ASSUME NEW P, NEW n \in Nat
        PROVE  /\ Count(P, 0) = 0 /\ Count(P, n) \in Nat
               /\ n + 1 \in P => Count(P, n + 1) = Count(P, n) + 1
               /\ n + 1 \notin P => Count(P, n + 1) = Count(P, n)
    BY CountOneMore, Zenon
  <1>3. ASSUME NEW n \in Nat
        PROVE  /\ trail[n + 1] = ".." => n + 1 \in Ups /\ n + 1 \notin Downs
               /\ Leads(trail[n + 1]) => n + 1 \notin Ups /\ n + 1 \in Downs
               /\ trail[n + 1] \in Still => n + 1 \notin Ups /\ n + 1 \notin Downs
    <2>1. /\ trail[n + 1] = ".." => ~ Leads(trail[n + 1])
          /\ trail[n + 1] \in Still => trail[n + 1] # ".." /\ ~ Leads(trail[n + 1])
          /\ Leads(trail[n + 1]) => trail[n + 1] # ".."
      BY DEF Leads, Still
    <2>2. n + 1 \in Int
      OBVIOUS
    <2> QED
      BY <2>1, <2>2
  <1> HIDE DEF Ups, Downs, Count
  <1>4. Depth(trail, 0) = 0
    BY <1>1, <1>2
  <1>5. ASSUME NEW n \in Nat
        PROVE  /\ Depth(trail, n) \in Int
               /\ trail[n + 1] = ".." => Depth(trail, n + 1) = Depth(trail, n) - 1
               /\ Leads(trail[n + 1]) => Depth(trail, n + 1) = Depth(trail, n) + 1
               /\ trail[n + 1] \in Still => Depth(trail, n + 1) = Depth(trail, n)
    <2>1. /\ Depth(trail, n) = Count(Downs, n) - Count(Ups, n)
          /\ Depth(trail, n + 1) = Count(Downs, n + 1) - Count(Ups, n + 1)
      BY <1>1
    <2> QED
      BY <1>2, <1>3, <2>1
  <1> QED
    BY <1>4, <1>5

\* Of the first m names, the i-th is the last one by which depth k was entered.
LastEntry(trail, m, k, i) ==
    /\ Depth(trail, i) = k
    /\ Leads(trail[i])
    /\ \A j \in i + 1 .. m : Depth(trail, j) = k => ~ Leads(trail[j])

Below(trail, m) == \A j \in 1 .. m : Depth(trail, j) >= 0

\* What has been made of the first m names.
LedTo(trail, m, base) ==
    /\ base \in Words
    /\ Below(trail, m) =>
          /\ Len(base) = Depth(trail, m)
          /\ \A k \in 1 .. Len(base) :
                \E i \in 1 .. m : LastEntry(trail, m, k, i) /\ base[k] = trail[i]
    /\ ~ Below(trail, m) => base # <<>> /\ base[1] = ".."

\* Every name in a directory leads down.
LEMMA DirectoryLeads ==
    ASSUME NEW dir \in Words, \A name \in ToSet(dir) : Leads(name), NEW names \in Words
    PROVE  LedTo(dir \o names, Len(dir), dir)
  <1> DEFINE trail == dir \o names
             L == Len(dir)
  <1>1. L \in Nat /\ \A i \in 1 .. L : trail[i] = dir[i] /\ Leads(trail[i])
    BY DEF Words, ToSet
  <1>2. ASSUME NEW n \in 0 .. L
        PROVE  Depth(trail, n) = n
    <2>1. {i \in 1 .. n : trail[i] = ".."} = {}
      <3> HIDE DEF trail
      <3> QED
        BY <1>1 DEF Leads
    <2>2. {i \in 1 .. n : Leads(trail[i])} = 1 .. n
      <3> HIDE DEF trail
      <3> QED
        BY <1>1
    <2>3. Depth(trail, n) = Cardinality(1 .. n) - 0
      BY <2>1, <2>2, FS_EmptySet, Zenon DEF Depth
    <2>4. n \in Nat /\ Cardinality(1 .. n) = n
      <3>1. n \in Nat
        BY <1>1
      <3>2. Cardinality(1 .. n) = IF 1 > n THEN 0 ELSE n - 1 + 1
        BY <3>1, FS_Interval
      <3> QED
        BY <3>1, <3>2
    <2> HIDE DEF trail
    <2> QED
      BY <2>3, <2>4
  <1>3. Below(trail, L) /\ Depth(trail, L) = L
    <2> HIDE DEF trail
    <2> QED
      BY <1>1, <1>2 DEF Below
  <1>4. ASSUME NEW k \in 1 .. L
        PROVE  LastEntry(trail, L, k, k) /\ dir[k] = trail[k]
    <2> HIDE DEF trail
    <2> QED
      BY <1>1, <1>2 DEF LastEntry
  <1> HIDE DEF trail
  <1> QED
    BY <1>1, <1>3, <1>4 DEF LedTo, trail

LEMMA NameLeadsOn ==
    ASSUME NEW trail \in Words, NEW m \in Nat, m < Len(trail),
           NEW base, LedTo(trail, m, base)
    PROVE  LedTo(trail, m + 1, Follow(base, trail[m + 1]))
  <1> DEFINE name == trail[m + 1]
             next == Follow(base, name)
  <1>1. name \in Segments /\ base \in Words
    BY DEF Words, LedTo
  <1>2. next \in Words
    BY <1>1, FollowTypes
  <1>3. 1 .. m + 1 = (1 .. m) \cup {m + 1}
    OBVIOUS
  <1>4. Depth(trail, m) \in Int /\ Depth(trail, m + 1) \in Int
    BY DepthSteps
  <1>5. Below(trail, m + 1) <=> Below(trail, m) /\ Depth(trail, m + 1) >= 0
    BY <1>3 DEF Below
  <1>6. CASE ~ Below(trail, m)
    <2>1. base # <<>> /\ base[1] = ".."
      BY <1>6 DEF LedTo
    <2>2. next # <<>> /\ next[1] = ".."
      <3>0. CASE name \in Still
        BY <2>1, <3>0 DEF Follow
      <3>1. CASE name = ".." /\ Last(base) # ".."
        <4>1. Len(base) \in Nat /\ Len(base) >= 1 /\ Len(base) # 1
          BY <1>1, <2>1, <3>1, FrontForm DEF Last
        <4>2. next = Front(base)
          BY <2>1, <3>1 DEF Follow, Still
        <4>3. Len(next) >= 1 /\ next[1] = base[1]
          <5>1. /\ Len(Front(base)) = Len(base) - 1
                /\ \A k \in 1 .. Len(base) - 1 : Front(base)[k] = base[k]
            BY <1>1, <2>1, FrontForm
          <5>2. \A n \in Nat : n >= 1 /\ n # 1 => 1 \in 1 .. n - 1
            OBVIOUS
          <5>3. 1 \in 1 .. Len(base) - 1
            BY <4>1, <5>2, Zenon
          <5> QED
            BY <4>1, <4>2, <5>1, <5>3
        <4> QED
          BY <1>2, <2>1, <4>3 DEF Words
      <3>2. CASE name \notin Still /\ ~ (name = ".." /\ Last(base) # "..")
        <4>1. next = Append(base, name)
          BY <2>1, <3>2 DEF Follow
        <4>2. Len(base) \in Nat /\ Len(base) >= 1
          BY <1>1, <2>1, FrontForm
        <4>3. Len(next) = Len(base) + 1 /\ next[1] = base[1]
          BY <1>1, <4>1, <4>2 DEF Words
        <4> QED
          BY <1>2, <2>1, <4>2, <4>3 DEF Words
      <3> QED
        BY <3>0, <3>1, <3>2
    <2> QED
      BY <1>2, <1>5, <1>6, <2>2 DEF LedTo
  <1>7. CASE Below(trail, m)
    <2>1. /\ Len(base) = Depth(trail, m)
          /\ \A k \in 1 .. Len(base) :
                \E i \in 1 .. m : LastEntry(trail, m, k, i) /\ base[k] = trail[i]
      BY <1>7 DEF LedTo
    <2>2. Len(base) \in Nat /\ base \in [1 .. Len(base) -> Segments]
      BY <1>1 DEF Words
    <2>0. CASE name \in Still
      <3>1. Depth(trail, m + 1) = Len(base) /\ next = base /\ ~ Leads(name)
        BY <2>0, <2>1, DepthSteps DEF Follow, Leads
      <3>2. ASSUME NEW k \in 1 .. Len(base)
            PROVE  \E i \in 1 .. m + 1 : LastEntry(trail, m + 1, k, i) /\ base[k] = trail[i]
        <4>1. PICK i \in 1 .. m : LastEntry(trail, m, k, i) /\ base[k] = trail[i]
          BY <2>1
        <4>2. i + 1 .. m + 1 = (i + 1 .. m) \cup {m + 1}
          OBVIOUS
        <4>3. LastEntry(trail, m + 1, k, i)
          BY <3>1, <4>1, <4>2 DEF LastEntry
        <4> QED
          BY <4>1, <4>3
      <3>3. Below(trail, m + 1)
        BY <1>5, <1>7, <2>2, <3>1
      <3> QED
        BY <1>2, <3>1, <3>2, <3>3 DEF LedTo
    <2>3. CASE Leads(name)
      <3>1. Depth(trail, m + 1) = Len(base) + 1
        BY <2>1, <2>3, DepthSteps
      <3>2. next = Append(base, name)
        BY <2>3 DEF Follow, Leads
      <3>3. /\ Len(next) = Len(base) + 1
            /\ \A k \in 1 .. Len(base) : next[k] = base[k]
            /\ next[Len(base) + 1] = name
        BY <1>1, <3>2 DEF Words
      <3>4. ASSUME NEW k \in 1 .. Len(next)
            PROVE  \E i \in 1 .. m + 1 : LastEntry(trail, m + 1, k, i) /\ next[k] = trail[i]
        <4>1. CASE k = Len(base) + 1
          <5>1. LastEntry(trail, m + 1, k, m + 1)
            BY <2>3, <3>1, <4>1 DEF LastEntry
          <5> QED
            BY <3>3, <4>1, <5>1
        <4>2. CASE k # Len(base) + 1
          <5>1. k \in 1 .. Len(base)
            BY <2>2, <3>3, <4>2
          <5>2. PICK i \in 1 .. m : LastEntry(trail, m, k, i) /\ base[k] = trail[i]
            BY <2>1, <5>1
          <5>3. i + 1 .. m + 1 = (i + 1 .. m) \cup {m + 1}
            OBVIOUS
          <5>4. LastEntry(trail, m + 1, k, i)
            BY <2>2, <3>1, <5>1, <5>2, <5>3 DEF LastEntry
          <5> QED
            BY <3>3, <5>1, <5>2, <5>4
        <4> QED
          BY <4>1, <4>2
      <3>5. Below(trail, m + 1)
        BY <1>5, <1>7, <2>2, <3>1
      <3> QED
        BY <1>2, <3>1, <3>3, <3>4, <3>5 DEF LedTo
    <2>4. CASE name = ".." /\ base = <<>>
      <3>1. Depth(trail, m + 1) = -1
        BY <2>1, <2>4, DepthSteps
      <3>2. ~ Below(trail, m + 1)
        BY <1>5, <3>1
      <3>3. next = <<"..">>
        BY <2>4 DEF Follow, Still
      <3> QED
        BY <1>2, <3>2, <3>3 DEF LedTo
    <2>5. CASE name = ".." /\ base # <<>>
      <3>1. Len(base) \in 1 .. Len(base)
        BY <1>1, <2>2, <2>5 DEF Words
      <3>2. Last(base) # ".."
        BY <2>1, <3>1 DEF Last, LastEntry, Leads
      <3>3. next = Front(base) /\ ~ Leads(name)
        BY <2>5, <3>2 DEF Follow, Still, Leads
      <3>4. /\ Len(next) = Len(base) - 1
            /\ \A k \in 1 .. Len(base) - 1 : next[k] = base[k]
        BY <1>1, <2>5, <3>3, FrontForm
      <3>5. Depth(trail, m + 1) = Len(base) - 1
        BY <2>1, <2>5, DepthSteps
      <3>6. ASSUME NEW k \in 1 .. Len(next)
            PROVE  \E i \in 1 .. m + 1 : LastEntry(trail, m + 1, k, i) /\ next[k] = trail[i]
        <4>1. k \in 1 .. Len(base)
          BY <2>2, <3>4
        <4>2. PICK i \in 1 .. m : LastEntry(trail, m, k, i) /\ base[k] = trail[i]
          BY <2>1, <4>1
        <4>3. i + 1 .. m + 1 = (i + 1 .. m) \cup {m + 1}
          OBVIOUS
        <4>4. LastEntry(trail, m + 1, k, i)
          BY <3>3, <4>2, <4>3 DEF LastEntry
        <4> QED
          BY <2>2, <3>4, <4>2, <4>4
      <3>7. Below(trail, m + 1)
        BY <1>5, <1>7, <2>2, <3>1, <3>5
      <3> QED
        BY <1>2, <3>4, <3>5, <3>6, <3>7 DEF LedTo
    <2> QED
      BY <2>0, <2>3, <2>4, <2>5 DEF Leads
  <1> QED
    BY <1>6, <1>7

LEMMA NormalizedLeads ==
    ASSUME NEW source, SafePath(source), NEW specifier, Specifier(specifier),
           NEW trail, trail = source.dir \o specifier.names
    PROVE  /\ trail \in Words
           /\ Last(trail) = Last(specifier.names)
           /\ LedTo(trail, Len(trail), normalized(source, specifier))
  <1> DEFINE L == Len(source.dir)
             N == Len(specifier.names)
  <1>1. /\ source.dir \in Words /\ specifier.names \in Words
        /\ \A name \in ToSet(source.dir) : Leads(name)
    BY PathForm, SpecifierForm
  <1>2. /\ L \in Nat /\ N \in Nat
        /\ trail \in Words /\ Len(trail) = L + N
        /\ \A n \in 1 .. N : trail[L + n] = specifier.names[n]
    <2>1. /\ L \in Nat /\ N \in Nat
          /\ trail \in Words /\ Len(trail) = L + N
          /\ \A i \in 1 .. L + N :
                trail[i] = IF i <= L THEN source.dir[i] ELSE specifier.names[i - L]
      BY <1>1, ConcatProperties, LenProperties DEF Words
    <2> HIDE DEF L, N
    <2>2. ASSUME NEW n \in 1 .. N
          PROVE  trail[L + n] = specifier.names[n]
      <3>1. L + n \in 1 .. L + N /\ ~ L + n <= L /\ (L + n) - L = n
        BY <2>1
      <3> QED
        BY <2>1, <3>1
    <2> QED
      BY <2>1, <2>2
  <1>3. PICK base : Bases(source, specifier, base)
    BY NormalizedByName
  <1>4. LedTo(trail, L + 0, base[0])
    BY <1>1, <1>2, <1>3, DirectoryLeads DEF Bases
  <1>5. ASSUME NEW n \in 0 .. N, n + 1 <= N, LedTo(trail, L + n, base[n])
        PROVE  LedTo(trail, L + (n + 1), base[n + 1])
    <2>1. /\ L + n \in Nat /\ L + n < Len(trail)
          /\ (L + n) + 1 = L + (n + 1) /\ n + 1 \in 1 .. N
      <3> HIDE DEF L, N
      <3> QED
        BY <1>2, <1>5
    <2>2. LedTo(trail, (L + n) + 1, Follow(base[n], trail[(L + n) + 1]))
      <3> HIDE DEF L, N
      <3> QED
        BY <1>2, <1>5, <2>1, NameLeadsOn
    <2>3. base[n + 1] = Follow(base[(n + 1) - 1], specifier.names[n + 1])
      BY <1>3, <2>1 DEF Bases
    <2>4. (n + 1) - 1 = n /\ trail[(L + n) + 1] = specifier.names[n + 1]
      <3> HIDE DEF L, N
      <3>1. trail[L + (n + 1)] = specifier.names[n + 1]
        BY <1>2, <2>1, Zenon
      <3>2. trail[(L + n) + 1] = specifier.names[n + 1]
        BY <2>1, <3>1, Zenon
      <3>3. (n + 1) - 1 = n
        BY <1>2
      <3> QED
        BY <3>2, <3>3
    <2> HIDE DEF L, N
    <2> QED
      BY <2>1, <2>2, <2>3, <2>4
  <1> DEFINE Missing == {n \in 0 .. N : ~ LedTo(trail, L + n, base[n])}
  <1>6. ASSUME Missing # {}
        PROVE  FALSE
    <2>1. Missing \in SUBSET Nat
      BY <1>2
    <2>2. PICK n \in Missing : \A i \in Missing : n <= i
      <3> HIDE DEF Missing
      <3> QED
        BY <1>6, <2>1, LeastNatural
    <2>3. n \in 0 .. N /\ n # 0
      BY <1>2, <1>4, <2>2
    <2>4. n - 1 \in 0 .. N /\ (n - 1) + 1 = n /\ n <= N /\ n - 1 < n
      BY <1>2, <2>3
    <2>5. n - 1 \notin Missing
      <3> HIDE DEF Missing
      <3>1. \A a \in Int, b \in Int : a < b => ~ b <= a
        OBVIOUS
      <3> QED
        BY <2>2, <2>3, <2>4, <3>1
    <2>6. LedTo(trail, L + (n - 1), base[n - 1])
      BY <2>4, <2>5
    <2>7. LedTo(trail, L + ((n - 1) + 1), base[(n - 1) + 1])
      <3> HIDE DEF L, N, Missing
      <3> QED
        BY <1>5, <2>4, <2>6
    <2>8. LedTo(trail, L + n, base[n])
      BY <2>4, <2>7
    <2> QED
      BY <2>2, <2>8
  <1>7. LedTo(trail, L + N, base[N])
    <2>1. N \in 0 .. N /\ N \notin Missing
      <3> HIDE DEF Missing
      <3> QED
        BY <1>2, <1>6
    <2> QED
      BY <2>1
  <1>8. Last(trail) = Last(specifier.names)
    <2>1. N \in 1 .. N
      BY SpecifierForm
    <2>2. trail[L + N] = specifier.names[N]
      BY <1>2, <2>1, Zenon
    <2> QED
      BY <1>2, <2>2 DEF Last
  <1> QED
    BY <1>2, <1>3, <1>7, <1>8 DEF Bases

\* At each depth that is left, Place has the name the last entry left there.
LEMMA PlaceIsLed ==
    ASSUME NEW trail \in Words, NEW base, LedTo(trail, Len(trail), base)
    PROVE  /\ Inside(trail) => Place(trail) = base
           /\ Inside(trail) <=> base = <<>> \/ base[1] # ".."
  <1> DEFINE N == Len(trail)
             Entered(k) == {i \in DOMAIN trail : Depth(trail, i) = k /\ Leads(trail[i])}
  <1>1. N \in Nat /\ DOMAIN trail = 1 .. N /\ base \in Words
    BY DEF Words, LedTo
  <1>2. Inside(trail) <=> Below(trail, N)
    BY <1>1 DEF Inside, Below
  <1>3. CASE ~ Inside(trail)
    BY <1>2, <1>3 DEF LedTo
  <1>4. CASE Inside(trail)
    <2>1. /\ Len(base) = Depth(trail, N)
          /\ \A k \in 1 .. Len(base) :
                \E i \in 1 .. N : LastEntry(trail, N, k, i) /\ base[k] = trail[i]
      BY <1>2, <1>4 DEF LedTo
    <2>2. ASSUME NEW k \in 1 .. Len(base)
          PROVE  trail[Max(Entered(k))] = base[k] /\ base[k] # ".."
      <3>1. PICK i \in 1 .. N : LastEntry(trail, N, k, i) /\ base[k] = trail[i]
        BY <2>1
      <3>2. i \in Entered(k)
        BY <1>1, <3>1 DEF LastEntry
      <3>3. ASSUME NEW j \in Entered(k)
            PROVE  i >= j
        <4>1. j \in 1 .. N /\ Depth(trail, j) = k /\ Leads(trail[j])
          BY <1>1
        <4>2. j \notin i + 1 .. N
          BY <3>1, <4>1 DEF LastEntry
        <4> QED
          BY <4>1, <4>2
      <3>4. Entered(k) \in SUBSET Int
        BY <1>1
      <3>5. Max(Entered(k)) = i
        <4> HIDE DEF Entered
        <4>1. Max(Entered(k)) \in Entered(k) /\ \A j \in Entered(k) : Max(Entered(k)) >= j
          BY <3>2, <3>3 DEF Max
        <4>2. \A a, b \in Int : a >= b /\ b >= a => a = b
          OBVIOUS
        <4> QED
          BY <3>2, <3>3, <3>4, <4>1, <4>2
      <3> HIDE DEF Entered
      <3> QED
        BY <3>1, <3>5 DEF LastEntry, Leads
    <2>3. Place(trail) = [k \in 1 .. Len(base) |-> trail[Max(Entered(k))]]
      BY <2>1 DEF Place
    <2>4. base = [k \in 1 .. Len(base) |-> base[k]] /\ Len(base) \in Nat
      BY <1>1 DEF Words
    <2>5. Place(trail) = base
      <3> HIDE DEF Entered
      <3>1. [k \in 1 .. Len(base) |-> trail[Max(Entered(k))]] = [k \in 1 .. Len(base) |-> base[k]]
        BY <2>2, Zenon
      <3> QED
        BY <2>3, <2>4, <3>1
    <2>6. base # <<>> => 1 \in 1 .. Len(base)
      BY <1>1, <2>4, EmptySeq DEF Words
    <2> QED
      BY <1>4, <2>2, <2>5, <2>6
  <1> QED
    BY <1>3, <1>4

LEMMA AppendedForm ==
    ASSUME NEW base \in Words, NEW name \in Segments
    PROVE  /\ Append(base, name) # <<>>
           /\ Append(base, name) \in Words
           /\ Front(Append(base, name)) = base
           /\ Last(Append(base, name)) = name
  <1> DEFINE longer == Append(base, name)
  <1>1. /\ longer \in Words /\ Len(base) \in Nat
        /\ Len(longer) = Len(base) + 1
        /\ \A k \in 1 .. Len(base) : longer[k] = base[k]
        /\ longer[Len(base) + 1] = name
    <2>1. /\ longer \in Words
          /\ Len(longer) = Len(base) + 1
          /\ \A k \in 1 .. Len(base) : longer[k] = base[k]
          /\ longer[Len(base) + 1] = name
      BY AppendProperties DEF Words
    <2>2. Len(base) \in Nat
      BY LenProperties DEF Words
    <2> QED
      BY <2>1, <2>2
  <1>2. longer # <<>>
    <2> HIDE DEF longer
    <2> QED
      BY <1>1, EmptySeq
  <1>3. Last(longer) = name
    BY <1>1 DEF Last
  <1>4. Front(longer) = base
    <2> HIDE DEF longer
    <2>1. /\ Front(longer) \in Words
          /\ Len(Front(longer)) = Len(longer) - 1
          /\ \A k \in 1 .. Len(longer) - 1 : Front(longer)[k] = longer[k]
      BY <1>1, <1>2, FrontForm
    <2>2. Len(Front(longer)) = Len(base) /\ Len(longer) - 1 = Len(base)
      BY <1>1, <2>1
    <2>3. \A k \in 1 .. Len(Front(longer)) : Front(longer)[k] = base[k]
      BY <1>1, <2>1, <2>2
    <2> QED
      BY <2>1, <2>2, <2>3, SeqEqual DEF Words
  <1> QED
    BY <1>1, <1>2, <1>3, <1>4

LEMMA RejoinedForm ==
    ASSUME NEW base \in Words, base # <<>>
    PROVE  /\ Front(base) \in Words /\ Last(base) \in Segments
           /\ Append(Front(base), Last(base)) = base
  <1>1. /\ Front(base) \in Words
        /\ Len(base) \in Nat /\ Len(base) >= 1
        /\ Len(Front(base)) = Len(base) - 1
        /\ \A k \in 1 .. Len(base) - 1 : Front(base)[k] = base[k]
    BY FrontForm
  <1>2. Len(base) \in 1 .. Len(base)
    BY <1>1
  <1>3. Last(base) \in Segments
    BY <1>2, ElementOfSeq DEF Last, Words
  <1> DEFINE again == Append(Front(base), Last(base))
  <1>4. /\ again \in Words
        /\ Len(again) = Len(Front(base)) + 1
        /\ \A k \in 1 .. Len(Front(base)) : again[k] = Front(base)[k]
        /\ again[Len(Front(base)) + 1] = Last(base)
    BY <1>1, <1>3, AppendProperties DEF Words
  <1>5. Len(again) = Len(base)
    BY <1>1, <1>4
  <1>6. ASSUME NEW k \in 1 .. Len(again)
        PROVE  again[k] = base[k]
    <2>1. CASE k = Len(base)
      BY <1>1, <1>4, <2>1 DEF Last
    <2>2. CASE k # Len(base)
      <3>1. k \in 1 .. Len(base) - 1 /\ k \in 1 .. Len(Front(base))
        BY <1>1, <1>5, <2>2
      <3> QED
        BY <1>1, <1>4, <3>1
    <2> QED
      BY <2>1, <2>2
  <1>7. again = base
    <2> HIDE DEF again
    <2> QED
      BY <1>4, <1>5, <1>6, SeqEqual DEF Words
  <1> QED
    BY <1>1, <1>3, <1>7

LEMMA IsPathAt ==
    ASSUME NEW path, SafePath(path), NEW base \in Words, base # <<>>, NEW ext
    PROVE  path = PathAt(base, ext) <=> Append(path.dir, path.stem) = base /\ path.ext = ext
  <1>1. /\ path = [dir |-> path.dir, stem |-> path.stem, ext |-> path.ext]
        /\ path.dir \in Words /\ path.stem \in Segments
    BY PathForm
  <1>2. /\ Front(Append(path.dir, path.stem)) = path.dir
        /\ Last(Append(path.dir, path.stem)) = path.stem
    BY <1>1, AppendedForm
  <1>3. Append(Front(base), Last(base)) = base
    BY RejoinedForm
  <1>4. path = PathAt(base, ext)
            <=> path.dir = Front(base) /\ path.stem = Last(base) /\ path.ext = ext
    BY <1>1 DEF PathAt
  <1> QED
    BY <1>2, <1>3, <1>4

\* The search among the candidates takes what the trail leads to.
LEMMA CandidatesAreNamed ==
    ASSUME NEW source, SafePath(source), NEW specifier, Specifier(specifier), relative(specifier),
           NEW path, SafePath(path),
           NEW base, base = normalized(source, specifier)
    PROVE  Names(source, specifier, path)
               <=> ~ UnsafeBase(specifier, base) /\ path \in Candidates(base)
  <1> DEFINE trail == source.dir \o specifier.names
             name == Last(base)
             IsFile == /\ path.dir = Front(base)
                       /\ path.stem = FileNames[name].stem /\ path.ext = FileNames[name].ext
             IsOne == \/ Append(path.dir, path.stem) = base
                      \/ path.dir = base /\ path.stem = "index"
  <1>1. /\ trail \in Words /\ LedTo(trail, Len(trail), base) /\ base \in Words
        /\ Last(trail) = Last(specifier.names)
    <2>1. /\ trail \in Words /\ LedTo(trail, Len(trail), base)
          /\ Last(trail) = Last(specifier.names)
      <3>1. trail = source.dir \o specifier.names
        OBVIOUS
      <3> HIDE DEF trail
      <3> QED
        BY <3>1, NormalizedLeads
    <2> QED
      BY <2>1 DEF LedTo
  <1>2. /\ Inside(trail) => Place(trail) = base
        /\ Inside(trail) <=> base = <<>> \/ base[1] # ".."
    <2> HIDE DEF trail
    <2> QED
      BY <1>1, PlaceIsLed
  <1>3. Names(source, specifier, path) <=>
            /\ ~ UnsafeBase(specifier, base)
            /\ IF name \in DOMAIN FileNames THEN IsFile ELSE IsOne
    <2>1. Names(source, specifier, path) <=>
              /\ Last(trail) # "" /\ Inside(trail) /\ Place(trail) # <<>>
              /\ IF Last(Place(trail)) \in DOMAIN FileNames
                 THEN /\ path.dir = Front(Place(trail))
                      /\ path.stem = FileNames[Last(Place(trail))].stem
                      /\ path.ext = FileNames[Last(Place(trail))].ext
                 ELSE \/ Append(path.dir, path.stem) = Place(trail)
                      \/ path.dir = Place(trail) /\ path.stem = "index"
      BY DEF Names
    <2> HIDE DEF trail
    <2> QED
      BY <1>1, <1>2, <2>1 DEF UnsafeBase
  <1>4. SUFFICES ASSUME base # <<>>
                 PROVE  path \in Candidates(base)
                            <=> IF name \in DOMAIN FileNames THEN IsFile ELSE IsOne
    <2> HIDE DEF trail, name, IsFile, IsOne
    <2> QED
      BY <1>3, <1>4 DEF UnsafeBase
  <1>5. /\ path.ext \in Extensions
        /\ path.dir \in Words /\ path.stem \in Segments
        /\ path = [dir |-> path.dir, stem |-> path.stem, ext |-> path.ext]
    BY PathForm
  <1>6. CASE name \in DOMAIN FileNames
    <2>1. path \in Candidates(base) <=>
              path = [dir |-> Front(base), stem |-> FileNames[name].stem,
                      ext |-> FileNames[name].ext]
      BY <1>6 DEF Candidates
    <2> QED
      BY <1>5, <1>6, <2>1
  <1>7. CASE name \notin DOMAIN FileNames
    <2>1. \A e : path = PathAt(base, e) <=> Append(path.dir, path.stem) = base /\ path.ext = e
      BY <1>1, <1>4, IsPathAt
    <2>2. /\ Append(base, "index") # <<>> /\ Append(base, "index") \in Words
          /\ Front(Append(base, "index")) = base /\ Last(Append(base, "index")) = "index"
      <3>1. "index" \in Segments
        BY DEF Segments
      <3> QED
        BY <1>1, <3>1, AppendedForm
    <2>3. \A e : path = PathAt(Append(base, "index"), e)
                     <=> Append(path.dir, path.stem) = Append(base, "index") /\ path.ext = e
      BY <2>2, IsPathAt
    <2>4. Append(path.dir, path.stem) = Append(base, "index")
              <=> path.dir = base /\ path.stem = "index"
      BY <1>5, <2>2, AppendedForm
    <2>5. path \in Candidates(base) <=>
              \/ \E e \in Extensions : path = PathAt(base, e)
              \/ \E e \in Extensions : path = PathAt(Append(base, "index"), e)
      BY <1>7 DEF Candidates
    <2>6. path \in Candidates(base) <=> IsOne
      BY <1>5, <2>1, <2>3, <2>4, <2>5
    <2> QED
      BY <1>7, <2>6
  <1> QED
    BY <1>6, <1>7

-----------------------------------------------------------------------------
(***************************************************************************)
(* CodeMapMembers: the statements, and what they say of other files.       *)
(***************************************************************************)
LEMMA TreeForm ==
    ASSUME SourcesInit
    PROVE  /\ IsFiniteSet(DOMAIN sources)
           /\ NoPath \notin DOMAIN sources
           /\ \A path \in DOMAIN sources :
                 /\ SafePath(path)
                 /\ IsList(sources[path].statements)
                 /\ \A statement \in ToSet(sources[path].statements) : Statement(statement)
  <1>1. /\ IsFiniteSet(DOMAIN sources)
        /\ \A path \in DOMAIN sources :
              /\ SafePath(path)
              /\ IsList(sources[path].statements)
              /\ \A statement \in ToSet(sources[path].statements) : Statement(statement)
    BY SourcesAssumption, Zenon DEF SourcesInit
  <1>2. NoPath.ext = ""
    BY DEF NoPath
  <1>3. NoPath \notin DOMAIN sources
    BY <1>1, <1>2, PathForm
  <1> QED
    BY <1>1, <1>3

LEMMA ListForm ==
    ASSUME NEW list, IsList(list)
    PROVE  Len(list) \in Nat /\ DOMAIN list = 1 .. Len(list)
  BY LenProperties DEF IsList

LEMMA PlaceForm ==
    ASSUME SourcesInit, NEW kind, NEW place \in Places(kind)
    PROVE  /\ place = <<place[1], place[2]>>
           /\ place[1] \in DOMAIN sources
           /\ place[2] \in DOMAIN sources[place[1]].statements
           /\ SafePath(place[1])
           /\ StatementAt(place).kind = kind
           /\ Statement(StatementAt(place))
  <1>1. PICK path \in DOMAIN sources : \E i \in DOMAIN sources[path].statements :
            place = <<path, i>> /\ sources[path].statements[i].kind = kind
    BY DEF Places
  <1>2. PICK i \in DOMAIN sources[path].statements :
            place = <<path, i>> /\ sources[path].statements[i].kind = kind
    BY <1>1
  <1>3. sources[path].statements[i] \in ToSet(sources[path].statements)
    BY DEF ToSet
  <1> QED
    BY <1>2, <1>3, TreeForm DEF StatementAt

LEMMA LinkForm ==
    ASSUME SourcesInit, NEW kind \in {"IMPORT", "EXPORT_FROM"}, NEW place \in Places(kind)
    PROVE  /\ Specifier(StatementAt(place).specifier)
           /\ kind = "EXPORT_FROM" => IsFiniteSet(StatementAt(place).names)
  <1>1. StatementAt(place).kind = kind /\ Statement(StatementAt(place))
    BY PlaceForm
  <1>2. CASE kind = "IMPORT"
    BY <1>1, <1>2 DEF Statement
  <1>3. CASE kind = "EXPORT_FROM"
    BY <1>1, <1>3 DEF Statement
  <1> QED
    BY <1>2, <1>3

\* A specifier is resolved to what it means, and to nothing if that is not one file.
LEMMA ResolvedIsMeant ==
    ASSUME SourcesInit, NEW source \in DOMAIN sources, NEW specifier, Specifier(specifier), NEW path
    PROVE  resolveRelativeSpecifier(source, specifier) = path /\ path # NoPath
               <=> path \in DOMAIN sources /\ Means(source, specifier, path)
  <1> DEFINE base == normalized(source, specifier)
             matches == IF UnsafeBase(specifier, base) THEN {}
                        ELSE Candidates(base) \cap DOMAIN sources
             named == {q \in DOMAIN sources : Names(source, specifier, q)}
  <1>1. resolveRelativeSpecifier(source, specifier) =
            IF relative(specifier) /\ Cardinality(matches) = 1
            THEN CHOOSE q \in matches : TRUE ELSE NoPath
    BY DEF resolveRelativeSpecifier
  <1>2. Means(source, specifier, path) <=> named = {path}
    BY DEF Means
  <1>3. CASE ~ relative(specifier)
    <2>1. named = {}
      BY <1>3 DEF Names
    <2> HIDE DEF named, matches
    <2> QED
      BY <1>1, <1>2, <1>3, <2>1
  <1>4. CASE relative(specifier)
    <2>1. matches = named
      <3>1. ASSUME NEW q \in DOMAIN sources
            PROVE  Names(source, specifier, q)
                       <=> ~ UnsafeBase(specifier, base) /\ q \in Candidates(base)
        <4> HIDE DEF base
        <4> QED
          BY <1>4, TreeForm, CandidatesAreNamed DEF base
      <3> HIDE DEF base
      <3> QED
        BY <3>1
    <2>2. IsFiniteSet(named) /\ named \subseteq DOMAIN sources
      <3>1. named \in SUBSET DOMAIN sources
        OBVIOUS
      <3> HIDE DEF named
      <3> QED
        BY <3>1, TreeForm, FS_Subset
    <2> HIDE DEF named, matches
    <2>3. Cardinality(named) = 1 <=> \E q : named = {q}
      BY <2>2, FS_Singleton
    <2>4. \A q : named = {q} => (CHOOSE r \in named : TRUE) = q /\ q \in DOMAIN sources
      BY <2>2
    <2>5. NoPath \notin DOMAIN sources
      BY TreeForm
    <2> QED
      BY <1>1, <1>2, <1>4, <2>1, <2>3, <2>4, <2>5
  <1> QED
    BY <1>3, <1>4

\* What an import, or an export from another file, is about.
TargetOf(place) == resolveRelativeSpecifier(place[1], StatementAt(place).specifier)

LEMMA TargetForm ==
    ASSUME SourcesInit, NEW kind \in {"IMPORT", "EXPORT_FROM"}, NEW place \in Places(kind)
    PROVE  /\ TargetOf(place) # NoPath => TargetOf(place) \in DOMAIN sources
           /\ \A path \in DOMAIN sources :
                 Means(place[1], StatementAt(place).specifier, path)
                     <=> TargetOf(place) = path /\ path # NoPath
           /\ NoPath \notin DOMAIN sources
  BY PlaceForm, LinkForm, ResolvedIsMeant, TreeForm DEF TargetOf

LEMMA ImportForm ==
    ASSUME NEW i
    PROVE  i \in imports <=>
               \E place \in Places("IMPORT") :
                   i = [at |-> place, specifier |-> StatementAt(place).specifier,
                        target |-> TargetOf(place)]
  BY DEF imports, TargetOf

LEMMA ReexportForm ==
    ASSUME NEW e
    PROVE  e \in reexports <=>
               \E place \in Places("EXPORT_FROM") : \E name \in StatementAt(place).names :
                   e = [at |-> place, name |-> name, specifier |-> StatementAt(place).specifier,
                        target |-> TargetOf(place)]
  BY DEF reexports, TargetOf

-----------------------------------------------------------------------------
(***************************************************************************)
(* CodeMapMembers: there are finitely many members.                        *)
(***************************************************************************)
LEMMA ImageIsFinite ==
    ASSUME NEW S, IsFiniteSet(S), NEW f, DOMAIN f = S, NEW T, T \subseteq {f[x] : x \in S}
    PROVE  IsFiniteSet(T)
  <1> DEFINE image == {f[x] : x \in S}
             g == [x \in S |-> f[x]]
  <1>1. g \in Surjection(S, image)
    BY DEF Surjection
  <1>2. IsFiniteSet(image)
    <2> HIDE DEF g, image
    <2> QED
      BY <1>1, FS_Surjection
  <1>3. T \in SUBSET image
    OBVIOUS
  <1> HIDE DEF image
  <1> QED
    BY <1>2, <1>3, FS_Subset

LEMMA UnionIsFinite ==
    ASSUME NEW S, IsFiniteSet(S), NEW f, DOMAIN f = S, \A x \in S : IsFiniteSet(f[x]),
           NEW T, T \subseteq UNION {f[x] : x \in S}
    PROVE  IsFiniteSet(T)
  <1> DEFINE image == {f[x] : x \in S}
  <1>1. IsFiniteSet(image)
    BY ImageIsFinite
  <1>2. \A U \in image : IsFiniteSet(U)
    OBVIOUS
  <1> HIDE DEF image
  <1>3. IsFiniteSet(UNION image)
    BY <1>1, <1>2, FS_UNION
  <1>4. T \in SUBSET UNION image
    BY DEF image
  <1> QED
    BY <1>3, <1>4, FS_Subset

LEMMA StatementsAreFinite ==
    ASSUME SourcesInit, NEW kind
    PROVE  IsFiniteSet(Places(kind))
  <1> DEFINE Numbers(path) == {j \in DOMAIN sources[path].statements :
                                  sources[path].statements[j].kind = kind}
             of == [path \in DOMAIN sources |-> {<<path, i>> : i \in Numbers(path)}]
  <1>1. ASSUME NEW path \in DOMAIN sources
        PROVE  IsFiniteSet(of[path])
    <2>1. IsFiniteSet(DOMAIN sources[path].statements)
      BY TreeForm, ListForm, FS_Interval
    <2>2. IsFiniteSet(Numbers(path))
      BY <2>1, FS_Subset
    <2> DEFINE place == [i \in Numbers(path) |-> <<path, i>>]
    <2>3. of[path] = {place[i] : i \in Numbers(path)}
      OBVIOUS
    <2> HIDE DEF Numbers
    <2> QED
      BY <2>2, <2>3, ImageIsFinite
  <1>2. Places(kind) = UNION {of[path] : path \in DOMAIN sources}
    BY DEF Places
  <1>3. DOMAIN of = DOMAIN sources
    OBVIOUS
  <1> HIDE DEF of
  <1> QED
    BY <1>1, <1>2, <1>3, TreeForm, UnionIsFinite

LEMMA LinksAreFinite ==
    ASSUME SourcesInit
    PROVE  IsFiniteSet(imports) /\ IsFiniteSet(reexports) /\ IsFiniteSet(testAssociations)
  <1> DEFINE import == [place \in Places("IMPORT") |->
                           [at |-> place, specifier |-> StatementAt(place).specifier,
                            target |-> TargetOf(place)]]
  <1>1. imports = {import[place] : place \in Places("IMPORT")}
    BY DEF imports, TargetOf
  <1>2. IsFiniteSet(imports)
    <2>1. DOMAIN import = Places("IMPORT")
      OBVIOUS
    <2> HIDE DEF import
    <2> QED
      BY <1>1, <2>1, StatementsAreFinite, ImageIsFinite
  <1> DEFINE Reexport(place, name) ==
                 [at |-> place, name |-> name, specifier |-> StatementAt(place).specifier,
                  target |-> TargetOf(place)]
             from == [place \in Places("EXPORT_FROM") |->
                         {Reexport(place, name) : name \in StatementAt(place).names}]
  <1>3. ASSUME NEW place \in Places("EXPORT_FROM")
        PROVE  IsFiniteSet(from[place])
    <2> DEFINE of == [name \in StatementAt(place).names |-> Reexport(place, name)]
    <2>1. from[place] = {of[name] : name \in StatementAt(place).names}
      OBVIOUS
    <2>2. IsFiniteSet(StatementAt(place).names)
      BY LinkForm
    <2>3. DOMAIN of = StatementAt(place).names
      OBVIOUS
    <2> HIDE DEF of, from
    <2> QED
      BY <2>1, <2>2, <2>3, ImageIsFinite
  <1>4. reexports = UNION {from[place] : place \in Places("EXPORT_FROM")}
    BY DEF reexports, TargetOf
  <1>5. IsFiniteSet(reexports)
    <2>1. DOMAIN from = Places("EXPORT_FROM")
      OBVIOUS
    <2> HIDE DEF from
    <2> QED
      BY <1>3, <1>4, <2>1, StatementsAreFinite, UnionIsFinite
  <1> DEFINE association == [i \in imports |->
                                [source |-> i.at[1], target |-> i.target, specifier |-> i.specifier]]
  <1>6. testAssociations \subseteq {association[i] : i \in imports}
    BY DEF testAssociations
  <1>7. IsFiniteSet(testAssociations)
    <2>1. DOMAIN association = imports
      OBVIOUS
    <2> HIDE DEF association, import
    <2> QED
      BY <1>2, <1>6, <2>1, ImageIsFinite
  <1> QED
    BY <1>2, <1>5, <1>7

LEMMA NamesAreFinite ==
    ASSUME SourcesInit, NEW place
    PROVE  IsFiniteSet(exportedNames(place))
  <1> DEFINE lists == {q \in Places("EXPORT_LIST") : q[1] = place[1]}
             pairs == [q \in lists |-> StatementAt(q).pairs]
             listed == {q \in localContractExports(place[1]) : q.local = StatementAt(place).name}
             exported == [pair \in listed |-> pair.exported]
             direct == [q \in {place} |-> DirectName(q)]
  <1>1. IsFiniteSet(lists)
    BY StatementsAreFinite, FS_Subset
  <1>2. ASSUME NEW q \in lists
        PROVE  IsFiniteSet(pairs[q])
    <2>1. StatementAt(q).kind = "EXPORT_LIST" /\ Statement(StatementAt(q))
      BY PlaceForm
    <2> QED
      BY <2>1 DEF Statement
  <1>3. localContractExports(place[1]) = UNION {pairs[q] : q \in lists}
    BY DEF localContractExports
  <1>4. IsFiniteSet(localContractExports(place[1]))
    <2>1. DOMAIN pairs = lists
      OBVIOUS
    <2> HIDE DEF pairs, lists
    <2> QED
      BY <1>1, <1>2, <1>3, <2>1, UnionIsFinite
  <1>5. IsFiniteSet(listed)
    BY <1>4, FS_Subset
  <1>6. IsFiniteSet({exported[pair] : pair \in listed})
    <2>1. DOMAIN exported = listed
      OBVIOUS
    <2> HIDE DEF exported, listed
    <2> QED
      BY <1>5, <2>1, ImageIsFinite
  <1>7. IsFiniteSet({direct[q] : q \in {place}})
    <2>1. DOMAIN direct = {place} /\ IsFiniteSet({place})
      BY FS_Singleton
    <2> HIDE DEF direct
    <2> QED
      BY <2>1, ImageIsFinite
  <1>8. exportedNames(place) \subseteq {direct[q] : q \in {place}} \cup {exported[pair] : pair \in listed}
    BY DEF exportedNames
  <1> HIDE DEF direct, exported, listed
  <1> QED
    BY <1>6, <1>7, <1>8, FS_Union, FS_Subset

LEMMA DeclarationsAreFinite ==
    ASSUME SourcesInit
    PROVE  IsFiniteSet(contracts) /\ IsFiniteSet(routes) /\ IsFiniteSet(manifests)
  <1> DEFINE Contract(place, name) ==
                 [at |-> place, name |-> StatementAt(place).name, exportedName |-> name]
             of == [place \in localContracts |->
                       {Contract(place, name) : name \in exportedNames(place)}]
  <1>1. IsFiniteSet(localContracts)
    <2>1. localContracts \subseteq Places("CONTRACT")
      BY DEF localContracts
    <2> QED
      BY <2>1, StatementsAreFinite, FS_Subset
  <1>2. ASSUME NEW place \in localContracts
        PROVE  IsFiniteSet(of[place])
    <2> DEFINE named == [name \in exportedNames(place) |-> Contract(place, name)]
    <2>1. of[place] = {named[name] : name \in exportedNames(place)}
      OBVIOUS
    <2>2. DOMAIN named = exportedNames(place)
      OBVIOUS
    <2> HIDE DEF named, of
    <2> QED
      BY <2>1, <2>2, NamesAreFinite, ImageIsFinite
  <1>3. contracts = UNION {of[place] : place \in localContracts}
    BY DEF contracts
  <1>4. IsFiniteSet(contracts)
    <2>1. DOMAIN of = localContracts
      OBVIOUS
    <2> HIDE DEF of
    <2> QED
      BY <1>1, <1>2, <1>3, <2>1, UnionIsFinite
  <1> DEFINE plain == [place \in Places("ROUTE") |->
                          [at |-> Append(place, 0), call |-> StatementAt(place).call,
                           known |-> receivers(place[1], place[2])]]
             Inner(place, n) ==
                 [at |-> Append(place, n), call |-> StatementAt(place).calls[n],
                  known |-> PluginReceivers(place[1], place[2])]
             inner == [place \in Places("PLUGIN") |->
                          {Inner(place, n) : n \in DOMAIN StatementAt(place).calls}]
  <1>5. IsFiniteSet({plain[place] : place \in Places("ROUTE")})
    <2>1. DOMAIN plain = Places("ROUTE")
      OBVIOUS
    <2> HIDE DEF plain
    <2> QED
      BY <2>1, StatementsAreFinite, ImageIsFinite
  <1>6. ASSUME NEW place \in Places("PLUGIN")
        PROVE  IsFiniteSet(inner[place])
    <2> DEFINE calls == StatementAt(place).calls
               call == [n \in DOMAIN calls |-> Inner(place, n)]
    <2>1. IsList(calls)
      <3>1. StatementAt(place).kind = "PLUGIN" /\ Statement(StatementAt(place))
        BY PlaceForm
      <3> QED
        BY <3>1 DEF Statement
    <2>2. IsFiniteSet(DOMAIN calls)
      <3> HIDE DEF calls
      <3> QED
        BY <2>1, ListForm, FS_Interval
    <2>3. inner[place] = {call[n] : n \in DOMAIN calls}
      OBVIOUS
    <2>4. DOMAIN call = DOMAIN calls
      OBVIOUS
    <2> HIDE DEF call, calls, inner
    <2> QED
      BY <2>2, <2>3, <2>4, ImageIsFinite
  <1>7. IsFiniteSet(UNION {inner[place] : place \in Places("PLUGIN")})
    <2>1. DOMAIN inner = Places("PLUGIN")
      OBVIOUS
    <2> HIDE DEF inner
    <2> QED
      BY <1>6, <2>1, StatementsAreFinite, UnionIsFinite
  <1>8. RouteCalls = {plain[place] : place \in Places("ROUTE")}
                     \cup UNION {inner[place] : place \in Places("PLUGIN")}
    BY DEF RouteCalls
  <1>9. IsFiniteSet(RouteCalls)
    <2> HIDE DEF plain, inner
    <2> QED
      BY <1>5, <1>7, <1>8, FS_Union
  <1>10. routes \subseteq RouteCalls /\ manifests \subseteq DOMAIN sources
    BY DEF routes, Recognized, manifests, Manifests
  <1> QED
    BY <1>4, <1>9, <1>10, TreeForm, FS_Subset

LEMMA AssetsAreFinite ==
    ASSUME SourcesInit
    PROVE  /\ IsFiniteSet(Assets)
           /\ IsFiniteSet(PackageAssets) /\ IsFiniteSet(ContractAssets) /\ IsFiniteSet(RouteAssets)
  <1> DEFINE
        file == [p \in DOMAIN sources |->
                    Asset("FILE", fileKey(p), PathLength(p) + 1, PathLength(p), TRUE, p)]
        package == [p \in manifests |->
                       Asset("PACKAGE", <<"package", p>>, PathLength(p) + 1, 1, TRUE, p)]
        contract == [c \in contracts |->
                        Asset("CONTRACT", contractKey(c), contractKeyLength(c), 1, TRUE, c)]
        route == [c \in routes |->
                     Asset("ROUTE", routeKey(c), routeKeyLength(c), c.call.route.length + 1,
                           c.call.route.trimmed, c)]
  <1>1. IsFiniteSet(FileAssets)
    <2>1. FileAssets \subseteq {file[p] : p \in DOMAIN sources}
      BY DEF FileAssets
    <2>2. DOMAIN file = DOMAIN sources
      OBVIOUS
    <2> HIDE DEF file
    <2> QED
      BY <2>1, <2>2, TreeForm, ImageIsFinite
  <1>2. IsFiniteSet(PackageAssets)
    <2>1. PackageAssets \subseteq {package[p] : p \in manifests}
      BY DEF PackageAssets
    <2>2. DOMAIN package = manifests
      OBVIOUS
    <2> HIDE DEF package
    <2> QED
      BY <2>1, <2>2, DeclarationsAreFinite, ImageIsFinite
  <1>3. IsFiniteSet(ContractAssets)
    <2>1. ContractAssets \subseteq {contract[c] : c \in contracts}
      BY DEF ContractAssets
    <2>2. DOMAIN contract = contracts
      OBVIOUS
    <2> HIDE DEF contract
    <2> QED
      BY <2>1, <2>2, DeclarationsAreFinite, ImageIsFinite
  <1>4. IsFiniteSet(RouteAssets)
    <2>1. RouteAssets \subseteq {route[c] : c \in routes}
      BY DEF RouteAssets
    <2>2. DOMAIN route = routes
      OBVIOUS
    <2> HIDE DEF route
    <2> QED
      BY <2>1, <2>2, DeclarationsAreFinite, ImageIsFinite
  <1>5. IsFiniteSet(FileAssets \cup PackageAssets)
    BY <1>1, <1>2, FS_Union
  <1>6. IsFiniteSet(FileAssets \cup PackageAssets \cup ContractAssets)
    BY <1>3, <1>5, FS_Union
  <1>7. IsFiniteSet(FileAssets \cup PackageAssets \cup ContractAssets \cup RouteAssets)
    BY <1>4, <1>6, FS_Union
  <1> QED
    BY <1>2, <1>3, <1>4, <1>7 DEF Assets

\* The edges of a declaration, of an import, of an export and of a test's import.
ContractEdge(a) == Edge("DECLARES_CONTRACT", <<"declares", a.key>>, a.length + 1, a.key,
                        fileKey(a.of.at[1]), a.of)
RouteEdge(a) == Edge("DECLARES_ROUTE", <<"declares", a.key>>, a.length + 1, a.key,
                     fileKey(a.of.at[1]), a.of)
PackageEdge(a) == Edge("DECLARES_PACKAGE", <<"declares", a.key>>, a.length, a.key,
                       fileKey(a.of), a.of)
ImportEdge(i) == Edge("IMPORTS", <<"imports", i.at[1], i.specifier, i.target>>,
                      LinkLength(i.at[1], i.specifier, i.target),
                      fileKey(i.at[1]), fileKey(i.target), i)
ReexportEdge(e) == Edge("REEXPORTS", <<"reexports", e.at[1], e.name, e.specifier, e.target>>,
                        LinkLength(e.at[1], e.specifier, e.target) + 1,
                        fileKey(e.at[1]), fileKey(e.target), e)
TestEdge(t) == Edge("TEST_IMPORTS", <<"test-imports", t.source, t.target, t.specifier>>,
                    LinkLength(t.source, t.specifier, t.target),
                    fileKey(t.source), fileKey(t.target), t)

LEMMA EdgeForm ==
    ASSUME NEW e
    PROVE  e \in Edges <=>
               \/ \E a \in ContractAssets : e = ContractEdge(a)
               \/ \E a \in RouteAssets : e = RouteEdge(a)
               \/ \E a \in PackageAssets : e = PackageEdge(a)
               \/ \E i \in imports : i.target # NoPath /\ e = ImportEdge(i)
               \/ \E f \in reexports : f.target # NoPath /\ e = ReexportEdge(f)
               \/ \E t \in testAssociations : e = TestEdge(t)
  <1>1. e \in DeclarationEdges <=>
            \/ \E a \in ContractAssets : e = ContractEdge(a)
            \/ \E a \in RouteAssets : e = RouteEdge(a)
            \/ \E a \in PackageAssets : e = PackageEdge(a)
    BY DEF DeclarationEdges, ContractEdge, RouteEdge, PackageEdge
  <1>2. e \in ImportEdges <=> \E i \in imports : i.target # NoPath /\ e = ImportEdge(i)
    BY DEF ImportEdges, ImportEdge
  <1>3. e \in ReexportEdges <=> \E f \in reexports : f.target # NoPath /\ e = ReexportEdge(f)
    BY DEF ReexportEdges, ReexportEdge
  <1>4. e \in TestEdges <=> \E t \in testAssociations : e = TestEdge(t)
    BY DEF TestEdges, TestEdge
  <1> QED
    BY <1>1, <1>2, <1>3, <1>4 DEF Edges

LEMMA EdgesAreFinite ==
    ASSUME SourcesInit
    PROVE  IsFiniteSet(Edges)
  <1> DEFINE contract == [a \in ContractAssets |-> ContractEdge(a)]
             route == [a \in RouteAssets |-> RouteEdge(a)]
             package == [a \in PackageAssets |-> PackageEdge(a)]
             import == [i \in imports |-> ImportEdge(i)]
             reexport == [f \in reexports |-> ReexportEdge(f)]
             test == [t \in testAssociations |-> TestEdge(t)]
             Image(f) == {f[x] : x \in DOMAIN f}
  <1>1. ASSUME NEW f, IsFiniteSet(DOMAIN f)
        PROVE  IsFiniteSet(Image(f))
    BY <1>1, ImageIsFinite
  <1>2. IsFiniteSet(Image(contract))
    <2>1. IsFiniteSet(DOMAIN contract)
      BY AssetsAreFinite
    <2> HIDE DEF contract, Image
    <2> QED
      BY <1>1, <2>1
  <1>3. IsFiniteSet(Image(route))
    <2>1. IsFiniteSet(DOMAIN route)
      BY AssetsAreFinite
    <2> HIDE DEF route, Image
    <2> QED
      BY <1>1, <2>1
  <1>4. IsFiniteSet(Image(package))
    <2>1. IsFiniteSet(DOMAIN package)
      BY AssetsAreFinite
    <2> HIDE DEF package, Image
    <2> QED
      BY <1>1, <2>1
  <1>5. IsFiniteSet(Image(import))
    <2>1. IsFiniteSet(DOMAIN import)
      BY LinksAreFinite
    <2> HIDE DEF import, Image
    <2> QED
      BY <1>1, <2>1
  <1>6. IsFiniteSet(Image(reexport))
    <2>1. IsFiniteSet(DOMAIN reexport)
      BY LinksAreFinite
    <2> HIDE DEF reexport, Image
    <2> QED
      BY <1>1, <2>1
  <1>7. IsFiniteSet(Image(test))
    <2>1. IsFiniteSet(DOMAIN test)
      BY LinksAreFinite
    <2> HIDE DEF test, Image
    <2> QED
      BY <1>1, <2>1
  <1>8. /\ \A a \in ContractAssets : ContractEdge(a) \in Image(contract)
        /\ \A a \in RouteAssets : RouteEdge(a) \in Image(route)
        /\ \A a \in PackageAssets : PackageEdge(a) \in Image(package)
        /\ \A i \in imports : ImportEdge(i) \in Image(import)
        /\ \A f \in reexports : ReexportEdge(f) \in Image(reexport)
        /\ \A t \in testAssociations : TestEdge(t) \in Image(test)
    OBVIOUS
  <1> HIDE DEF contract, route, package, import, reexport, test, Image
  <1> DEFINE declared == (Image(contract) \cup Image(route)) \cup Image(package)
             linked == (Image(import) \cup Image(reexport)) \cup Image(test)
  <1>9. IsFiniteSet(declared) /\ IsFiniteSet(linked)
    BY <1>2, <1>3, <1>4, <1>5, <1>6, <1>7, FS_Union
  <1>10. Edges \in SUBSET (declared \cup linked)
    BY <1>8, EdgeForm
  <1> QED
    <2> HIDE DEF declared, linked
    <2>1. IsFiniteSet(declared \cup linked)
      BY <1>9, FS_Union
    <2> QED
      BY <1>10, <2>1, FS_Subset

-----------------------------------------------------------------------------
(***************************************************************************)
(* CodeMapMembers: the edges between files are the links of the sources.   *)
(***************************************************************************)
LEMMA KindForm ==
    ASSUME NEW e \in Edges
    PROVE  /\ e.kind = "IMPORTS" =>
                 \E i \in imports : i.target # NoPath /\ e = ImportEdge(i)
           /\ e.kind = "REEXPORTS" =>
                 \E f \in reexports : f.target # NoPath /\ e = ReexportEdge(f)
           /\ e.kind = "TEST_IMPORTS" => \E t \in testAssociations : e = TestEdge(t)
  <1>1. /\ \A a : /\ ContractEdge(a).kind = "DECLARES_CONTRACT"
                  /\ RouteEdge(a).kind = "DECLARES_ROUTE"
                  /\ PackageEdge(a).kind = "DECLARES_PACKAGE"
                  /\ ImportEdge(a).kind = "IMPORTS"
                  /\ ReexportEdge(a).kind = "REEXPORTS"
                  /\ TestEdge(a).kind = "TEST_IMPORTS"
    BY DEF ContractEdge, RouteEdge, PackageEdge, ImportEdge, ReexportEdge, TestEdge, Edge
  <1> QED
    BY <1>1, EdgeForm

\* A link of the sources leads from a file to the target of one of its statements.
LEMMA SourceLinkForm ==
    ASSUME SourcesInit, NEW kind \in {"IMPORT", "EXPORT_FROM"}, NEW link
    PROVE  link \in SourceLinks(kind) <=>
               \E place \in Places(kind) :
                   /\ Speaks(place) /\ TargetOf(place) # NoPath
                   /\ link = <<place[1], TargetOf(place)>>
  <1>1. link \in SourceLinks(kind) <=>
            \E place \in Places(kind) :
                /\ Speaks(place)
                /\ \E path \in DOMAIN sources :
                      /\ Means(place[1], StatementAt(place).specifier, path)
                      /\ link = <<place[1], path>>
    BY DEF SourceLinks
  <1>2. \A place \in Places(kind) :
            /\ TargetOf(place) # NoPath => TargetOf(place) \in DOMAIN sources
            /\ \A path \in DOMAIN sources :
                  Means(place[1], StatementAt(place).specifier, path)
                      <=> TargetOf(place) = path /\ path # NoPath
    BY TargetForm
  <1> QED
    BY <1>1, <1>2

\* The links that a kind of edge makes.
Linked(edges, kind) == {<<e.from[2], e.to[2]>> : e \in {f \in edges : f.kind = kind}}

\* An import links its file to its target.
LEMMA ImportLinks ==
    ASSUME SourcesInit, NEW link
    PROVE  link \in SourceLinks("IMPORT") <=>
               \E i \in imports : i.target # NoPath /\ link = <<i.at[1], i.target>>
  <1> DEFINE Import(place) ==
                 [at |-> place, specifier |-> StatementAt(place).specifier,
                  target |-> TargetOf(place)]
  <1>1. \A place \in Places("IMPORT") : Speaks(place)
    BY PlaceForm DEF Speaks
  <1>2. \A i : i \in imports <=> \E place \in Places("IMPORT") : i = Import(place)
    BY ImportForm
  <1>3. \A place : Import(place).at = place /\ Import(place).target = TargetOf(place)
    OBVIOUS
  <1>4. link \in SourceLinks("IMPORT") <=>
            \E place \in Places("IMPORT") :
                TargetOf(place) # NoPath /\ link = <<place[1], TargetOf(place)>>
    BY <1>1, SourceLinkForm
  <1> HIDE DEF Import
  <1> QED
    BY <1>2, <1>3, <1>4

LEMMA ImportsAreLinks ==
    ASSUME SourcesInit
    PROVE  Linked(Edges, "IMPORTS") = SourceLinks("IMPORT")
  <1>1. ASSUME NEW i
        PROVE  /\ ImportEdge(i).kind = "IMPORTS"
               /\ ImportEdge(i).from[2] = i.at[1] /\ ImportEdge(i).to[2] = i.target
    BY DEF ImportEdge, Edge, fileKey
  <1>2. ASSUME NEW link
        PROVE  link \in Linked(Edges, "IMPORTS") <=>
                   \E i \in imports : i.target # NoPath /\ link = <<i.at[1], i.target>>
    <2>1. ASSUME link \in Linked(Edges, "IMPORTS")
          PROVE  \E i \in imports : i.target # NoPath /\ link = <<i.at[1], i.target>>
      <3>1. PICK e \in Edges : e.kind = "IMPORTS" /\ link = <<e.from[2], e.to[2]>>
        BY <2>1 DEF Linked
      <3> QED
        BY <1>1, <3>1, KindForm
    <2>2. ASSUME NEW i \in imports, i.target # NoPath, link = <<i.at[1], i.target>>
          PROVE  link \in Linked(Edges, "IMPORTS")
      <3>1. ImportEdge(i) \in Edges
        BY <2>2, EdgeForm
      <3> QED
        BY <1>1, <2>2, <3>1 DEF Linked
    <2> QED
      BY <2>1, <2>2
  <1>3. ASSUME NEW link
        PROVE  link \in Linked(Edges, "IMPORTS") <=> link \in SourceLinks("IMPORT")
    BY <1>2, ImportLinks
  <1>4. Linked(Edges, "IMPORTS") \subseteq SourceLinks("IMPORT")
    BY <1>3
  <1>5. SourceLinks("IMPORT") \subseteq Linked(Edges, "IMPORTS")
    BY <1>3
  <1> QED
    BY <1>4, <1>5

LEMMA ReexportsAreLinks ==
    ASSUME SourcesInit
    PROVE  Linked(Edges, "REEXPORTS") = SourceLinks("EXPORT_FROM")
  <1>1. ASSUME NEW f
        PROVE  /\ ReexportEdge(f).kind = "REEXPORTS"
               /\ ReexportEdge(f).from[2] = f.at[1] /\ ReexportEdge(f).to[2] = f.target
    BY DEF ReexportEdge, Edge, fileKey
  <1>2. ASSUME NEW link
        PROVE  link \in Linked(Edges, "REEXPORTS") <=>
                   \E f \in reexports : f.target # NoPath /\ link = <<f.at[1], f.target>>
    <2>1. ASSUME link \in Linked(Edges, "REEXPORTS")
          PROVE  \E f \in reexports : f.target # NoPath /\ link = <<f.at[1], f.target>>
      <3>1. PICK e \in Edges : e.kind = "REEXPORTS" /\ link = <<e.from[2], e.to[2]>>
        BY <2>1 DEF Linked
      <3> QED
        BY <1>1, <3>1, KindForm
    <2>2. ASSUME NEW f \in reexports, f.target # NoPath, link = <<f.at[1], f.target>>
          PROVE  link \in Linked(Edges, "REEXPORTS")
      <3>1. ReexportEdge(f) \in Edges
        BY <2>2, EdgeForm
      <3> QED
        BY <1>1, <2>2, <3>1 DEF Linked
    <2> QED
      BY <2>1, <2>2
  <1>3. \A place \in Places("EXPORT_FROM") :
            Speaks(place) <=> \E name : name \in StatementAt(place).names
    BY PlaceForm DEF Speaks
  <1>4. ASSUME NEW link
        PROVE  (\E f \in reexports : f.target # NoPath /\ link = <<f.at[1], f.target>>)
                   <=> \E place \in Places("EXPORT_FROM") :
                           /\ \E name : name \in StatementAt(place).names
                           /\ TargetOf(place) # NoPath /\ link = <<place[1], TargetOf(place)>>
    <2> DEFINE Reexport(place, name) ==
                   [at |-> place, name |-> name, specifier |-> StatementAt(place).specifier,
                    target |-> TargetOf(place)]
    <2>1. \A f : f \in reexports <=>
              \E place \in Places("EXPORT_FROM") : \E name \in StatementAt(place).names :
                  f = Reexport(place, name)
      BY ReexportForm
    <2>2. \A place, name : /\ Reexport(place, name).at = place
                           /\ Reexport(place, name).target = TargetOf(place)
      OBVIOUS
    <2> HIDE DEF Reexport
    <2> QED
      BY <2>1, <2>2
  <1>5. ASSUME NEW link
        PROVE  link \in Linked(Edges, "REEXPORTS") <=> link \in SourceLinks("EXPORT_FROM")
    BY <1>2, <1>3, <1>4, SourceLinkForm
  <1>6. Linked(Edges, "REEXPORTS") \subseteq SourceLinks("EXPORT_FROM")
    BY <1>5
  <1>7. SourceLinks("EXPORT_FROM") \subseteq Linked(Edges, "REEXPORTS")
    BY <1>5
  <1> QED
    BY <1>6, <1>7

LEMMA TestImportsAreLinks ==
    ASSUME SourcesInit
    PROVE  Linked(Edges, "TEST_IMPORTS") =
               {link \in SourceLinks("IMPORT") : isTestPath(link[1]) /\ ~ isTestPath(link[2])}
  <1>1. ASSUME NEW t
        PROVE  /\ TestEdge(t).kind = "TEST_IMPORTS"
               /\ TestEdge(t).from[2] = t.source /\ TestEdge(t).to[2] = t.target
    BY DEF TestEdge, Edge, fileKey
  <1>2. ASSUME NEW link
        PROVE  link \in Linked(Edges, "TEST_IMPORTS") <=>
                   \E t \in testAssociations : link = <<t.source, t.target>>
    <2>1. ASSUME link \in Linked(Edges, "TEST_IMPORTS")
          PROVE  \E t \in testAssociations : link = <<t.source, t.target>>
      <3>1. PICK e \in Edges : e.kind = "TEST_IMPORTS" /\ link = <<e.from[2], e.to[2]>>
        BY <2>1 DEF Linked
      <3> QED
        BY <1>1, <3>1, KindForm
    <2>2. ASSUME NEW t \in testAssociations, link = <<t.source, t.target>>
          PROVE  link \in Linked(Edges, "TEST_IMPORTS")
      <3>1. TestEdge(t) \in Edges
        BY EdgeForm
      <3> QED
        BY <1>1, <2>2, <3>1 DEF Linked
    <2> QED
      BY <2>1, <2>2
  <1>3. ASSUME NEW link
        PROVE  (\E t \in testAssociations : link = <<t.source, t.target>>) <=>
                   \E i \in imports :
                       /\ isTestPath(i.at[1]) /\ i.target # NoPath /\ ~ isTestPath(i.target)
                       /\ link = <<i.at[1], i.target>>
    <2> DEFINE Association(i) ==
                   [source |-> i.at[1], target |-> i.target, specifier |-> i.specifier]
    <2>1. \A t : t \in testAssociations <=>
              \E i \in imports : /\ isTestPath(i.at[1]) /\ i.target # NoPath
                                 /\ ~ isTestPath(i.target) /\ t = Association(i)
      BY DEF testAssociations
    <2>2. \A i : Association(i).source = i.at[1] /\ Association(i).target = i.target
      OBVIOUS
    <2> HIDE DEF Association
    <2> QED
      BY <2>1, <2>2
  <1>4. ASSUME NEW link
        PROVE  link \in Linked(Edges, "TEST_IMPORTS") <=>
                   link \in SourceLinks("IMPORT") /\ isTestPath(link[1]) /\ ~ isTestPath(link[2])
    BY <1>2, <1>3, ImportLinks
  <1> DEFINE tested == {link \in SourceLinks("IMPORT") : isTestPath(link[1]) /\ ~ isTestPath(link[2])}
  <1>5. Linked(Edges, "TEST_IMPORTS") \subseteq tested
    BY <1>4
  <1>6. tested \subseteq Linked(Edges, "TEST_IMPORTS")
    BY <1>4
  <1> QED
    BY <1>5, <1>6

-----------------------------------------------------------------------------
(***************************************************************************)
(* CodeMapMembers: the members that have one key.                          *)
(***************************************************************************)
\* Two imports of one key are two statements that say the same.
LEMMA ImportsCollide ==
    ASSUME SourcesInit
    PROVE  SaysTwice("IMPORT") <=>
               \E i, j \in imports :
                   /\ i # j /\ i.target # NoPath
                   /\ i.at[1] = j.at[1] /\ i.specifier = j.specifier /\ i.target = j.target
  <1> DEFINE Import(place) ==
                 [at |-> place, specifier |-> StatementAt(place).specifier,
                  target |-> TargetOf(place)]
  <1>1. \A i : i \in imports <=> \E place \in Places("IMPORT") : i = Import(place)
    BY ImportForm
  <1>2. \A place : /\ Import(place).at = place
                   /\ Import(place).specifier = StatementAt(place).specifier
                   /\ Import(place).target = TargetOf(place)
    OBVIOUS
  <1>3. \A p, q : p[1] = q[1] /\ StatementAt(p).specifier = StatementAt(q).specifier
                      => TargetOf(p) = TargetOf(q)
    BY DEF TargetOf
  <1>4. SaysTwice("IMPORT") <=>
            \E p, q \in Places("IMPORT") :
                /\ p[1] = q[1] /\ p # q
                /\ StatementAt(p).specifier = StatementAt(q).specifier
                /\ TargetOf(p) # NoPath
    <2>1. SaysTwice("IMPORT") <=>
              \E p, q \in Places("IMPORT"), path \in DOMAIN sources :
                  /\ p[1] = q[1] /\ p # q
                  /\ StatementAt(p).specifier = StatementAt(q).specifier
                  /\ Means(p[1], StatementAt(p).specifier, path)
      BY DEF SaysTwice
    <2>2. \A p \in Places("IMPORT") :
              /\ TargetOf(p) # NoPath => TargetOf(p) \in DOMAIN sources
              /\ \A path \in DOMAIN sources :
                    Means(p[1], StatementAt(p).specifier, path)
                        <=> TargetOf(p) = path /\ path # NoPath
      BY TargetForm
    <2> QED
      BY <2>1, <2>2
  <1> HIDE DEF Import
  <1>5. ASSUME SaysTwice("IMPORT")
        PROVE  \E i, j \in imports :
                   /\ i # j /\ i.target # NoPath
                   /\ i.at[1] = j.at[1] /\ i.specifier = j.specifier /\ i.target = j.target
    <2>1. PICK p, q \in Places("IMPORT") :
              /\ p[1] = q[1] /\ p # q
              /\ StatementAt(p).specifier = StatementAt(q).specifier
              /\ TargetOf(p) # NoPath
      BY <1>4, <1>5
    <2>2. Import(p) \in imports /\ Import(q) \in imports
      BY <1>1
    <2>3. Import(p) # Import(q)
      BY <1>2, <2>1
    <2> QED
      BY <1>2, <1>3, <2>1, <2>2, <2>3
  <1>6. ASSUME NEW i \in imports, NEW j \in imports, i # j, i.target # NoPath,
               i.at[1] = j.at[1], i.specifier = j.specifier
        PROVE  SaysTwice("IMPORT")
    <2>1. PICK p \in Places("IMPORT") : i = Import(p)
      BY <1>1
    <2>2. PICK q \in Places("IMPORT") : j = Import(q)
      BY <1>1
    <2> QED
      BY <1>2, <1>4, <1>6, <2>1, <2>2
  <1> QED
    BY <1>5, <1>6

LEMMA ReexportsCollide ==
    ASSUME SourcesInit
    PROVE  SaysTwice("EXPORT_FROM") <=>
               \E e, f \in reexports :
                   /\ e # f /\ e.target # NoPath /\ e.name = f.name
                   /\ e.at[1] = f.at[1] /\ e.specifier = f.specifier /\ e.target = f.target
  <1> DEFINE Reexport(place, name) ==
                 [at |-> place, name |-> name, specifier |-> StatementAt(place).specifier,
                  target |-> TargetOf(place)]
  <1>1. \A e : e \in reexports <=>
            \E place \in Places("EXPORT_FROM") : \E name \in StatementAt(place).names :
                e = Reexport(place, name)
    BY ReexportForm
  <1>2. \A place, name : /\ Reexport(place, name).at = place
                         /\ Reexport(place, name).name = name
                         /\ Reexport(place, name).specifier = StatementAt(place).specifier
                         /\ Reexport(place, name).target = TargetOf(place)
    OBVIOUS
  <1>3. \A p, q : p[1] = q[1] /\ StatementAt(p).specifier = StatementAt(q).specifier
                      => TargetOf(p) = TargetOf(q)
    BY DEF TargetOf
  <1>4. SaysTwice("EXPORT_FROM") <=>
            \E p, q \in Places("EXPORT_FROM") :
                /\ p[1] = q[1] /\ p # q
                /\ StatementAt(p).specifier = StatementAt(q).specifier
                /\ TargetOf(p) # NoPath
                /\ StatementAt(p).names \cap StatementAt(q).names # {}
    <2>1. SaysTwice("EXPORT_FROM") <=>
              \E p, q \in Places("EXPORT_FROM"), path \in DOMAIN sources :
                  /\ p[1] = q[1] /\ p # q
                  /\ StatementAt(p).specifier = StatementAt(q).specifier
                  /\ Means(p[1], StatementAt(p).specifier, path)
                  /\ StatementAt(p).names \cap StatementAt(q).names # {}
      BY DEF SaysTwice
    <2>2. \A p \in Places("EXPORT_FROM") :
              /\ TargetOf(p) # NoPath => TargetOf(p) \in DOMAIN sources
              /\ \A path \in DOMAIN sources :
                    Means(p[1], StatementAt(p).specifier, path)
                        <=> TargetOf(p) = path /\ path # NoPath
      BY TargetForm
    <2> QED
      BY <2>1, <2>2
  <1> HIDE DEF Reexport
  <1>5. ASSUME SaysTwice("EXPORT_FROM")
        PROVE  \E e, f \in reexports :
                   /\ e # f /\ e.target # NoPath /\ e.name = f.name
                   /\ e.at[1] = f.at[1] /\ e.specifier = f.specifier /\ e.target = f.target
    <2>1. PICK p, q \in Places("EXPORT_FROM") :
              /\ p[1] = q[1] /\ p # q
              /\ StatementAt(p).specifier = StatementAt(q).specifier
              /\ TargetOf(p) # NoPath
              /\ StatementAt(p).names \cap StatementAt(q).names # {}
      BY <1>4, <1>5
    <2>2. PICK name : name \in StatementAt(p).names /\ name \in StatementAt(q).names
      BY <2>1
    <2>3. Reexport(p, name) \in reexports /\ Reexport(q, name) \in reexports
      BY <1>1, <2>2
    <2>4. Reexport(p, name) # Reexport(q, name)
      BY <1>2, <2>1
    <2> QED
      BY <1>2, <1>3, <2>1, <2>3, <2>4
  <1>6. ASSUME NEW e \in reexports, NEW f \in reexports, e # f, e.target # NoPath,
               e.name = f.name, e.at[1] = f.at[1], e.specifier = f.specifier
        PROVE  SaysTwice("EXPORT_FROM")
    <2>1. PICK p \in Places("EXPORT_FROM") : \E name \in StatementAt(p).names : e = Reexport(p, name)
      BY <1>1
    <2>2. PICK q \in Places("EXPORT_FROM") : \E name \in StatementAt(q).names : f = Reexport(q, name)
      BY <1>1
    <2>3. e.name \in StatementAt(p).names /\ e = Reexport(p, e.name)
      BY <1>2, <2>1
    <2>4. e.name \in StatementAt(q).names /\ f = Reexport(q, e.name)
      BY <1>2, <1>6, <2>2
    <2> QED
      BY <1>2, <1>4, <1>6, <2>3, <2>4
  <1> QED
    BY <1>5, <1>6

LEMMA ContractForm ==
    ASSUME NEW c
    PROVE  c \in contracts <=>
               \E place \in localContracts : \E name \in exportedNames(place) :
                   c = [at |-> place, name |-> StatementAt(place).name, exportedName |-> name]
  BY DEF contracts

\* A set has more than one element if it has two.
LEMMA MoreThanOne ==
    ASSUME NEW S, IsFiniteSet(S)
    PROVE  Cardinality(S) > 1 <=> \E x, y \in S : x # y
  <1>1. Cardinality(S) \in Nat
    BY FS_CardinalityType
  <1>2. Cardinality(S) = 0 <=> S = {}
    BY FS_EmptySet
  <1>3. Cardinality(S) = 1 <=> \E x : S = {x}
    BY FS_Singleton
  <1>4. (\E x, y \in S : x # y) <=> S # {} /\ ~ \E x : S = {x}
    OBVIOUS
  <1> QED
    BY <1>1, <1>2, <1>3, <1>4

\* Two contracts of one key are one declaration under two names.
LEMMA ContractsCollide ==
    ASSUME SourcesInit
    PROVE  HasTwoNames <=> \E c, d \in contracts : c # d /\ contractKey(c) = contractKey(d)
  <1> DEFINE Contract(place, name) ==
                 [at |-> place, name |-> StatementAt(place).name, exportedName |-> name]
  <1>1. \A c : c \in contracts <=>
            \E place \in localContracts : \E name \in exportedNames(place) : c = Contract(place, name)
    BY ContractForm
  <1>2. \A place, name : /\ Contract(place, name).at = place
                         /\ Contract(place, name).name = StatementAt(place).name
                         /\ Contract(place, name).exportedName = name
    OBVIOUS
  <1>3. HasTwoNames <=>
            \E place \in localContracts : \E m, n \in exportedNames(place) : m # n
    BY NamesAreFinite, MoreThanOne DEF HasTwoNames
  <1>4. \A c, d : contractKey(c) = contractKey(d) <=> c.at = d.at /\ c.name = d.name
    BY DEF contractKey
  <1> HIDE DEF Contract
  <1>5. ASSUME HasTwoNames
        PROVE  \E c, d \in contracts : c # d /\ contractKey(c) = contractKey(d)
    <2>1. PICK place \in localContracts : \E m, n \in exportedNames(place) : m # n
      BY <1>3, <1>5
    <2>2. PICK m, n \in exportedNames(place) : m # n
      BY <2>1
    <2>3. Contract(place, m) \in contracts /\ Contract(place, n) \in contracts
      BY <1>1
    <2>4. Contract(place, m) # Contract(place, n)
      BY <1>2, <2>2
    <2> QED
      BY <1>2, <1>4, <2>3, <2>4
  <1>6. ASSUME NEW c \in contracts, NEW d \in contracts, c # d, contractKey(c) = contractKey(d)
        PROVE  HasTwoNames
    <2>1. PICK p \in localContracts : \E name \in exportedNames(p) : c = Contract(p, name)
      BY <1>1
    <2>2. PICK q \in localContracts : \E name \in exportedNames(q) : d = Contract(q, name)
      BY <1>1
    <2>3. p = q
      BY <1>2, <1>4, <1>6, <2>1, <2>2
    <2> QED
      BY <1>3, <1>6, <2>1, <2>2, <2>3
  <1> QED
    BY <1>5, <1>6

\* A call stands at a number of a statement: 0, or where it stands in a plugin.
LEMMA AppendedPlace ==
    ASSUME NEW place, place = <<place[1], place[2]>>, NEW n
    PROVE  /\ Append(place, n)[1] = place[1] /\ Append(place, n)[2] = place[2]
           /\ Append(place, n)[3] = n
  <1> DEFINE S == {place[1], place[2], n}
  <1>1. place \in Seq(S) /\ Len(place) = 2 /\ n \in S
    <2> DEFINE a == place[1]
               b == place[2]
    <2>1. place = <<a, b>> /\ a \in S /\ b \in S
      OBVIOUS
    <2>2. \A T : \A x, y \in T : <<x, y>> \in Seq(T) /\ Len(<<x, y>>) = 2
      OBVIOUS
    <2>3. n \in S
      OBVIOUS
    <2> HIDE DEF a, b, S
    <2> QED
      BY <2>1, <2>2, <2>3
  <1>2. ASSUME NEW T, NEW seq \in Seq(T), NEW e \in T
        PROVE  /\ \A i \in 1 .. Len(seq) : Append(seq, e)[i] = seq[i]
               /\ Append(seq, e)[Len(seq) + 1] = e
    BY AppendProperties
  <1> HIDE DEF S
  <1> DEFINE longer == Append(place, n)
  <1>3. (\A i \in 1 .. Len(place) : longer[i] = place[i]) /\ longer[Len(place) + 1] = n
    BY <1>1, <1>2, Zenon
  <1> HIDE DEF longer
  <1>4. (\A i \in 1 .. 2 : longer[i] = place[i]) /\ longer[2 + 1] = n
    BY <1>1, <1>3, Zenon
  <1>5. longer[1] = place[1] /\ longer[2] = place[2] /\ longer[3] = n
    BY <1>4
  <1> QED
    BY <1>5 DEF longer

LEMMA RouteForm ==
    ASSUME SourcesInit, NEW c
    PROVE  c \in RouteCalls <=>
               \/ \E place \in Places("ROUTE") :
                     c = [at |-> Append(place, 0), call |-> StatementAt(place).call,
                          known |-> receivers(place[1], place[2])]
               \/ \E place \in Places("PLUGIN") : \E n \in DOMAIN StatementAt(place).calls :
                     c = [at |-> Append(place, n), call |-> StatementAt(place).calls[n],
                          known |-> PluginReceivers(place[1], place[2])]
  BY DEF RouteCalls

\* Of one place there is one call, and its route has a length.
LEMMA RoutesAreApart ==
    ASSUME SourcesInit
    PROVE  /\ \A c, d \in routes : c.at = d.at => c = d
           /\ \A c \in routes : c.at[1] \in DOMAIN sources /\ c.call.route.length \in Nat
  <1> DEFINE Plain(place) ==
                 [at |-> Append(place, 0), call |-> StatementAt(place).call,
                  known |-> receivers(place[1], place[2])]
             Inner(place, n) ==
                 [at |-> Append(place, n), call |-> StatementAt(place).calls[n],
                  known |-> PluginReceivers(place[1], place[2])]
  <1>1. \A c : c \in RouteCalls <=>
            \/ \E place \in Places("ROUTE") : c = Plain(place)
            \/ \E place \in Places("PLUGIN") : \E n \in DOMAIN StatementAt(place).calls :
                  c = Inner(place, n)
    BY RouteForm
  <1>2. ASSUME NEW place, place \in Places("ROUTE") \/ place \in Places("PLUGIN")
        PROVE  place = <<place[1], place[2]>> /\ place[1] \in DOMAIN sources
    BY <1>2, PlaceForm
  <1>3. ASSUME NEW place \in Places("ROUTE")
        PROVE  /\ Plain(place).at[1] = place[1] /\ Plain(place).at[2] = place[2]
               /\ Plain(place).at[3] = 0
               /\ Plain(place).call.route.length \in Nat
               /\ StatementAt(place).kind = "ROUTE"
    <2>1. StatementAt(place).kind = "ROUTE" /\ Statement(StatementAt(place))
      BY PlaceForm
    <2>2. Calling(StatementAt(place).call)
      BY <2>1 DEF Statement
    <2>3. StatementAt(place).call.route.length \in Nat
      BY <2>2 DEF Calling
    <2>4. Plain(place).at = Append(place, 0) /\ Plain(place).call = StatementAt(place).call
      OBVIOUS
    <2> HIDE DEF Plain
    <2> QED
      BY <1>2, <2>1, <2>3, <2>4, AppendedPlace
  <1>4. ASSUME NEW place \in Places("PLUGIN"), NEW n \in DOMAIN StatementAt(place).calls
        PROVE  /\ Inner(place, n).at[1] = place[1] /\ Inner(place, n).at[2] = place[2]
               /\ Inner(place, n).at[3] = n
               /\ Inner(place, n).call.route.length \in Nat
               /\ StatementAt(place).kind = "PLUGIN"
    <2>1. StatementAt(place).kind = "PLUGIN" /\ Statement(StatementAt(place))
      BY PlaceForm
    <2>2. \A call \in ToSet(StatementAt(place).calls) : Calling(call)
      BY <2>1 DEF Statement
    <2>3. StatementAt(place).calls[n] \in ToSet(StatementAt(place).calls)
      BY DEF ToSet
    <2>4. StatementAt(place).calls[n].route.length \in Nat
      BY <2>2, <2>3 DEF Calling
    <2>5. /\ Inner(place, n).at = Append(place, n)
          /\ Inner(place, n).call = StatementAt(place).calls[n]
      OBVIOUS
    <2> HIDE DEF Inner
    <2> QED
      BY <1>2, <2>1, <2>4, <2>5, AppendedPlace
  <1>5. \A place : Plain(place).at = Append(place, 0)
    OBVIOUS
  <1>6. routes \subseteq RouteCalls
    BY DEF routes, Recognized
  <1>7. \A p, q : p = <<p[1], p[2]>> /\ q = <<q[1], q[2]>> /\ p[1] = q[1] /\ p[2] = q[2] => p = q
    OBVIOUS
  <1> HIDE DEF Plain, Inner
  <1>8. ASSUME NEW c \in routes, NEW d \in routes, c.at = d.at
        PROVE  c = d
    <2>1. CASE \E p \in Places("ROUTE") : c = Plain(p)
      <3>1. PICK p \in Places("ROUTE") : c = Plain(p)
        BY <2>1
      <3>2. CASE \E q \in Places("ROUTE") : d = Plain(q)
        <4>1. PICK q \in Places("ROUTE") : d = Plain(q)
          BY <3>2
        <4>2. p[1] = q[1] /\ p[2] = q[2]
          BY <1>3, <1>8, <3>1, <4>1
        <4>3. p = q
          BY <1>2, <1>7, <4>2
        <4> QED
          BY <3>1, <4>1, <4>3
      <3>3. CASE \E q \in Places("PLUGIN") : \E n \in DOMAIN StatementAt(q).calls : d = Inner(q, n)
        <4>1. PICK q \in Places("PLUGIN") : \E n \in DOMAIN StatementAt(q).calls : d = Inner(q, n)
          BY <3>3
        <4>2. p[1] = q[1] /\ p[2] = q[2]
          BY <1>3, <1>4, <1>8, <3>1, <4>1
        <4>3. p = q
          BY <1>2, <1>7, <4>2
        <4> QED
          BY <1>3, <1>4, <4>1, <4>3
      <3> QED
        BY <1>1, <1>6, <3>2, <3>3
    <2>2. CASE \E p \in Places("PLUGIN") : \E n \in DOMAIN StatementAt(p).calls : c = Inner(p, n)
      <3>1. PICK p \in Places("PLUGIN") : \E n \in DOMAIN StatementAt(p).calls : c = Inner(p, n)
        BY <2>2
      <3>2. PICK n \in DOMAIN StatementAt(p).calls : c = Inner(p, n)
        BY <3>1
      <3>3. CASE \E q \in Places("ROUTE") : d = Plain(q)
        <4>1. PICK q \in Places("ROUTE") : d = Plain(q)
          BY <3>3
        <4>2. p[1] = q[1] /\ p[2] = q[2]
          BY <1>3, <1>4, <1>8, <3>2, <4>1
        <4>3. p = q
          BY <1>2, <1>7, <4>2
        <4> QED
          BY <1>3, <1>4, <3>2, <4>1, <4>3
      <3>4. CASE \E q \in Places("PLUGIN") : \E m \in DOMAIN StatementAt(q).calls : d = Inner(q, m)
        <4>1. PICK q \in Places("PLUGIN") : \E m \in DOMAIN StatementAt(q).calls : d = Inner(q, m)
          BY <3>4
        <4>2. PICK m \in DOMAIN StatementAt(q).calls : d = Inner(q, m)
          BY <4>1
        <4>3. p[1] = q[1] /\ p[2] = q[2] /\ n = m
          BY <1>4, <1>8, <3>2, <4>2
        <4>4. p = q
          BY <1>2, <1>7, <4>3
        <4> QED
          BY <3>2, <4>2, <4>3, <4>4
      <3> QED
        BY <1>1, <1>6, <3>3, <3>4
    <2> QED
      BY <1>1, <1>6, <2>1, <2>2
  <1>9. ASSUME NEW c \in routes
        PROVE  c.at[1] \in DOMAIN sources /\ c.call.route.length \in Nat
    BY <1>1, <1>2, <1>3, <1>4, <1>6
  <1> QED
    BY <1>8, <1>9

\* The assets of a file, a manifest, a contract and a route.
FileAsset(p) == Asset("FILE", fileKey(p), PathLength(p) + 1, PathLength(p), TRUE, p)
PackageAsset(p) == Asset("PACKAGE", <<"package", p>>, PathLength(p) + 1, 1, TRUE, p)
ContractAsset(c) == Asset("CONTRACT", contractKey(c), contractKeyLength(c), 1, TRUE, c)
RouteAsset(c) == Asset("ROUTE", routeKey(c), routeKeyLength(c), c.call.route.length + 1,
                       c.call.route.trimmed, c)

LEMMA AssetForm ==
    ASSUME NEW a
    PROVE  /\ a \in FileAssets <=> \E p \in DOMAIN sources : a = FileAsset(p)
           /\ a \in PackageAssets <=> \E p \in manifests : a = PackageAsset(p)
           /\ a \in ContractAssets <=> \E c \in contracts : a = ContractAsset(c)
           /\ a \in RouteAssets <=> \E c \in routes : a = RouteAsset(c)
           /\ a \in Assets <=> a \in FileAssets \/ a \in PackageAssets
                               \/ a \in ContractAssets \/ a \in RouteAssets
  BY DEF FileAssets, PackageAssets, ContractAssets, RouteAssets, Assets,
         FileAsset, PackageAsset, ContractAsset, RouteAsset

LEMMA AssetFields ==
    ASSUME NEW x
    PROVE  /\ FileAsset(x).key = <<"file", x>> /\ FileAsset(x).of = x
           /\ FileAsset(x).length = PathLength(x) + 1
           /\ FileAsset(x).label = PathLength(x) /\ FileAsset(x).trimmed
           /\ PackageAsset(x).key = <<"package", x>> /\ PackageAsset(x).of = x
           /\ PackageAsset(x).length = PathLength(x) + 1
           /\ PackageAsset(x).label = 1 /\ PackageAsset(x).trimmed
           /\ ContractAsset(x).key = <<"contract", x.at, x.name>> /\ ContractAsset(x).of = x
           /\ ContractAsset(x).length = PathLength(x.at[1]) + 2
           /\ ContractAsset(x).label = 1 /\ ContractAsset(x).trimmed
           /\ RouteAsset(x).key = <<"route", x.at, x.call.method, x.call.route>>
           /\ RouteAsset(x).of = x
           /\ RouteAsset(x).length = PathLength(x.at[1]) + x.call.route.length + 2
           /\ RouteAsset(x).label = x.call.route.length + 1
           /\ RouteAsset(x).trimmed = x.call.route.trimmed
  BY DEF FileAsset, PackageAsset, ContractAsset, RouteAsset, Asset, fileKey, contractKey,
         routeKey, contractKeyLength, routeKeyLength

LEMMA AssetKeys ==
    ASSUME NEW x
    PROVE  /\ FileAsset(x).key[1] = "file" /\ FileAsset(x).key[2] = x
           /\ PackageAsset(x).key[1] = "package" /\ PackageAsset(x).key[2] = x
           /\ ContractAsset(x).key[1] = "contract"
           /\ RouteAsset(x).key[1] = "route" /\ RouteAsset(x).key[2] = x.at
  BY DEF FileAsset, PackageAsset, ContractAsset, RouteAsset, Asset, fileKey, contractKey, routeKey

\* What an asset is, its key says first.
LEMMA AssetTags ==
    ASSUME NEW a
    PROVE  /\ a \in FileAssets => a.key[1] = "file"
           /\ a \in PackageAssets => a.key[1] = "package"
           /\ a \in ContractAssets => a.key[1] = "contract"
           /\ a \in RouteAssets => a.key[1] = "route"
  <1>1. ASSUME a \in FileAssets
        PROVE  a.key[1] = "file"
    <2>1. PICK p \in DOMAIN sources : a = FileAsset(p)
      BY <1>1, AssetForm
    <2> QED
      BY <2>1, AssetKeys
  <1>2. ASSUME a \in PackageAssets
        PROVE  a.key[1] = "package"
    <2>1. PICK p \in manifests : a = PackageAsset(p)
      BY <1>2, AssetForm
    <2> QED
      BY <2>1, AssetKeys, Zenon
  <1>3. ASSUME a \in ContractAssets
        PROVE  a.key[1] = "contract"
    <2>1. PICK c \in contracts : a = ContractAsset(c)
      BY <1>3, AssetForm
    <2>2. ContractAsset(c).key[1] = "contract"
      BY AssetKeys
    <2> QED
      BY <2>1, <2>2
  <1>4. ASSUME a \in RouteAssets
        PROVE  a.key[1] = "route"
    <2>1. PICK c \in routes : a = RouteAsset(c)
      BY <1>4, AssetForm
    <2>2. RouteAsset(c).key[1] = "route"
      BY AssetKeys, Zenon
    <2> QED
      BY <2>1, <2>2
  <1> QED
    BY <1>1, <1>2, <1>3, <1>4

LEMMA AssetsAreApart ==
    ASSUME SourcesInit
    PROVE  /\ \A a, b \in FileAssets \cup PackageAssets \cup RouteAssets : a.key = b.key => a = b
           /\ KeysAreUnique(ContractAssets) <=> ~ HasTwoNames
           /\ KeysAreUnique(Assets) <=> ~ HasTwoNames
  <1>1. ASSUME NEW a \in FileAssets, NEW b \in FileAssets, a.key = b.key
        PROVE  a = b
    <2>1. PICK p \in DOMAIN sources : a = FileAsset(p)
      BY AssetForm
    <2>2. PICK q \in DOMAIN sources : b = FileAsset(q)
      BY AssetForm
    <2>3. a.key[2] = p /\ b.key[2] = q
      BY <2>1, <2>2, AssetKeys, Zenon
    <2> QED
      BY <1>1, <2>1, <2>2, <2>3
  <1>2. ASSUME NEW a \in PackageAssets, NEW b \in PackageAssets, a.key = b.key
        PROVE  a = b
    <2>1. PICK p \in manifests : a = PackageAsset(p)
      BY AssetForm
    <2>2. PICK q \in manifests : b = PackageAsset(q)
      BY AssetForm
    <2>3. a.key[2] = p /\ b.key[2] = q
      BY <2>1, <2>2, AssetKeys, Zenon
    <2> QED
      BY <1>2, <2>1, <2>2, <2>3
  <1>3. ASSUME NEW a \in RouteAssets, NEW b \in RouteAssets, a.key = b.key
        PROVE  a = b
    <2>1. PICK c \in routes : a = RouteAsset(c)
      BY AssetForm
    <2>2. PICK d \in routes : b = RouteAsset(d)
      BY AssetForm
    <2>3. a.key[2] = c.at /\ b.key[2] = d.at
      BY <2>1, <2>2, AssetKeys, Zenon
    <2>4. c.at = d.at
      BY <1>3, <2>3
    <2> QED
      BY <2>1, <2>2, <2>4, RoutesAreApart
  <1>4. \A a, b \in FileAssets \cup PackageAssets \cup RouteAssets : a.key = b.key => a = b
    BY <1>1, <1>2, <1>3, AssetTags
  <1>5. KeysAreUnique(ContractAssets) <=>
            \A c, d \in contracts : contractKey(c) = contractKey(d) => c = d
    <2>1. \A x : ContractAsset(x).key = contractKey(x) /\ ContractAsset(x).of = x
      BY AssetFields DEF contractKey
    <2>2. \A a : a \in ContractAssets <=> \E c \in contracts : a = ContractAsset(c)
      BY AssetForm
    <2>3. ASSUME KeysAreUnique(ContractAssets), NEW c \in contracts, NEW d \in contracts,
                 contractKey(c) = contractKey(d)
          PROVE  c = d
      <3>1. ContractAsset(c) \in ContractAssets /\ ContractAsset(d) \in ContractAssets
        BY <2>2
      <3>2. ContractAsset(c) = ContractAsset(d)
        BY <2>1, <2>3, <3>1 DEF KeysAreUnique
      <3> QED
        BY <2>1, <3>2
    <2>4. ASSUME \A c, d \in contracts : contractKey(c) = contractKey(d) => c = d,
                 NEW a \in ContractAssets, NEW b \in ContractAssets, a.key = b.key
          PROVE  a = b
      BY <2>1, <2>2, <2>4
    <2> QED
      BY <2>3, <2>4 DEF KeysAreUnique
  <1>6. KeysAreUnique(ContractAssets) <=> ~ HasTwoNames
    BY <1>5, ContractsCollide
  <1>7. KeysAreUnique(Assets) <=> KeysAreUnique(ContractAssets)
    <2>1. ASSUME KeysAreUnique(Assets)
          PROVE  KeysAreUnique(ContractAssets)
      BY <2>1, AssetForm DEF KeysAreUnique
    <2>2. ASSUME KeysAreUnique(ContractAssets), NEW a \in Assets, NEW b \in Assets, a.key = b.key
          PROVE  a = b
      <3>1. CASE a \in ContractAssets
        BY <2>2, <3>1, AssetForm, AssetTags DEF KeysAreUnique
      <3>2. CASE a \notin ContractAssets
        BY <1>4, <2>2, <3>2, AssetForm, AssetTags
      <3> QED
        BY <3>1, <3>2
    <2> QED
      BY <2>1, <2>2 DEF KeysAreUnique
  <1> QED
    BY <1>4, <1>6, <1>7

LEMMA EdgeFields ==
    ASSUME NEW x
    PROVE  /\ ContractEdge(x).key = <<"declares", x.key>> /\ RouteEdge(x).key = <<"declares", x.key>>
           /\ PackageEdge(x).key = <<"declares", x.key>>
           /\ ContractEdge(x).from = x.key /\ RouteEdge(x).from = x.key /\ PackageEdge(x).from = x.key
           /\ ContractEdge(x).to = <<"file", x.of.at[1]>> /\ RouteEdge(x).to = <<"file", x.of.at[1]>>
           /\ PackageEdge(x).to = <<"file", x.of>>
           /\ ContractEdge(x).length = x.length + 1 /\ RouteEdge(x).length = x.length + 1
           /\ PackageEdge(x).length = x.length
           /\ ImportEdge(x).key = <<"imports", x.at[1], x.specifier, x.target>>
           /\ ImportEdge(x).from = <<"file", x.at[1]>> /\ ImportEdge(x).to = <<"file", x.target>>
           /\ ImportEdge(x).length = LinkLength(x.at[1], x.specifier, x.target)
           /\ ImportEdge(x).of = x
           /\ ReexportEdge(x).key = <<"reexports", x.at[1], x.name, x.specifier, x.target>>
           /\ ReexportEdge(x).from = <<"file", x.at[1]>> /\ ReexportEdge(x).to = <<"file", x.target>>
           /\ ReexportEdge(x).length = LinkLength(x.at[1], x.specifier, x.target) + 1
           /\ ReexportEdge(x).of = x
           /\ TestEdge(x).key = <<"test-imports", x.source, x.target, x.specifier>>
           /\ TestEdge(x).from = <<"file", x.source>> /\ TestEdge(x).to = <<"file", x.target>>
           /\ TestEdge(x).length = LinkLength(x.source, x.specifier, x.target)
  BY DEF ContractEdge, RouteEdge, PackageEdge, ImportEdge, ReexportEdge, TestEdge, Edge, fileKey

LEMMA EdgeKeys ==
    ASSUME NEW x
    PROVE  /\ ContractEdge(x).key[1] = "declares" /\ ContractEdge(x).key[2] = x.key
           /\ RouteEdge(x).key[1] = "declares" /\ RouteEdge(x).key[2] = x.key
           /\ PackageEdge(x).key[1] = "declares" /\ PackageEdge(x).key[2] = x.key
           /\ ImportEdge(x).key[1] = "imports" /\ ImportEdge(x).key[2] = x.at[1]
           /\ ImportEdge(x).key[3] = x.specifier /\ ImportEdge(x).key[4] = x.target
           /\ ReexportEdge(x).key[1] = "reexports" /\ ReexportEdge(x).key[2] = x.at[1]
           /\ ReexportEdge(x).key[3] = x.name
           /\ ReexportEdge(x).key[4] = x.specifier /\ ReexportEdge(x).key[5] = x.target
           /\ TestEdge(x).key[1] = "test-imports" /\ TestEdge(x).key[2] = x.source
           /\ TestEdge(x).key[3] = x.target /\ TestEdge(x).key[4] = x.specifier
  BY DEF ContractEdge, RouteEdge, PackageEdge, ImportEdge, ReexportEdge, TestEdge, Edge

\* What an edge is, its key says first.
LEMMA EdgeParts ==
    ASSUME NEW e \in Edges
    PROVE  \/ /\ e.key[1] = "declares"
              /\ \E a \in ContractAssets \cup RouteAssets \cup PackageAssets :
                    /\ e.key[2] = a.key
                    /\ \/ a \in ContractAssets /\ e = ContractEdge(a)
                       \/ a \in RouteAssets /\ e = RouteEdge(a)
                       \/ a \in PackageAssets /\ e = PackageEdge(a)
           \/ e.key[1] = "imports" /\ \E i \in imports : i.target # NoPath /\ e = ImportEdge(i)
           \/ e.key[1] = "reexports" /\ \E f \in reexports : f.target # NoPath /\ e = ReexportEdge(f)
           \/ e.key[1] = "test-imports" /\ \E t \in testAssociations : e = TestEdge(t)
  <1>1. CASE \E a \in ContractAssets : e = ContractEdge(a)
    <2>1. PICK a \in ContractAssets : e = ContractEdge(a)
      BY <1>1
    <2>2. e.key[1] = "declares" /\ e.key[2] = a.key
      BY <2>1, EdgeKeys, Zenon
    <2> QED
      BY <2>1, <2>2
  <1>2. CASE \E a \in RouteAssets : e = RouteEdge(a)
    <2>1. PICK a \in RouteAssets : e = RouteEdge(a)
      BY <1>2
    <2>2. e.key[1] = "declares" /\ e.key[2] = a.key
      BY <2>1, EdgeKeys, Zenon
    <2> QED
      BY <2>1, <2>2
  <1>3. CASE \E a \in PackageAssets : e = PackageEdge(a)
    <2>1. PICK a \in PackageAssets : e = PackageEdge(a)
      BY <1>3
    <2>2. e.key[1] = "declares" /\ e.key[2] = a.key
      BY <2>1, EdgeKeys, Zenon
    <2> QED
      BY <2>1, <2>2
  <1>4. CASE \E i \in imports : i.target # NoPath /\ e = ImportEdge(i)
    <2>1. PICK i \in imports : i.target # NoPath /\ e = ImportEdge(i)
      BY <1>4
    <2>2. e.key[1] = "imports"
      BY <2>1, EdgeKeys, Zenon
    <2> QED
      BY <2>1, <2>2
  <1>5. CASE \E f \in reexports : f.target # NoPath /\ e = ReexportEdge(f)
    <2>1. PICK f \in reexports : f.target # NoPath /\ e = ReexportEdge(f)
      BY <1>5
    <2>2. e.key[1] = "reexports"
      BY <2>1, EdgeKeys, Zenon
    <2> QED
      BY <2>1, <2>2
  <1>6. CASE \E t \in testAssociations : e = TestEdge(t)
    <2>1. PICK t \in testAssociations : e = TestEdge(t)
      BY <1>6
    <2>2. e.key[1] = "test-imports"
      BY <2>1, EdgeKeys, Zenon
    <2> QED
      BY <2>1, <2>2
  <1> QED
    BY <1>1, <1>2, <1>3, <1>4, <1>5, <1>6, EdgeForm

\* The edges have keys of their own unless two statements say the same.
LEMMA EdgesAreApart ==
    ASSUME SourcesInit, KeysAreUnique(Assets)
    PROVE  KeysAreUnique(Edges) <=> ~ (SaysTwice("IMPORT") \/ SaysTwice("EXPORT_FROM"))
  <1>1. ASSUME NEW e \in Edges, NEW f \in Edges, e.key = f.key, e.key[1] = "declares"
        PROVE  e = f
    <2> DEFINE declared == ContractAssets \cup RouteAssets \cup PackageAssets
               Declares(g, a) == /\ g.key[2] = a.key
                                 /\ \/ a \in ContractAssets /\ g = ContractEdge(a)
                                    \/ a \in RouteAssets /\ g = RouteEdge(a)
                                    \/ a \in PackageAssets /\ g = PackageEdge(a)
    <2>1. PICK a \in declared : Declares(e, a)
      BY <1>1, EdgeParts
    <2>2. PICK b \in declared : Declares(f, b)
      BY <1>1, EdgeParts
    <2>3. a \in Assets /\ b \in Assets
      BY AssetForm
    <2>4. a = b
      BY <1>1, <2>1, <2>2, <2>3 DEF KeysAreUnique
    <2>5. /\ ~ (a \in ContractAssets /\ a \in RouteAssets)
          /\ ~ (a \in ContractAssets /\ a \in PackageAssets)
          /\ ~ (a \in RouteAssets /\ a \in PackageAssets)
      BY AssetTags
    <2> QED
      BY <2>1, <2>2, <2>4, <2>5
  <1>2. ASSUME ~ SaysTwice("IMPORT"),
               NEW e \in Edges, NEW f \in Edges, e.key = f.key, e.key[1] = "imports"
        PROVE  e = f
    <2>1. PICK i \in imports : i.target # NoPath /\ e = ImportEdge(i)
      BY <1>2, EdgeParts
    <2>2. PICK j \in imports : j.target # NoPath /\ f = ImportEdge(j)
      BY <1>2, EdgeParts
    <2>3. e.key[2] = i.at[1] /\ e.key[3] = i.specifier /\ e.key[4] = i.target
      BY <2>1, EdgeKeys, Zenon
    <2>4. f.key[2] = j.at[1] /\ f.key[3] = j.specifier /\ f.key[4] = j.target
      BY <2>2, EdgeKeys, Zenon
    <2>5. i.at[1] = j.at[1] /\ i.specifier = j.specifier /\ i.target = j.target
      BY <1>2, <2>3, <2>4
    <2>6. i = j
      BY <1>2, <2>1, <2>5, ImportsCollide
    <2> QED
      BY <2>1, <2>2, <2>6
  <1>3. ASSUME ~ SaysTwice("EXPORT_FROM"),
               NEW e \in Edges, NEW f \in Edges, e.key = f.key, e.key[1] = "reexports"
        PROVE  e = f
    <2>1. PICK i \in reexports : i.target # NoPath /\ e = ReexportEdge(i)
      BY <1>3, EdgeParts
    <2>2. PICK j \in reexports : j.target # NoPath /\ f = ReexportEdge(j)
      BY <1>3, EdgeParts
    <2>3. /\ e.key[2] = i.at[1] /\ e.key[3] = i.name
          /\ e.key[4] = i.specifier /\ e.key[5] = i.target
      BY <2>1, EdgeKeys, Zenon
    <2>4. /\ f.key[2] = j.at[1] /\ f.key[3] = j.name
          /\ f.key[4] = j.specifier /\ f.key[5] = j.target
      BY <2>2, EdgeKeys, Zenon
    <2>5. /\ i.at[1] = j.at[1] /\ i.name = j.name
          /\ i.specifier = j.specifier /\ i.target = j.target
      BY <1>3, <2>3, <2>4
    <2>6. i = j
      BY <1>3, <2>1, <2>5, ReexportsCollide
    <2> QED
      BY <2>1, <2>2, <2>6
  <1>4. ASSUME NEW e \in Edges, NEW f \in Edges, e.key = f.key, e.key[1] = "test-imports"
        PROVE  e = f
    <2>1. PICK t \in testAssociations : e = TestEdge(t)
      BY <1>4, EdgeParts
    <2>2. PICK u \in testAssociations : f = TestEdge(u)
      BY <1>4, EdgeParts
    <2>3. e.key[2] = t.source /\ e.key[3] = t.target /\ e.key[4] = t.specifier
      BY <2>1, EdgeKeys, Zenon
    <2>4. f.key[2] = u.source /\ f.key[3] = u.target /\ f.key[4] = u.specifier
      BY <2>2, EdgeKeys, Zenon
    <2>5. \A x \in testAssociations :
              x = [source |-> x.source, target |-> x.target, specifier |-> x.specifier]
      BY DEF testAssociations
    <2>6. t = u
      BY <1>4, <2>3, <2>4, <2>5
    <2> QED
      BY <2>1, <2>2, <2>6
  <1>5. ASSUME ~ SaysTwice("IMPORT"), ~ SaysTwice("EXPORT_FROM")
        PROVE  KeysAreUnique(Edges)
    <2> SUFFICES ASSUME NEW e \in Edges, NEW f \in Edges, e.key = f.key
                 PROVE  e = f
      BY DEF KeysAreUnique
    <2> QED
      BY <1>1, <1>2, <1>3, <1>4, <1>5, EdgeParts
  <1>6. ASSUME KeysAreUnique(Edges), SaysTwice("IMPORT")
        PROVE  FALSE
    <2>1. PICK i, j \in imports :
              /\ i # j /\ i.target # NoPath
              /\ i.at[1] = j.at[1] /\ i.specifier = j.specifier /\ i.target = j.target
      BY <1>6, ImportsCollide
    <2>2. ImportEdge(i) \in Edges /\ ImportEdge(j) \in Edges
      BY <2>1, EdgeForm
    <2>3. /\ ImportEdge(i).key = <<"imports", i.at[1], i.specifier, i.target>>
          /\ ImportEdge(j).key = <<"imports", j.at[1], j.specifier, j.target>>
          /\ ImportEdge(i).of = i /\ ImportEdge(j).of = j
      BY EdgeFields, Zenon
    <2>4. ImportEdge(i).key = ImportEdge(j).key
      BY <2>1, <2>3
    <2>5. ImportEdge(i) = ImportEdge(j)
      BY <1>6, <2>2, <2>4 DEF KeysAreUnique
    <2> QED
      BY <2>1, <2>3, <2>5
  <1>7. ASSUME KeysAreUnique(Edges), SaysTwice("EXPORT_FROM")
        PROVE  FALSE
    <2>1. PICK i, j \in reexports :
              /\ i # j /\ i.target # NoPath /\ i.name = j.name
              /\ i.at[1] = j.at[1] /\ i.specifier = j.specifier /\ i.target = j.target
      BY <1>7, ReexportsCollide
    <2>2. ReexportEdge(i) \in Edges /\ ReexportEdge(j) \in Edges
      BY <2>1, EdgeForm
    <2>3. /\ ReexportEdge(i).key = <<"reexports", i.at[1], i.name, i.specifier, i.target>>
          /\ ReexportEdge(j).key = <<"reexports", j.at[1], j.name, j.specifier, j.target>>
          /\ ReexportEdge(i).of = i /\ ReexportEdge(j).of = j
      BY EdgeFields, Zenon
    <2>4. ReexportEdge(i).key = ReexportEdge(j).key
      BY <2>1, <2>3
    <2>5. ReexportEdge(i) = ReexportEdge(j)
      BY <1>7, <2>2, <2>4 DEF KeysAreUnique
    <2> QED
      BY <2>1, <2>3, <2>5
  <1> QED
    BY <1>5, <1>6, <1>7

\* An edge leads back to where it starts if a statement names its own file.
LEMMA EdgesLeadOut ==
    ASSUME SourcesInit
    PROVE  (\A e \in Edges : e.from # e.to) <=> ~ NamesItself
  <1> DEFINE links == Places("IMPORT") \cup Places("EXPORT_FROM")
  <1>1. NamesItself <=> \E place \in links : Speaks(place) /\ TargetOf(place) = place[1]
    <2>1. \A place \in links :
              /\ place[1] \in DOMAIN sources
              /\ Means(place[1], StatementAt(place).specifier, place[1])
                     <=> TargetOf(place) = place[1] /\ place[1] # NoPath
      BY PlaceForm, TargetForm
    <2>2. NoPath \notin DOMAIN sources
      BY TreeForm
    <2> QED
      BY <2>1, <2>2 DEF NamesItself
  <1>2. \A place \in links : place[1] # NoPath
    BY PlaceForm, TreeForm
  <1>3. \A place \in Places("IMPORT") : Speaks(place)
    BY PlaceForm DEF Speaks
  <1>4. \A place \in Places("EXPORT_FROM") :
            Speaks(place) <=> \E name : name \in StatementAt(place).names
    BY PlaceForm DEF Speaks
  <1> DEFINE Import(place) ==
                 [at |-> place, specifier |-> StatementAt(place).specifier,
                  target |-> TargetOf(place)]
             Reexport(place, name) ==
                 [at |-> place, name |-> name, specifier |-> StatementAt(place).specifier,
                  target |-> TargetOf(place)]
  <1>5. \A i : i \in imports <=> \E place \in Places("IMPORT") : i = Import(place)
    BY ImportForm
  <1>6. \A e : e \in reexports <=>
            \E place \in Places("EXPORT_FROM") : \E name \in StatementAt(place).names :
                e = Reexport(place, name)
    BY ReexportForm
  <1>7. \A place : Import(place).at = place /\ Import(place).target = TargetOf(place)
    OBVIOUS
  <1>8. \A place, name : /\ Reexport(place, name).at = place
                         /\ Reexport(place, name).target = TargetOf(place)
    OBVIOUS
  <1> HIDE DEF Import, Reexport, links
  <1>9. ASSUME NEW place \in links, Speaks(place), TargetOf(place) = place[1]
        PROVE  \E e \in Edges : e.from = e.to
    <2>1. CASE place \in Places("IMPORT")
      <3>1. Import(place) \in imports
        BY <1>5, <2>1
      <3>2. Import(place).target # NoPath /\ Import(place).target = Import(place).at[1]
        BY <1>2, <1>7, <1>9
      <3>3. ImportEdge(Import(place)) \in Edges
        BY <3>1, <3>2, EdgeForm
      <3>4. /\ ImportEdge(Import(place)).from = <<"file", Import(place).at[1]>>
            /\ ImportEdge(Import(place)).to = <<"file", Import(place).target>>
        BY EdgeFields, Zenon
      <3> QED
        BY <3>2, <3>3, <3>4
    <2>2. CASE place \in Places("EXPORT_FROM")
      <3>1. PICK name : name \in StatementAt(place).names
        BY <1>4, <1>9, <2>2
      <3> DEFINE f == Reexport(place, name)
      <3>2. f \in reexports
        BY <1>6, <2>2, <3>1
      <3>3. f.target # NoPath /\ f.target = f.at[1]
        BY <1>2, <1>8, <1>9
      <3> HIDE DEF f
      <3>4. ReexportEdge(f) \in Edges
        BY <3>2, <3>3, EdgeForm
      <3>5. ReexportEdge(f).from = <<"file", f.at[1]>> /\ ReexportEdge(f).to = <<"file", f.target>>
        BY EdgeFields, Zenon
      <3> QED
        BY <3>3, <3>4, <3>5
    <2> QED
      BY <2>1, <2>2 DEF links
  <1>10. ASSUME NEW e \in Edges, e.from = e.to
         PROVE  \E place \in links : Speaks(place) /\ TargetOf(place) = place[1]
    <2>1. CASE \E a \in ContractAssets \cup RouteAssets \cup PackageAssets :
                   \/ a \in ContractAssets /\ e = ContractEdge(a)
                   \/ a \in RouteAssets /\ e = RouteEdge(a)
                   \/ a \in PackageAssets /\ e = PackageEdge(a)
      <3>1. PICK a \in ContractAssets \cup RouteAssets \cup PackageAssets :
                   \/ a \in ContractAssets /\ e = ContractEdge(a)
                   \/ a \in RouteAssets /\ e = RouteEdge(a)
                   \/ a \in PackageAssets /\ e = PackageEdge(a)
        BY <2>1
      <3>2. a.key[1] # "file"
        BY AssetTags
      <3>3. /\ ContractEdge(a).from = a.key /\ ContractEdge(a).to[1] = "file"
            /\ RouteEdge(a).from = a.key /\ RouteEdge(a).to[1] = "file"
            /\ PackageEdge(a).from = a.key /\ PackageEdge(a).to[1] = "file"
        BY DEF ContractEdge, RouteEdge, PackageEdge, Edge, fileKey
      <3> QED
        BY <1>10, <3>1, <3>2, <3>3
    <2>2. CASE \E i \in imports : i.target # NoPath /\ e = ImportEdge(i)
      <3>1. PICK i \in imports : i.target # NoPath /\ e = ImportEdge(i)
        BY <2>2
      <3>2. PICK place \in Places("IMPORT") : i = Import(place)
        BY <1>5
      <3>3. e.from[2] = i.at[1] /\ e.to[2] = i.target
        <4>1. ImportEdge(i).from[2] = i.at[1] /\ ImportEdge(i).to[2] = i.target
          BY DEF ImportEdge, Edge, fileKey
        <4> QED
          BY <3>1, <4>1
      <3>4. TargetOf(place) = place[1]
        BY <1>7, <1>10, <3>2, <3>3
      <3> QED
        BY <1>3, <3>4 DEF links
    <2>3. CASE \E f \in reexports : f.target # NoPath /\ e = ReexportEdge(f)
      <3>1. PICK f \in reexports : f.target # NoPath /\ e = ReexportEdge(f)
        BY <2>3
      <3>2. PICK place \in Places("EXPORT_FROM") : \E name \in StatementAt(place).names :
                f = Reexport(place, name)
        BY <1>6
      <3>3. e.from[2] = f.at[1] /\ e.to[2] = f.target
        <4>1. ReexportEdge(f).from[2] = f.at[1] /\ ReexportEdge(f).to[2] = f.target
          BY DEF ReexportEdge, Edge, fileKey
        <4> QED
          BY <3>1, <4>1
      <3>4. TargetOf(place) = place[1]
        BY <1>8, <1>10, <3>2, <3>3
      <3> QED
        BY <1>4, <3>2, <3>4 DEF links
    <2>4. CASE \E t \in testAssociations : e = TestEdge(t)
      <3>1. PICK t \in testAssociations : e = TestEdge(t)
        BY <2>4
      <3>2. e.from[2] = t.source /\ e.to[2] = t.target
        <4>1. TestEdge(t).from[2] = t.source /\ TestEdge(t).to[2] = t.target
          BY DEF TestEdge, Edge, fileKey
        <4> QED
          BY <3>1, <4>1
      <3>3. isTestPath(t.source) /\ ~ isTestPath(t.target)
        BY DEF testAssociations
      <3> QED
        BY <1>10, <3>2, <3>3
    <2> QED
      BY <2>1, <2>2, <2>3, <2>4, EdgeForm
  <1> QED
    BY <1>1, <1>9, <1>10

-----------------------------------------------------------------------------
(***************************************************************************)
(* CodeMapMembers: what the projection refuses.                            *)
(***************************************************************************)
LEMMA PathsHaveLength ==
    ASSUME SourcesInit, NEW path \in DOMAIN sources
    PROVE  PathLength(path) \in Nat
  <1>1. path.dir \in Words
    BY TreeForm, PathForm
  <1>2. Len(path.dir) \in Nat
    BY <1>1, LenProperties DEF Words
  <1> QED
    BY <1>2 DEF PathLength

LEMMA LinksHaveLength ==
    ASSUME SourcesInit
    PROVE  \A i \in imports \cup reexports :
               i.target # NoPath => LinkLength(i.at[1], i.specifier, i.target) \in Nat
  <1>1. ASSUME NEW kind \in {"IMPORT", "EXPORT_FROM"}, NEW place \in Places(kind),
               TargetOf(place) # NoPath
        PROVE  LinkLength(place[1], StatementAt(place).specifier, TargetOf(place)) \in Nat
    <2>1. PathLength(place[1]) \in Nat /\ PathLength(TargetOf(place)) \in Nat
      BY <1>1, PlaceForm, TargetForm, PathsHaveLength
    <2>2. StatementAt(place).specifier.names \in Words
      BY LinkForm, SpecifierForm
    <2>3. Len(StatementAt(place).specifier.names) \in Nat
      BY <2>2, LenProperties DEF Words
    <2> QED
      BY <2>1, <2>3 DEF LinkLength, SpecifierLength
  <1>2. ASSUME NEW i \in imports, i.target # NoPath
        PROVE  LinkLength(i.at[1], i.specifier, i.target) \in Nat
    <2>1. PICK place \in Places("IMPORT") :
              i = [at |-> place, specifier |-> StatementAt(place).specifier,
                   target |-> TargetOf(place)]
      BY ImportForm
    <2>2. /\ i.at = place /\ i.specifier = StatementAt(place).specifier
          /\ i.target = TargetOf(place)
      BY <2>1
    <2> QED
      BY <1>1, <1>2, <2>2
  <1>3. ASSUME NEW e \in reexports, e.target # NoPath
        PROVE  LinkLength(e.at[1], e.specifier, e.target) \in Nat
    <2>1. PICK place \in Places("EXPORT_FROM") : \E name \in StatementAt(place).names :
              e = [at |-> place, name |-> name, specifier |-> StatementAt(place).specifier,
                   target |-> TargetOf(place)]
      BY ReexportForm
    <2>2. /\ e.at = place /\ e.specifier = StatementAt(place).specifier
          /\ e.target = TargetOf(place)
      BY <2>1
    <2> QED
      BY <1>1, <1>3, <2>2
  <1> QED
    BY <1>2, <1>3

\* A file with the assets it declares has a length, a label, and room for both.
LEMMA AssetsHaveSize ==
    ASSUME SourcesInit, NEW a \in Assets
    PROVE  /\ a.length \in Nat
           /\ ~ (a.label <= MaxLabel /\ a.trimmed) =>
                  \/ \E path \in DOMAIN sources : PathLength(path) > MaxLabel
                  \/ \E c \in routes : c.call.route.length >= MaxLabel \/ ~ c.call.route.trimmed
  <1>1. MaxLabel \in Nat \ {0}
    BY LimitAssumption
  <1>2. CASE a \in FileAssets
    <2>1. PICK p \in DOMAIN sources : a = FileAsset(p)
      BY <1>2, AssetForm
    <2>2. PathLength(p) \in Nat
      BY PathsHaveLength
    <2>3. a.length = PathLength(p) + 1 /\ a.label = PathLength(p) /\ a.trimmed
      BY <2>1, AssetFields, Zenon
    <2> QED
      BY <1>1, <2>2, <2>3
  <1>3. CASE a \in PackageAssets
    <2>1. PICK p \in manifests : a = PackageAsset(p)
      BY <1>3, AssetForm
    <2>2. PathLength(p) \in Nat
      BY PathsHaveLength DEF manifests, Manifests
    <2>3. a.length = PathLength(p) + 1 /\ a.label = 1 /\ a.trimmed
      BY <2>1, AssetFields, Zenon
    <2> QED
      BY <1>1, <2>2, <2>3
  <1>4. CASE a \in ContractAssets
    <2>1. PICK c \in contracts : a = ContractAsset(c)
      BY <1>4, AssetForm
    <2>2. PICK place \in localContracts : \E name \in exportedNames(place) :
              c = [at |-> place, name |-> StatementAt(place).name, exportedName |-> name]
      BY ContractForm
    <2>3. c.at = place /\ place \in Places("CONTRACT")
      BY <2>2 DEF localContracts
    <2>4. PathLength(c.at[1]) \in Nat
      BY <2>3, PlaceForm, PathsHaveLength
    <2>5. a.length = PathLength(c.at[1]) + 2 /\ a.label = 1 /\ a.trimmed
      BY <2>1, AssetFields, Zenon
    <2> QED
      BY <1>1, <2>4, <2>5
  <1>5. CASE a \in RouteAssets
    <2>1. PICK c \in routes : a = RouteAsset(c)
      BY <1>5, AssetForm
    <2>2. PathLength(c.at[1]) \in Nat /\ c.call.route.length \in Nat
      BY RoutesAreApart, PathsHaveLength
    <2>3. /\ a.length = PathLength(c.at[1]) + c.call.route.length + 2
          /\ a.label = c.call.route.length + 1 /\ a.trimmed = c.call.route.trimmed
      BY <2>1, AssetFields, Zenon
    <2>4. a.length \in Nat
      BY <2>2, <2>3
    <2>5. ASSUME ~ (a.label <= MaxLabel)
          PROVE  c.call.route.length >= MaxLabel
      BY <1>1, <2>2, <2>3, <2>5
    <2> QED
      BY <2>3, <2>4, <2>5
  <1> QED
    BY <1>2, <1>3, <1>4, <1>5, AssetForm

LEMMA EdgesHaveSize ==
    ASSUME SourcesInit, NEW e \in Edges
    PROVE  e.length \in Nat
  <1>1. CASE \E a \in ContractAssets \cup RouteAssets \cup PackageAssets :
                 e = ContractEdge(a) \/ e = RouteEdge(a) \/ e = PackageEdge(a)
    <2>1. PICK a \in ContractAssets \cup RouteAssets \cup PackageAssets :
              e = ContractEdge(a) \/ e = RouteEdge(a) \/ e = PackageEdge(a)
      BY <1>1
    <2>2. a.length \in Nat
      BY AssetForm, AssetsHaveSize
    <2>3. /\ ContractEdge(a).length = a.length + 1 /\ RouteEdge(a).length = a.length + 1
          /\ PackageEdge(a).length = a.length
      BY EdgeFields, Zenon
    <2>4. e.length = a.length + 1 \/ e.length = a.length
      BY <2>1, <2>3
    <2> QED
      BY <2>2, <2>4
  <1>2. CASE \E i \in imports : i.target # NoPath /\ e = ImportEdge(i)
    <2>1. PICK i \in imports : i.target # NoPath /\ e = ImportEdge(i)
      BY <1>2
    <2>2. e.length = LinkLength(i.at[1], i.specifier, i.target)
      BY <2>1, EdgeFields, Zenon
    <2> QED
      BY <2>1, <2>2, LinksHaveLength
  <1>3. CASE \E f \in reexports : f.target # NoPath /\ e = ReexportEdge(f)
    <2>1. PICK f \in reexports : f.target # NoPath /\ e = ReexportEdge(f)
      BY <1>3
    <2>2. e.length = LinkLength(f.at[1], f.specifier, f.target) + 1
      BY <2>1, EdgeFields, Zenon
    <2>3. LinkLength(f.at[1], f.specifier, f.target) \in Nat
      BY <2>1, LinksHaveLength
    <2> QED
      BY <2>2, <2>3
  <1>4. CASE \E t \in testAssociations : e = TestEdge(t)
    <2>1. PICK t \in testAssociations : e = TestEdge(t)
      BY <1>4
    <2>2. PICK i \in imports : i.target # NoPath
              /\ t = [source |-> i.at[1], target |-> i.target, specifier |-> i.specifier]
      BY DEF testAssociations
    <2>3. e.length = LinkLength(t.source, t.specifier, t.target)
      BY <2>1, EdgeFields, Zenon
    <2>4. t.source = i.at[1] /\ t.specifier = i.specifier /\ t.target = i.target
      BY <2>2
    <2> QED
      BY <2>2, <2>3, <2>4, LinksHaveLength
  <1> QED
    BY <1>1, <1>2, <1>3, <1>4, EdgeForm

\* What is refused, one of the three things or a limit excludes.
LEMMA RefusedForAReason ==
    ASSUME SourcesInit, ~ (AssetsAccepted /\ EdgesAccepted)
    PROVE  \/ SaysTwice("IMPORT") \/ SaysTwice("EXPORT_FROM")
           \/ NamesItself \/ HasTwoNames \/ Oversized
  <1>1. MaxAssets \in Nat /\ MaxEdges \in Nat /\ MaxKey \in Nat
    BY LimitAssumption
  <1>2. ASSUME ~ (Cardinality(Assets) <= MaxAssets)
        PROVE  Oversized
    <2>1. Cardinality(Assets) \in Nat
      BY AssetsAreFinite, FS_CardinalityType
    <2>2. Cardinality(Assets) > MaxAssets
      BY <1>1, <1>2, <2>1
    <2> QED
      BY <2>2 DEF Oversized
  <1>3. ASSUME ~ (Cardinality(Edges) <= MaxEdges)
        PROVE  Oversized
    <2>1. Cardinality(Edges) \in Nat
      BY EdgesAreFinite, FS_CardinalityType
    <2>2. Cardinality(Edges) > MaxEdges
      BY <1>1, <1>3, <2>1
    <2> QED
      BY <2>2 DEF Oversized
  <1>4. ASSUME NEW m \in Assets \cup Edges, ~ (m.length <= MaxKey)
        PROVE  Oversized
    <2>1. m.length \in Nat
      BY AssetsHaveSize, EdgesHaveSize
    <2>2. m.length > MaxKey
      BY <1>1, <1>4, <2>1
    <2> QED
      BY <2>2 DEF Oversized
  <1>5. ASSUME NEW a \in Assets, ~ (a.label <= MaxLabel /\ a.trimmed)
        PROVE  Oversized
    BY <1>5, AssetsHaveSize DEF Oversized
  <1>6. ASSUME ~ AssetsAccepted
        PROVE  HasTwoNames \/ Oversized
    BY <1>2, <1>4, <1>5, <1>6, AssetsAreApart DEF AssetsAccepted
  <1>7. ASSUME ~ EdgesAccepted
        PROVE  \/ SaysTwice("IMPORT") \/ SaysTwice("EXPORT_FROM")
               \/ NamesItself \/ HasTwoNames \/ Oversized
    <2>1. CASE ~ KeysAreUnique(Edges)
      BY <2>1, AssetsAreApart, EdgesAreApart
    <2>2. CASE ~ \A e \in Edges : e.from # e.to
      BY <2>2, EdgesLeadOut
    <2> QED
      BY <1>3, <1>4, <1>7, <2>1, <2>2 DEF EdgesAccepted
  <1> QED
    BY <1>6, <1>7

\* MembersAreExact, of every tree of sources: a map has an edge for every import
\* and every export from another file that can mean one file only by where its
\* names lead, its extension and its last slash (Names), and no other
\* (extractedMembers, resolveRelativeSpecifier); and what has no map the limits,
\* or one of three things that a program may well say, exclude
\* (createCodeMapProjectionRevision).
THEOREM MembersCorrect == SourcesInit => MembersAreExact
  <1> SUFFICES ASSUME SourcesInit
               PROVE  MembersAreExact
    OBVIOUS
  <1>1. CASE RecordCount > MaxRecords
    <2>1. mapping.code = "CONFLICT"
      BY <1>1 DEF mapping, Refused
    <2> QED
      BY <1>1, <2>1 DEF MembersAreExact
  <1>2. CASE ~ (RecordCount > MaxRecords) /\ ~ (AssetsAccepted /\ EdgesAccepted)
    <2>1. mapping.code = "INTERNAL_ERROR"
      BY <1>2 DEF mapping, Refused
    <2> QED
      BY <1>2, <2>1, RefusedForAReason DEF MembersAreExact
  <1>3. CASE ~ (RecordCount > MaxRecords) /\ AssetsAccepted /\ EdgesAccepted
    <2>1. mapping.code = completeness /\ mapping.edges = Edges
      BY <1>3 DEF mapping
    <2>2. mapping.code # "CONFLICT" /\ mapping.code # "INTERNAL_ERROR"
      BY <2>1 DEF completeness
    <2>3. LinksAreExact(mapping)
      BY <2>1, ImportsAreLinks, ReexportsAreLinks, TestImportsAreLinks DEF LinksAreExact, Linked
    <2>4. ~ HasTwoNames /\ KeysAreUnique(Assets)
      BY <1>3, AssetsAreApart DEF AssetsAccepted
    <2>5. ~ (SaysTwice("IMPORT") \/ SaysTwice("EXPORT_FROM")) /\ ~ NamesItself
      BY <1>3, <2>4, EdgesAreApart, EdgesLeadOut DEF EdgesAccepted
    <2> QED
      BY <2>2, <2>3, <2>4, <2>5 DEF MembersAreExact
  <1> QED
    BY <1>1, <1>2, <1>3
=============================================================================
