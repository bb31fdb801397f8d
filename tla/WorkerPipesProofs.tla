------------------------- MODULE WorkerPipesProofs -------------------------
(***************************************************************************)
(* Theorems about module WorkerPipes, for pipes of any size, any number of *)
(* lines and any mix of lines that fit and lines that do not: yt-dlp only  *)
(* blocks for ever after a line that ended a scanner's loop, and Run has   *)
(* handed on all of stdout when it reports success.                        *)
(***************************************************************************)
EXTENDS WorkerPipes, SequenceTheorems, TLAPS

-----------------------------------------------------------------------------
(* The inductive invariant, in named parts.                                *)

\* Where Run is says where the process and the scanners are.
StagesOK ==
  /\ run = "starting" => process = "none"
  /\ run \in {"scanning", "waiting"} => process # "none"
  /\ run = "waiting" => scanner["stdout"] = "ended"
  /\ scanner["stdout"] = "scanning" => run = "scanning"
  /\ Returned => process # "running"
  /\ process # "running" => writing = Nothing

\* A pipe has nothing in it before yt-dlp starts and after Run has returned.
PipesOK == Returned \/ process = "none" => \A s \in Streams : pipe[s] = <<>>

\* Until Run returns, what was printed is what was handed on and what is in the pipe.
NothingLost == ~Returned => \A s \in Streams : printed[s] = scanned[s] \o pipe[s]

\* A loop ends at a line that is too long, or with nothing left to come.
LoopsOK ==
  \A s \in Streams : process # "none" /\ scanner[s] # "scanning" =>
    PrintedLong(s) \/ (Exited /\ pipe[s] = <<>>)

IInv == TypeOK /\ StagesOK /\ PipesOK /\ NothingLost /\ LoopsOK /\ CompletedScannedAll

-----------------------------------------------------------------------------
(* Sequences: a line moves from the end of one to the end of the other.    *)

\* A line is added to the pipe.
LEMMA WrittenIsCarried ==
  ASSUME NEW done \in Seq(Lines), NEW rest \in Seq(Lines), NEW line \in Lines
  PROVE  Append(done \o rest, line) = done \o Append(rest, line)
<1>1. <<line>> \in Seq(Lines)
  OBVIOUS
<1>2. /\ done \o rest \in Seq(Lines)
      /\ Append(done \o rest, line) = (done \o rest) \o <<line>>
  BY ConcatProperties, AppendIsConcat
<1>3. Append(rest, line) = rest \o <<line>>
  BY AppendIsConcat
<1> QED BY <1>1, <1>2, <1>3, ConcatAssociative

\* The first line of the pipe is handed on.
LEMMA ScannedIsCarried ==
  ASSUME NEW done \in Seq(Lines), NEW rest \in Seq(Lines), rest # <<>>
  PROVE  Append(done, Head(rest)) \o Tail(rest) = done \o rest
<1>1. Head(rest) \in Lines /\ Tail(rest) \in Seq(Lines)
  BY HeadTailProperties
<1>2. <<Head(rest)>> \in Seq(Lines)
  BY <1>1
<1>3. <<Head(rest)>> \o Tail(rest) = rest
  BY <1>1
<1>4. Append(done, Head(rest)) = done \o <<Head(rest)>>
  BY <1>1, AppendIsConcat
<1> QED BY <1>1, <1>2, <1>3, <1>4, ConcatAssociative

\* A line at the head of the pipe was printed.
LEMMA HeadWasPrinted ==
  ASSUME NEW done \in Seq(Lines), NEW rest \in Seq(Lines), rest # <<>>
  PROVE  \E i \in DOMAIN (done \o rest) : (done \o rest)[i] = Head(rest)
<1>1. /\ Len(done) \in Nat /\ Len(rest) \in Nat /\ Len(rest) >= 1
      /\ Head(rest) = rest[1]
  BY EmptySeq, LenProperties
<1>2. Len(done) + 1 \in DOMAIN (done \o rest)
  BY <1>1, ConcatProperties, LenProperties
<1>3. (done \o rest)[Len(done) + 1] = rest[1]
  BY <1>1, ConcatProperties
<1> QED BY <1>1, <1>2, <1>3

-----------------------------------------------------------------------------
(* The initial state.                                                      *)

LEMMA InvInit == Init => IInv
<1> SUFFICES ASSUME Init PROVE IInv
  OBVIOUS
<1> USE DEF Init
<1>1. <<>> \in Seq(Lines) /\ Len(<<>>) = 0
  BY EmptySeq
<1>2. TypeOK
  BY <1>1, SizeAssumption DEF TypeOK
<1>3. StagesOK /\ LoopsOK /\ CompletedScannedAll
  BY DEF StagesOK, LoopsOK, CompletedScannedAll, Returned, Streams
<1>4. NothingLost
  <2>1. <<>> \o <<>> = <<>>
    BY <1>1, ConcatEmptySeq
  <2>2. \A s \in Streams : printed[s] = <<>> /\ scanned[s] = <<>> /\ pipe[s] = <<>>
    OBVIOUS
  <2> QED BY <2>1, <2>2 DEF NothingLost
<1>5. PipesOK
  BY Zenon DEF PipesOK
<1> QED BY <1>2, <1>3, <1>4, <1>5 DEF IInv

-----------------------------------------------------------------------------
(* The steps of yt-dlp.                                                    *)

LEMMA BeginLineStep ==
  ASSUME IInv, NEW s \in Streams, NEW line \in Lines, BeginLine(s, line)
  PROVE  IInv'
<1> USE DEF IInv, BeginLine
<1>1. TypeOK'
  BY DEF TypeOK, Writing
<1>2. StagesOK' /\ PipesOK' /\ NothingLost'
  BY DEF StagesOK, PipesOK, NothingLost, Returned
<1>3. LoopsOK' /\ CompletedScannedAll'
  BY DEF LoopsOK, CompletedScannedAll, PrintedLong, Exited
<1> QED BY <1>1, <1>2, <1>3

LEMMA WriteLineStep ==
  ASSUME IInv, NEW s \in Streams, WriteLine(s)
  PROVE  IInv'
<1> USE DEF IInv
<1>1. process = "running" /\ ~Returned /\ run # "completed"
  <2>1. writing # Nothing
    BY DEF WriteLine, Nothing, Streams
  <2> QED BY <2>1 DEF StagesOK, Returned
<1>2. writing \in Writing /\ writing.line \in Lines
  BY <1>1 DEF WriteLine, TypeOK, Writing, Nothing, Streams
<1>3. /\ pipe[s] \in Seq(Lines) /\ printed[s] \in Seq(Lines) /\ scanned[s] \in Seq(Lines)
      /\ Len(pipe[s]) \in Nat
  BY LenProperties DEF TypeOK
<1>4. /\ pipe' = [pipe EXCEPT ![s] = Append(pipe[s], writing.line)]
      /\ printed' = [printed EXCEPT ![s] = Append(printed[s], writing.line)]
      /\ writing' = Nothing /\ UNCHANGED <<run, process, scanner, scanned>>
      /\ Len(pipe[s]) < Capacity
  BY DEF WriteLine
<1>5. /\ Append(pipe[s], writing.line) \in Seq(Lines)
      /\ Len(Append(pipe[s], writing.line)) = Len(pipe[s]) + 1
      /\ Append(printed[s], writing.line) \in Seq(Lines)
  BY <1>2, <1>3, AppendProperties
<1>6. TypeOK'
  BY <1>3, <1>4, <1>5, SizeAssumption DEF TypeOK
<1>7. StagesOK' /\ PipesOK' /\ CompletedScannedAll'
  BY <1>1, <1>4 DEF StagesOK, PipesOK, CompletedScannedAll, Returned
<1>8. NothingLost'
  <2>1. printed[s] = scanned[s] \o pipe[s]
    BY <1>1 DEF NothingLost
  <2>2. Append(scanned[s] \o pipe[s], writing.line) = scanned[s] \o Append(pipe[s], writing.line)
    BY <1>2, <1>3, WrittenIsCarried
  <2> QED BY <1>1, <1>4, <2>1, <2>2 DEF NothingLost, TypeOK
<1>9. LoopsOK'
  <2>1. /\ DOMAIN printed[s] = 1..Len(printed[s]) /\ Len(printed[s]) \in Nat
        /\ DOMAIN Append(printed[s], writing.line) = 1..Len(printed[s]) + 1
        /\ \A i \in 1..Len(printed[s]) : Append(printed[s], writing.line)[i] = printed[s][i]
    BY <1>2, <1>3, <1>5, AppendProperties, LenProperties
  <2>2. PrintedLong(s) => PrintedLong(s)'
    <3>1. printed'[s] = Append(printed[s], writing.line)
      BY <1>4 DEF TypeOK
    <3> QED BY <2>1, <3>1 DEF PrintedLong
  <2>3. \A t \in Streams \ {s} : PrintedLong(t) => PrintedLong(t)'
    BY <1>4 DEF PrintedLong, TypeOK
  <2> QED BY <1>1, <1>4, <2>2, <2>3 DEF LoopsOK, Exited
<1> QED BY <1>6, <1>7, <1>8, <1>9

LEMMA ExitStep ==
  ASSUME IInv, NEW code \in {"succeeded", "failed"}, Exit(code)
  PROVE  IInv'
<1> USE DEF IInv, Exit
<1>1. TypeOK'
  BY DEF TypeOK
<1>2. StagesOK' /\ PipesOK' /\ NothingLost'
  BY DEF StagesOK, PipesOK, NothingLost, Returned
<1>3. LoopsOK' /\ CompletedScannedAll'
  BY DEF LoopsOK, CompletedScannedAll, PrintedLong, Exited
<1> QED BY <1>1, <1>2, <1>3

-----------------------------------------------------------------------------
(* The steps of Run and of the goroutine.                                  *)

LEMMA StartStep ==
  ASSUME IInv, Start \/ StartFails
  PROVE  IInv'
<1> USE DEF IInv
<1>1. /\ run = "starting" /\ process = "none" /\ writing = Nothing /\ ~Returned
      /\ UNCHANGED <<writing, printed, pipe, scanned>>
  BY DEF Start, StartFails, StagesOK, Returned
<1>2. \/ run' = "failed" /\ UNCHANGED <<process, scanner>>
      \/ run' = "scanning" /\ process' = "running" /\ scanner' = [s \in Streams |-> "scanning"]
  BY DEF Start, StartFails
<1>3. TypeOK'
  BY <1>1, <1>2 DEF TypeOK
<1>4. StagesOK' /\ PipesOK' /\ NothingLost'
  BY <1>1, <1>2 DEF StagesOK, PipesOK, NothingLost, Returned
<1>5. LoopsOK' /\ CompletedScannedAll'
  BY <1>1, <1>2 DEF LoopsOK, CompletedScannedAll
<1> QED BY <1>3, <1>4, <1>5

LEMMA ScanStepOK ==
  ASSUME IInv, NEW s \in Streams, Scan(s)
  PROVE  IInv'
<1> USE DEF IInv
<1>1. ~Returned /\ run # "completed" /\ process # "none"
  BY DEF Scan, PipesOK, Returned
<1>2. pipe[s] \in Seq(Lines) /\ scanned[s] \in Seq(Lines) /\ pipe[s] # <<>> /\ Head(pipe[s]) = "text"
  BY DEF TypeOK, Scan
<1>3. /\ pipe' = [pipe EXCEPT ![s] = Tail(pipe[s])]
      /\ scanned' = [scanned EXCEPT ![s] = Append(scanned[s], Head(pipe[s]))]
      /\ scanner[s] = "scanning"
      /\ UNCHANGED <<run, process, writing, printed, scanner>>
  BY DEF Scan
<1>4. /\ Head(pipe[s]) \in Lines /\ Tail(pipe[s]) \in Seq(Lines)
      /\ Len(Tail(pipe[s])) = Len(pipe[s]) - 1 /\ Len(pipe[s]) \in Nat
      /\ Append(scanned[s], Head(pipe[s])) \in Seq(Lines)
  BY <1>2, HeadTailProperties, AppendProperties, LenProperties
<1>5. TypeOK'
  BY <1>3, <1>4, SizeAssumption DEF TypeOK
<1>6. StagesOK' /\ PipesOK' /\ CompletedScannedAll'
  BY <1>1, <1>3 DEF StagesOK, PipesOK, CompletedScannedAll, Returned
<1>7. NothingLost'
  <2>1. printed[s] = Append(scanned[s], Head(pipe[s])) \o Tail(pipe[s])
    BY <1>1, <1>2, ScannedIsCarried DEF NothingLost
  <2> QED BY <1>1, <1>3, <2>1 DEF NothingLost, TypeOK
<1>8. LoopsOK'
  BY <1>1, <1>3 DEF LoopsOK, PrintedLong, Exited, TypeOK
<1> QED BY <1>5, <1>6, <1>7, <1>8

\* A loop ends: at a line that is too long, or when nothing is left to come.
LEMMA EndLoopStep ==
  ASSUME IInv, NEW s \in Streams, ScanTooLong(s) \/ ScanEnds(s)
  PROVE  IInv'
<1> USE DEF IInv
<1>1. /\ scanner[s] = "scanning"
      /\ scanner' = [scanner EXCEPT ![s] = "ended"]
      /\ run' = IF s = "stdout" THEN "waiting" ELSE run
      /\ UNCHANGED <<process, writing, printed, pipe, scanned>>
  BY DEF ScanTooLong, ScanEnds, EndLoop
<1>2. Streams = {"stdout", "stderr"} /\ s \in Streams
  BY DEF Streams
<1>3. s = "stdout" => run = "scanning"
  BY <1>1 DEF StagesOK
<1>4. process # "none"
  BY <1>1 DEF ScanTooLong, ScanEnds, Exited, PipesOK
<1>5. TypeOK'
  BY <1>1, <1>2 DEF TypeOK
<1>6. StagesOK'
  BY <1>1, <1>2, <1>3, <1>4 DEF StagesOK, Returned, TypeOK
<1>7. Returned' <=> Returned
  BY <1>1, <1>3 DEF Returned
<1>8. PipesOK' /\ NothingLost'
  BY <1>1, <1>7 DEF PipesOK, NothingLost
<1>9. CompletedScannedAll'
  BY <1>1, <1>3 DEF CompletedScannedAll, PrintedLong
<1>10. LoopsOK'
  <2>1. CASE ScanTooLong(s)
    <3>1. pipe[s] \in Seq(Lines) /\ scanned[s] \in Seq(Lines) /\ pipe[s] # <<>> /\ Head(pipe[s]) = "long"
      BY <2>1 DEF ScanTooLong, TypeOK
    <3>2. ~Returned
      BY <3>1 DEF PipesOK
    <3>3. printed[s] = scanned[s] \o pipe[s]
      BY <3>2 DEF NothingLost
    <3>4. PrintedLong(s)
      BY <3>1, <3>3, HeadWasPrinted DEF PrintedLong
    <3> QED BY <1>1, <3>4 DEF LoopsOK, PrintedLong, Exited, TypeOK
  <2>2. CASE ScanEnds(s)
    <3>1. Exited /\ pipe[s] = <<>>
      BY <2>2 DEF ScanEnds
    <3> QED BY <1>1, <3>1 DEF LoopsOK, PrintedLong, Exited, TypeOK
  <2> QED BY <2>1, <2>2
<1> QED BY <1>5, <1>6, <1>8, <1>9, <1>10

LEMMA WaitStep ==
  ASSUME IInv, Wait
  PROVE  IInv'
<1> USE DEF IInv
<1>1. /\ run = "waiting" /\ Exited /\ ~Returned
      /\ run' \in {"completed", "failed"}
      /\ pipe' = [s \in Streams |-> <<>>]
      /\ UNCHANGED <<process, writing, printed, scanner, scanned>>
  BY DEF Wait, Returned
<1>2. <<>> \in Seq(Lines) /\ Len(<<>>) = 0
  BY EmptySeq
<1>3. TypeOK'
  BY <1>1, <1>2, SizeAssumption DEF TypeOK
<1>4. StagesOK' /\ PipesOK' /\ NothingLost'
  BY <1>1 DEF StagesOK, PipesOK, NothingLost, Returned, Exited
<1>5. LoopsOK'
  BY <1>1 DEF LoopsOK, PrintedLong, Exited
<1>6. CompletedScannedAll'
  <2>1. "stdout" \in Streams /\ scanner["stdout"] = "ended" /\ process # "none"
    BY <1>1 DEF StagesOK, Streams
  <2>2. PrintedLong("stdout") \/ pipe["stdout"] = <<>>
    BY <2>1 DEF LoopsOK
  <2>3. printed["stdout"] = scanned["stdout"] \o pipe["stdout"] /\ scanned["stdout"] \in Seq(Lines)
    BY <1>1, <2>1 DEF NothingLost, TypeOK
  <2>4. PrintedLong("stdout") \/ printed["stdout"] = scanned["stdout"]
    BY <2>2, <2>3, ConcatEmptySeq
  <2> QED BY <1>1, <2>4 DEF CompletedScannedAll, PrintedLong
<1> QED BY <1>3, <1>4, <1>5, <1>6

-----------------------------------------------------------------------------

LEMMA InvStep == IInv /\ [Next]_vars => IInv'
<1> SUFFICES ASSUME IInv, [Next]_vars PROVE IInv'
  OBVIOUS
<1>1. CASE Ytdlp
  BY <1>1, BeginLineStep, WriteLineStep, ExitStep DEF Ytdlp
<1>2. CASE Start \/ StartFails
  BY <1>2, StartStep
<1>3. ASSUME NEW s \in Streams, ScanStep(s) PROVE IInv'
  BY <1>3, ScanStepOK, EndLoopStep DEF ScanStep
<1>4. CASE Wait
  BY <1>4, WaitStep
<1>5. CASE UNCHANGED vars
  BY <1>5 DEF vars, IInv, TypeOK, StagesOK, PipesOK, NothingLost, LoopsOK, CompletedScannedAll,
              Returned, Exited, PrintedLong
<1> QED BY <1>1, <1>2, <1>3, <1>4, <1>5 DEF Next

\* The inductive invariant holds.  (worker.go:51-138)
THEOREM Invariance == Spec => []IInv
<1>1. Init => IInv
  BY InvInit
<1>2. IInv /\ [Next]_vars => IInv'
  BY InvStep
<1> QED BY <1>1, <1>2, PTL DEF Spec

\* No pipe ever holds more than it can.
THEOREM PipesTypeCorrect == Spec => []TypeOK
<1>1. IInv => TypeOK
  BY DEF IInv
<1> QED BY <1>1, Invariance, PTL

\* Only a line too long for a scanner can make yt-dlp and Run wait for each
\* other.  (worker.go:69-74, worker.go:79-123)
THEOREM OnlyLongLinesBlock == Spec => []BlockedOnlyByLongLine
<1>1. IInv => BlockedOnlyByLongLine
  <2> SUFFICES ASSUME IInv, NEW s \in Streams, NobodyReads(s) PROVE PrintedLong(s)
    BY DEF BlockedOnlyByLongLine
  <2>1. process = "running" /\ scanner[s] # "scanning"
    BY DEF NobodyReads
  <2> QED BY <2>1 DEF IInv, LoopsOK, Exited
<1> QED BY <1>1, Invariance, PTL

\* Run has handed on all of stdout when it reports success.  (worker.go:79-138)
THEOREM SuccessMeansAllRead == Spec => []CompletedScannedAll
<1>1. IInv => CompletedScannedAll
  BY DEF IInv
<1> QED BY <1>1, Invariance, PTL

=============================================================================
