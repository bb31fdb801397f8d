---------------------------- MODULE WorkerPipes ----------------------------
(***************************************************************************)
(* One call of worker.Run below the level of module Worker: the two pipes  *)
(* between yt-dlp and the server, the two scanners that empty them, and    *)
(* the order in which Run reads, waits and returns.  What a line says is   *)
(* module Worker's business; here it only matters whether it fits into the *)
(* buffer of a bufio.Scanner.  A pipe holds a bounded number of lines, and *)
(* a process that writes to a full pipe blocks until there is room.        *)
(*                                                                         *)
(* cmd.Wait waits for the process to exit and then closes the read ends of *)
(* both pipes, with whatever is still in them (package os/exec).  Run's    *)
(* context is context.Background(): nothing ever cancels it.               *)
(***************************************************************************)
EXTENDS Naturals, Sequences

CONSTANTS
  Lines,      \* the kinds of lines yt-dlp prints, among "text" and "long"
  Capacity,   \* how many lines fit into a pipe
  MaxLines    \* how many lines yt-dlp prints (bound)

\* A "long" line does not fit into bufio.MaxScanTokenSize (64 KiB).
ASSUME LinesAssumption == Lines \subseteq {"text", "long"}

ASSUME SizeAssumption == Capacity \in Nat \ {0} /\ MaxLines \in Nat

Streams == {"stdout", "stderr"}

VARIABLES
  run,       \* where Run is
  process,   \* the yt-dlp process
  writing,   \* the line yt-dlp is writing, to which stream; or Nothing
  printed,   \* history: the lines yt-dlp has written to each stream
  pipe,      \* the lines in each pipe
  scanner,   \* the scanner of each pipe: stdout's in Run, stderr's in a goroutine
  scanned    \* history: the lines each scanner has handed on

vars == <<run, process, writing, printed, pipe, scanner, scanned>>

Nothing == [to |-> "none", line |-> "none"]
Writing == [to : Streams, line : Lines]

TypeOK ==
  /\ run \in {"starting", "scanning", "waiting", "completed", "failed"}
  /\ process \in {"none", "running", "succeeded", "failed"}
  /\ writing \in Writing \union {Nothing}
  /\ printed \in [Streams -> Seq(Lines)]
  /\ pipe \in [Streams -> Seq(Lines)]
  /\ \A s \in Streams : Len(pipe[s]) <= Capacity
  /\ scanner \in [Streams -> {"none", "scanning", "ended"}]
  /\ scanned \in [Streams -> Seq(Lines)]

Init ==
  /\ run = "starting"
  /\ process = "none"
  /\ writing = Nothing
  /\ printed = [s \in Streams |-> <<>>]
  /\ pipe = [s \in Streams |-> <<>>]
  /\ scanner = [s \in Streams |-> "none"]
  /\ scanned = [s \in Streams |-> <<>>]

Exited   == process \in {"succeeded", "failed"}
Returned == run \in {"completed", "failed"}

-----------------------------------------------------------------------------
(* yt-dlp.                                                                 *)

\* It has another line to print, on either stream.
BeginLine(s, line) ==
  /\ process = "running"
  /\ writing = Nothing
  /\ Len(printed["stdout"]) + Len(printed["stderr"]) < MaxLines
  /\ writing' = [to |-> s, line |-> line]
  /\ UNCHANGED <<run, process, printed, pipe, scanner, scanned>>

\* There is room for the line in the pipe.
WriteLine(s) ==
  /\ writing.to = s
  /\ Len(pipe[s]) < Capacity
  /\ pipe' = [pipe EXCEPT ![s] = Append(@, writing.line)]
  /\ printed' = [printed EXCEPT ![s] = Append(@, writing.line)]
  /\ writing' = Nothing
  /\ UNCHANGED <<run, process, scanner, scanned>>

\* It exits, with code 0 or another, when it has nothing left to print.
Exit(code) ==
  /\ process = "running"
  /\ writing = Nothing
  /\ process' = code
  /\ UNCHANGED <<run, writing, printed, pipe, scanner, scanned>>

-----------------------------------------------------------------------------
(* Run, and the goroutine that drains stderr.                              *)

\* Mutant: nobody reads stderr.
StartUndrained ==
  /\ run = "starting"
  /\ run' = "scanning"
  /\ process' = "running"
  /\ scanner' = [scanner EXCEPT !["stdout"] = "scanning"]
  /\ UNCHANGED <<writing, printed, pipe, scanned>>

\* The pipes are open, cmd.Start succeeds, the goroutine is started.
Start ==
  /\ run = "starting"
  /\ run' = "scanning"
  /\ process' = "running"
  /\ scanner' = [s \in Streams |-> "scanning"]
  /\ UNCHANGED <<writing, printed, pipe, scanned>>

\* A pipe or the process could not be created.
StartFails ==
  /\ run = "starting"
  /\ run' = "failed"
  /\ UNCHANGED <<process, writing, printed, pipe, scanner, scanned>>

\* Mutant: the output is collected once yt-dlp has exited.
ScanAfterExit(s) ==
  /\ scanner[s] = "scanning"
  /\ Exited
  /\ pipe[s] # <<>>
  /\ Head(pipe[s]) = "text"
  /\ pipe' = [pipe EXCEPT ![s] = Tail(@)]
  /\ scanned' = [scanned EXCEPT ![s] = Append(@, "text")]
  /\ UNCHANGED <<run, process, writing, printed, scanner>>

\* Scan returns the next line, and it is handled or logged.
Scan(s) ==
  /\ scanner[s] = "scanning"
  /\ pipe[s] # <<>>
  /\ Head(pipe[s]) = "text"
  /\ pipe' = [pipe EXCEPT ![s] = Tail(@)]
  /\ scanned' = [scanned EXCEPT ![s] = Append(@, "text")]
  /\ UNCHANGED <<run, process, writing, printed, scanner>>

\* The loop over s is over; Run goes on to cmd.Wait.
EndLoop(s) ==
  /\ scanner[s] = "scanning"
  /\ scanner' = [scanner EXCEPT ![s] = "ended"]
  /\ run' = IF s = "stdout" THEN "waiting" ELSE run

\* Mutant: a long line is handed on in pieces.
ScanInPieces(s) ==
  /\ scanner[s] = "scanning"
  /\ pipe[s] # <<>>
  /\ Head(pipe[s]) = "long"
  /\ pipe' = [pipe EXCEPT ![s] = Tail(@)]
  /\ scanned' = [scanned EXCEPT ![s] = @ \o <<"piece", "piece">>]
  /\ UNCHANGED <<run, process, writing, printed, scanner>>

\* Scan returns false because the line does not fit into its buffer.  The rest
\* of the line, and all lines after it, stay in the pipe.
ScanTooLong(s) ==
  /\ pipe[s] # <<>>
  /\ Head(pipe[s]) = "long"
  /\ EndLoop(s)
  /\ UNCHANGED <<process, writing, printed, pipe, scanned>>

\* Scan returns false because yt-dlp has exited and the pipe is empty, or
\* because cmd.Wait has closed it.
ScanEnds(s) ==
  /\ Exited
  /\ pipe[s] = <<>>
  /\ EndLoop(s)
  /\ UNCHANGED <<process, writing, printed, pipe, scanned>>

\* Mutant: Run waits without having read to the end.
WaitEarly ==
  /\ run \in {"scanning", "waiting"}
  /\ Exited
  /\ run' = IF process = "succeeded" THEN "completed" ELSE "failed"
  /\ pipe' = [s \in Streams |-> <<>>]
  /\ scanner' = [scanner EXCEPT !["stdout"] = "ended"]
  /\ UNCHANGED <<process, writing, printed, scanned>>

\* cmd.Wait: the process has exited, its pipes are closed, and Run returns.
Wait ==
  /\ run = "waiting"
  /\ Exited
  /\ run' = IF process = "succeeded" THEN "completed" ELSE "failed"
  /\ pipe' = [s \in Streams |-> <<>>]
  /\ UNCHANGED <<process, writing, printed, scanner, scanned>>

-----------------------------------------------------------------------------

Ytdlp == \/ \E s \in Streams : WriteLine(s) \/ \E line \in Lines : BeginLine(s, line)
         \/ \E code \in {"succeeded", "failed"} : Exit(code)

ScanStep(s) == Scan(s) \/ ScanTooLong(s) \/ ScanEnds(s)

Next == Ytdlp \/ Start \/ StartFails \/ (\E s \in Streams : ScanStep(s)) \/ Wait

Spec == Init /\ [][Next]_vars

\* Goroutines run.  Of yt-dlp it is assumed that it gets on with its work as
\* long as it can write, and that its work has an end (the bound MaxLines).
Fairness == /\ WF_vars(Ytdlp)
            /\ WF_vars(Start \/ StartFails)
            /\ \A s \in Streams : WF_vars(ScanStep(s))
            /\ WF_vars(Wait)

FairSpec == Spec /\ Fairness

-----------------------------------------------------------------------------
(* Properties.                                                             *)

PrintedLong(s) == \E i \in DOMAIN printed[s] : printed[s][i] = "long"

\* yt-dlp never writes to a pipe that nobody will ever empty, unless it printed
\* a line there that ended the scanner's loop: then both wait for each other,
\* yt-dlp for room and Run for yt-dlp.  (worker.go:69-74, worker.go:79-123)
NobodyReads(s) == process = "running" /\ Len(pipe[s]) = Capacity /\ scanner[s] # "scanning"
BlockedOnlyByLongLine ==
  \A s \in Streams : writing.to = s /\ NobodyReads(s) => PrintedLong(s)

\* Run has handed on every line of stdout, in order, when it reports success;
\* a line too long for the scanner, and only that, makes it miss what follows.
\* (worker.go:79-138)
CompletedScannedAll ==
  run = "completed" /\ ~PrintedLong("stdout") => scanned["stdout"] = printed["stdout"]

\* Run returns, however little fits into the pipes and however the lines are
\* spread over them, if no line is too long for the scanners: a large output on
\* one stream cannot hold up the other.  (worker.go:33-138)
RunReturns == <>(Returned \/ \E s \in Streams : PrintedLong(s))

-----------------------------------------------------------------------------
(* What a comment says and the code does not do.                           *)

\* worker.go:68: stderr is drained and each line is logged.  Here: once Run has
\* returned and the goroutine has ended, every line of stderr was logged.
StderrIsLogged ==
  Returned /\ scanner["stderr"] = "ended" => scanned["stderr"] = printed["stderr"]

=============================================================================
