------------------------------- MODULE Worker -------------------------------
(***************************************************************************)
(* Package worker: worker.Run, one call per download, each on a goroutine  *)
(* of its own, and the yt-dlp process it starts.                           *)
(*                                                                         *)
(* Run reads the lines of yt-dlp's stdout in order and keeps what they     *)
(* said in three local variables.  The process runs ahead of the reader    *)
(* (a pipe lies between them), so a line may still be read after the       *)
(* process has exited, and Run sees the exit only after the last line.     *)
(* The lines come in any order: a playlist URL passes the URL check and    *)
(* makes yt-dlp go through destination, progress and extraction lines once *)
(* per entry.  Run's context is never cancelled and has no deadline.       *)
(*                                                                         *)
(* The actions change Run's own state only; what Run hands to its callback *)
(* in the same step is given by the *Update operators, and the module that *)
(* composes the two (Service) says what the callback does with it.         *)
(***************************************************************************)
EXTENDS DownloadTypes

VARIABLES
  run,    \* the goroutine of each download: where it is and Run's locals
  ytdlp   \* the yt-dlp process of each download

RunState == [pc       : {"idle", "spawned", "scanning", "returned"},
             title    : GoText(Titles),
             filename : GoText(Filenames),
             status   : {"downloading", "converting"}]

ProcessState == {"none", "running", "succeeded", "failed"}

WorkerTypeOK == /\ run \in [Ids -> RunState]
                /\ ytdlp \in [Ids -> ProcessState]

\* The values of Run's locals before the first line.
FreshRun(pc) == [pc |-> pc, title |-> "", filename |-> "", status |-> "downloading"]

WorkerInit == /\ run = [d \in Ids |-> FreshRun("idle")]
              /\ ytdlp = [d \in Ids |-> "none"]

\* The goroutine of d exists and has not returned.
Working(d) == run[d].pc \in {"spawned", "scanning"}

\* The process of d is over, and its exit code waits for cmd.Wait.
Exited(d) == ytdlp[d] \in {"succeeded", "failed"}

-----------------------------------------------------------------------------
(* What Run passes to its callback.                                        *)

ProgressUpdate(w, progress) ==
  [title |-> w.title, status |-> w.status, progress |-> progress,
   filename |-> w.filename]

CompletedUpdate(w) ==
  [title |-> w.title, status |-> "completed", progress |-> 100,
   filename |-> w.filename]

-----------------------------------------------------------------------------
(* The steps of Run.                                                       *)

\* go runDownload(...): the goroutine exists, worker.Run is about to start.
Spawn(d) ==
  /\ run[d].pc = "idle"
  /\ run' = [run EXCEPT ![d] = FreshRun("spawned")]
  /\ UNCHANGED ytdlp

\* The pipes are open and cmd.Start succeeded.
StartProcess(d) ==
  /\ run[d].pc = "spawned"
  /\ run' = [run EXCEPT ![d].pc = "scanning"]
  /\ ytdlp' = [ytdlp EXCEPT ![d] = "running"]

\* A pipe or the process could not be created: Run returns the error.
StartFails(d) ==
  /\ run[d].pc = "spawned"
  /\ run' = [run EXCEPT ![d] = FreshRun("returned")]
  /\ UNCHANGED ytdlp

\* A "[download]  nn.n%" line: reported with what is known so far.
ReadProgress(d) ==
  /\ run[d].pc = "scanning"
  /\ UNCHANGED <<run, ytdlp>>

\* Mutant: every destination line starts a new item.
ReadDestinationPerItem(d, title) ==
  /\ run[d].pc = "scanning"
  /\ run' = [run EXCEPT ![d].title = title, ![d].status = "downloading"]
  /\ UNCHANGED ytdlp

\* A "[download] Destination:" line: its base name up to the last dot is the
\* title; a name without a dot leaves the title as it was.  No callback.
ReadDestination(d, title) ==
  /\ run[d].pc = "scanning"
  /\ run' = [run EXCEPT ![d].title = title]
  /\ UNCHANGED ytdlp

\* An "[ExtractAudio] Destination:" line: its base name is the file name, and
\* the status is "converting" from here on, whatever lines follow.
ReadExtractAudio(d, filename) ==
  /\ run[d].pc = "scanning"
  /\ run' = [run EXCEPT ![d].filename = filename, ![d].status = "converting"]
  /\ UNCHANGED ytdlp

\* cmd.Wait after the last line: Run returns nil or the exit error.
WaitReturns(d, exit) ==
  /\ run[d].pc = "scanning"
  /\ ytdlp[d] = exit
  /\ run' = [run EXCEPT ![d] = FreshRun("returned")]
  /\ UNCHANGED ytdlp

\* The process ends by itself, with exit code 0 or another.
ProcessExits(d) ==
  /\ ytdlp[d] = "running"
  /\ \E exit \in {"succeeded", "failed"} : ytdlp' = [ytdlp EXCEPT ![d] = exit]
  /\ UNCHANGED run

=============================================================================
