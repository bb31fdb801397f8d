------------------------------ MODULE Service ------------------------------
(***************************************************************************)
(* The running backend: POST /api/{secret}/downloads from the handler      *)
(* through service.CreateDownload and the runDownload goroutine it starts, *)
(* over the table of module Downloads and the worker of module Worker, in  *)
(* one server process that main.go starts and that may die at any point.   *)
(*                                                                         *)
(* Faults names what may go wrong around the code:                         *)
(*   "crash"       the process (and the yt-dlp processes with it, which    *)
(*                 live in its container) dies and is started again;       *)
(*   "dbwrite"     a statement fails and changes nothing: main.go opens    *)
(*                 SQLite with a pool of connections and no busy timeout,  *)
(*                 so a write that meets another one is refused at once;   *)
(*   "disconnect"  the client goes away, which cancels the context the     *)
(*                 INSERT runs under.                                      *)
(***************************************************************************)
EXTENDS Downloads, Worker

CONSTANT Faults

ASSUME FaultAssumption == Faults \subseteq {"crash", "dbwrite", "disconnect"}

VARIABLES
  up,        \* the server process is running
  request    \* the POST that carries each id: its progress and its answer

vars == <<rows, run, ytdlp, up, request>>

Stages == {"none", "inserting", "inserted", "responding", "done"}

\* The handler's answers: statuses 202, 400, 404 and 500.  "badRequest" also stands for
\* a body that is refused before the handler sees it (400 or 415, see Api).
Answers == {"none", "accepted", "badRequest", "notFound", "failed"}

Request == [stage : Stages, secret : SqlText(Secrets), answer : Answers]

TypeOK == /\ RowsTypeOK
          /\ WorkerTypeOK
          /\ up \in BOOLEAN
          /\ request \in [Ids -> Request]

Init == /\ RowsInit
        /\ WorkerInit
        /\ up = TRUE
        /\ request = [d \in Ids |-> [stage |-> "none", secret |-> Null, answer |-> "none"]]

\* The request of d moves to another stage.
Proceed(d, from, to) == /\ up
                        /\ request[d].stage = from
                        /\ request' = [request EXCEPT ![d].stage = to]

\* The request of d is answered.
Answer(d, from, answer) ==
  /\ up
  /\ request[d].stage = from
  /\ request' = [request EXCEPT ![d].stage = "done", ![d].answer = answer]

-----------------------------------------------------------------------------
(* handler.CreateDownload and service.CreateDownload.                      *)

\* A body that does not decode is refused by the generated server, whatever the
\* secret; then the handler refuses an unknown secret, then a URL of another host.
RefusePost(d, secret, answer) ==
  /\ up
  /\ request[d].stage = "none"
  /\ \/ secret \notin Channels /\ answer = "notFound"
     \/ answer = "badRequest"
  /\ request' = [request EXCEPT ![d] = [stage |-> "done", secret |-> secret, answer |-> answer]]
  /\ UNCHANGED <<rows, run, ytdlp, up>>

\* Mutant: the goroutine is started before the row is inserted.
AcceptPostEager(d, secret) ==
  /\ up
  /\ request[d].stage = "none"
  /\ secret \in Channels
  /\ request' = [request EXCEPT ![d] = [stage |-> "inserting", secret |-> secret, answer |-> "none"]]
  /\ Spawn(d)
  /\ UNCHANGED <<rows, up>>

\* Handler: known secret and valid URL.  The service draws the id d.
AcceptPost(d, secret) ==
  /\ up
  /\ request[d].stage = "none"
  /\ secret \in Channels
  /\ request' = [request EXCEPT ![d] = [stage |-> "inserting", secret |-> secret, answer |-> "none"]]
  /\ UNCHANGED <<rows, run, ytdlp, up>>

\* The INSERT ... RETURNING succeeds and its row is scanned.
InsertRow(d) ==
  /\ Proceed(d, "inserting", "inserted")
  /\ CreateDownload(d, request[d].secret)
  /\ UNCHANGED <<run, ytdlp, up>>

\* Mutant: the error of the INSERT is not looked at.
InsertFailsUnnoticed(d) ==
  /\ Proceed(d, "inserting", "inserted")
  /\ "dbwrite" \in Faults
  /\ UNCHANGED <<rows, run, ytdlp, up>>

\* The INSERT fails: the error is answered with 500 and nothing is started.
\* A context cancelled by the client's departure may interrupt the statement,
\* or reach database/sql after SQLite stored the row and before Scan read it.
InsertFails(d) ==
  /\ Answer(d, "inserting", "failed")
  /\ \/ /\ Faults \intersect {"dbwrite", "disconnect"} # {}
        /\ UNCHANGED rows
     \/ /\ "disconnect" \in Faults
        /\ CreateDownload(d, request[d].secret)
  /\ UNCHANGED <<run, ytdlp, up>>

\* Mutant: the go statement is missing.
StartGoroutineForgotten(d) ==
  /\ Proceed(d, "inserted", "responding")
  /\ UNCHANGED <<rows, run, ytdlp, up>>

\* go s.runDownload(ch, download)
StartGoroutine(d) ==
  /\ Proceed(d, "inserted", "responding")
  /\ Spawn(d)
  /\ UNCHANGED <<rows, up>>

\* The inserted row, as it was returned, is encoded with status 202.
Respond(d) ==
  /\ Answer(d, "responding", "accepted")
  /\ UNCHANGED <<rows, run, ytdlp, up>>

-----------------------------------------------------------------------------
(* runDownload: worker.Run with the database callback.                     *)

\* One UpdateDownloadStatus.  Its error is logged and nothing else.
Store(d, u) ==
  \/ UpdateDownloadStatus(d, u)
  \/ "dbwrite" \in Faults /\ UNCHANGED rows

\* What the callback stores: Run's update u, its texts made nullable, no error.
CallbackParams(u) ==
  [status |-> u.status, progress |-> u.progress,
   title |-> nullString(u.title), filename |-> nullString(u.filename),
   error |-> Null, completedAt |-> completedAt(u.status)]

\* What is stored when Run returns an error: title and filename are left out
\* of the parameters, so the statement overwrites them with NULL.
ErrorParams(text) ==
  [status |-> "error", progress |-> 0, title |-> Null, filename |-> Null,
   error |-> text, completedAt |-> completedAt("error")]

Callback(d, u) == Store(d, CallbackParams(u))

StoreError(d, text) == Store(d, ErrorParams(text))

LaunchYtdlp(d) ==
  /\ StartProcess(d)
  /\ UNCHANGED <<rows, up, request>>

\* Mutant: a start error is only logged.
LaunchFailsUnreported(d) ==
  /\ StartFails(d)
  /\ UNCHANGED <<rows, up, request>>

LaunchFails(d) ==
  /\ StartFails(d)
  /\ StoreError(d, "start yt-dlp")
  /\ UNCHANGED <<up, request>>

ProgressLine(d, pct) ==
  /\ ReadProgress(d)
  /\ Callback(d, ProgressUpdate(run[d], pct))
  /\ UNCHANGED <<up, request>>

DestinationLine(d, title) ==
  /\ ReadDestination(d, title)
  /\ UNCHANGED <<rows, up, request>>

ExtractAudioLine(d, filename) ==
  /\ ReadExtractAudio(d, filename)
  /\ Callback(d, ProgressUpdate(run'[d], 99))
  /\ UNCHANGED <<up, request>>

Completes(d) ==
  /\ WaitReturns(d, "succeeded")
  /\ Callback(d, CompletedUpdate(run[d]))
  /\ UNCHANGED <<up, request>>

\* Mutant: the exit code of yt-dlp is ignored.
ErrsAsCompleted(d) ==
  /\ WaitReturns(d, "failed")
  /\ Callback(d, CompletedUpdate(run[d]))
  /\ UNCHANGED <<up, request>>

Errs(d) ==
  /\ WaitReturns(d, "failed")
  /\ StoreError(d, "yt-dlp exited with error")
  /\ UNCHANGED <<up, request>>

YtdlpExits(d) ==
  /\ ProcessExits(d)
  /\ UNCHANGED <<rows, up, request>>

-----------------------------------------------------------------------------
(* The server process.                                                     *)

\* Goroutines, open requests and child processes vanish; the table stays.
Crash ==
  /\ up
  /\ "crash" \in Faults
  /\ up' = FALSE
  /\ run' = [d \in Ids |-> FreshRun("idle")]
  /\ ytdlp' = [d \in Ids |-> "none"]
  /\ request' = [d \in Ids |-> [request[d] EXCEPT !.stage = IF @ = "none" THEN @ ELSE "done"]]
  /\ UNCHANGED rows

\* Mutant: every stored download is started again, finished or not.
RestartRunsAll ==
  /\ ~up
  /\ up' = TRUE
  /\ run' = [d \in Ids |-> IF rows[d] = Null THEN run[d] ELSE FreshRun("spawned")]
  /\ UNCHANGED <<rows, ytdlp, request>>

\* Mutant: unfinished downloads are queued again.
RestartRequeues ==
  /\ ~up
  /\ up' = TRUE
  /\ rows' = [d \in Ids |-> IF rows[d] # Null /\ rows[d].status \in Active
                            THEN [rows[d] EXCEPT !.status = "pending"] ELSE rows[d]]
  /\ UNCHANGED <<run, ytdlp, request>>

\* main: the schema is CREATE ... IF NOT EXISTS, so the rows stay, and nothing
\* looks for rows that an earlier process left unfinished.
Restart ==
  /\ ~up
  /\ up' = TRUE
  /\ UNCHANGED <<rows, run, ytdlp, request>>

-----------------------------------------------------------------------------

\* What the handler and the service do for a request with a YouTube URL.
HandlePost(d) == InsertRow(d) \/ InsertFails(d) \/ StartGoroutine(d) \/ Respond(d)

ReadLine(d) ==
  \/ \E pct \in Percentages : ProgressLine(d, pct)
  \/ \E title \in Titles : DestinationLine(d, title)
  \/ \E filename \in Filenames : ExtractAudioLine(d, filename)

StartOrWait(d) == LaunchYtdlp(d) \/ LaunchFails(d) \/ Completes(d) \/ Errs(d)

\* A body arrives: it decodes and is taken on, or it is refused.
ReceivePost(d) ==
  \E secret \in Secrets :
    \/ AcceptPost(d, secret)
    \/ \E answer \in {"badRequest", "notFound"} : RefusePost(d, secret, answer)

Next ==
  \/ \E d \in Ids : \/ ReceivePost(d)
                    \/ HandlePost(d)
                    \/ StartOrWait(d)
                    \/ ReadLine(d)
                    \/ YtdlpExits(d)
  \/ Crash
  \/ Restart

Spec == Init /\ [][Next]_vars

\* The Go scheduler runs every runnable goroutine: handlers get on with their
\* request, and runDownload with its next call.  Nothing is assumed of clients
\* or of yt-dlp, which may run forever.
Fairness == \A d \in Ids : WF_vars(HandlePost(d)) /\ WF_vars(StartOrWait(d))

FairSpec == Spec /\ Fairness

-----------------------------------------------------------------------------
(* Safety.                                                                 *)

\* Each status has its own shape of row, whatever lines yt-dlp printed and
\* whichever writes were lost: the page shows a file name, an error text or a
\* progress bar by the status alone.  (service.go:78-103, worker.go:76-136)
RowShape(r) ==
  /\ r.completedAt <=> r.status \in Terminal
  /\ r.error # Null <=> r.status = "error"
  /\ r.status = "pending" => r.progress = 0 /\ r.title = Null /\ r.filename = Null
  /\ r.status = "downloading" => r.filename = Null
  /\ r.status = "converting" => r.filename # Null
  /\ r.status = "completed" => r.progress = 100
  /\ r.status = "error" => r.progress = 0 /\ r.title = Null /\ r.filename = Null

RowsWellFormed == \A d \in Ids : rows[d] # Null => RowShape(rows[d])

\* A goroutine only ever works on a registered download that is not finished:
\* no second worker, none left over after the last update, none revived by a
\* restart.  (service.go:69, service.go:74-105)
WorkerOwnsLiveRow ==
  \A d \in Ids : Working(d) => rows[d] # Null /\ rows[d].status \in Active

\* A client that was answered 202 finds its download in the channel it posted
\* to, for ever after, whatever crashes and failed writes follow.
\* (handler.go:92-98, service.go:58-71)
AcceptedIsRegistered ==
  \A d \in Ids : request[d].answer = "accepted" =>
    /\ rows[d] # Null
    /\ rows[d].channel = request[d].secret
    /\ rows[d].channel \in Channels

\* The POST and its row agree at every stage: nothing runs for a download whose
\* row is not stored yet, the row between INSERT and "go" is untouched, and the
\* handler answers from a row of its own channel.  (service.go:52-71)
RequestMatchesRow ==
  \A d \in Ids :
    /\ request[d].stage \in {"none", "inserting"} => rows[d] = Null
    /\ request[d].stage \in {"none", "inserting", "inserted"} =>
         run[d].pc = "idle" /\ ytdlp[d] = "none"
    /\ request[d].stage = "inserted" => rows[d] # Null /\ rows[d].status = "pending"
    /\ request[d].stage \in {"inserted", "responding"} =>
         rows[d] # Null /\ rows[d].channel = request[d].secret
    /\ request[d].stage \in {"inserting", "inserted", "responding"} =>
         request[d].secret \in Channels
    /\ request[d].answer = "accepted" => request[d].stage = "done"

\* Run's locals are never behind the row they are written to, though updates
\* may be lost and extraction may come before any progress: the next update
\* cannot take the row back.  (worker.go:76-121, service.go:78-91)
RunMatchesRow ==
  \A d \in Ids : Working(d) =>
    /\ run[d].status = "downloading" =>
         run[d].filename = "" /\ (rows[d] # Null => rows[d].status # "converting")
    /\ run[d].status = "converting" => run[d].filename # ""
    /\ run[d].pc = "spawned" => rows[d] # Null /\ rows[d].status = "pending"

\* The backend implements the abstract life of a download.
lifecycle == [d \in Ids |-> IF rows[d] = Null THEN "absent" ELSE rows[d].status]

LC == INSTANCE Lifecycle WITH status <- lifecycle

RefinesLifecycle == LC!Spec

\* Every unfinished download has somebody to finish it: its goroutine is
\* alive, or its POST has stored the row and is about to start it.  Holds as
\* long as nothing fails around the code; each of the faults alone breaks it:
\* nothing looks for unattended rows afterwards.  (main.go:64, service.go:52-71)
UnfinishedIsAttended ==
  up => \A d \in Ids : rows[d] # Null /\ rows[d].status \in Active =>
          Working(d) \/ request[d].stage = "inserted"

-----------------------------------------------------------------------------
(* Liveness, under FairSpec and without faults.                            *)

\* Whatever is registered is really run: yt-dlp starts or the row says why not.
EveryRowIsRun ==
  \A d \in Ids :
    rows[d] # Null ~> \/ ytdlp[d] # "none"
                      \/ rows[d] # Null /\ rows[d].status = "error"

\* The way yt-dlp ended is what the row says in the end.  (worker.go:125-136,
\* service.go:93-104)
ExitIsRecorded ==
  \A d \in Ids :
    /\ (run[d].pc = "scanning" /\ ytdlp[d] = "succeeded")
         ~> (rows[d] # Null /\ rows[d].status = "completed")
    /\ (run[d].pc = "scanning" /\ ytdlp[d] = "failed")
         ~> (rows[d] # Null /\ rows[d].status = "error")

=============================================================================
