# media-downloader in TLA+

Models, model checks and proofs of the media downloader: a Go backend that runs
yt-dlp for the URLs posted to it and keeps one SQLite row per download, and a
React page that posts URLs and polls the list.

## 1. The system

| Part | Source | State | Operations |
|---|---|---|---|
| worker | `backend/worker/worker.go` | per call: title, filename and status gathered from the lines read so far; the yt-dlp process | start the process, read a line (progress, destination, extraction, anything else), wait; a callback for progress, extraction and success, an error otherwise |
| service | `backend/service/service.go` | one goroutine per accepted download; the map of channels (fixed) | `CreateDownload` (INSERT, then `go runDownload`), `runDownload` (worker.Run, callback writes the row, failure writes an error row), two reads |
| db | `backend/db/*` | the table `downloads` | INSERT … RETURNING, UPDATE by id, SELECT by id, SELECT by channel newest first |
| handler | `backend/handler/handler.go` | none | POST (404 unknown secret, 400 foreign URL, 500 failed INSERT, 202), three reads, health |
| main, config | `backend/main.go`, `backend/config/config.go` | the open database, the configuration | open, create the table if missing, serve |
| generated API server | `backend/api/oas_*` | per request: the status written; counters of requests and errors | route, decode, call the handler, encode, record |
| generated API client | `backend/api/oas_client_gen.go`, `oas_response_decoders_gen.go` | none | build the path, encode, send, decode (called by nothing in the repository) |
| channel page | `frontend/src/pages/ChannelPage.tsx`, `frontend/src/api/client.ts` | name, list on the screen, poll timer, request under way | load, poll, submit |
| yt-dlp, SQLite, browser, network | external | process and its pipe; the database file; timers; messages | exits when and how it likes; refuses a statement; fires timers; delays and loses answers |

How they interact: the page calls the handler over HTTP, through the mux of `main`
and the generated server, each request in a goroutine of its own; the handler calls the
service in the request's goroutine and under the request's context; the service
inserts the row and starts a goroutine; that goroutine and the yt-dlp process
are joined by a pipe; each callback is one UPDATE; the page reads the table
whenever its timer fires. Nothing but the table is shared between the requests
and the goroutines, and nothing but the table outlives the process.

What is hard here:

* the INSERT and the start of the goroutine are two steps, and the first one is
  bound to the life of the client's connection;
* every UPDATE may fail (the connection pool has no busy timeout, so a write that
  meets another connection's write is refused) and no failure is retried;
* the process may die between any two steps, and a restart only opens the table;
* yt-dlp's lines come in an order the code does not control, and what was read is
  carried from one line to the next;
* yt-dlp and `worker.Run` are joined by two pipes of bounded size, emptied by two
  scanners that give up on a line beyond their limit, and closed by `cmd.Wait`;
* requests overlap with each other and with the goroutines, a client may leave while
  its request is served, and a response may fail to be written after its header was;
* a secret may hold any character, so paths are escaped, normalised and unescaped by
  four pieces of code that must agree; two channels may have the same secret;
* the page's timer does not wait for answers, so answers overlap, overtake each
  other and overtake those of a POST.

What makes each part correct: a row always has the shape of its status (worker,
service); only the goroutine of a stored, unfinished download writes to it
(service); an answered POST is registered, in its channel (handler, service); a
download advances, ends once and stays (the whole backend, module `Lifecycle`);
every unfinished download is attended, and the end of yt-dlp is recorded
(service, without faults); Run returns and has read all of stdout (worker, pipes);
a call reaches the operation and the parameters it was made for, its answer comes
back as it was given, and what was announced stays found (generated code, handler);
one timer at most, nothing on the screen that the
server does not have, polling that ends, and ends only when it should (page).
`PROJECT.json` lists the hazards with their lines.

## 2. The modules

```
DownloadTypes            statuses, texts, nullString, completedAt
  ├── Downloads          the table and its two writing statements
  └── Worker             worker.Run and the yt-dlp process
        └── Service      (Downloads + Worker) requests, goroutines, crashes
              ├── MCService       instances for TLC
              └── ServiceProofs   theorems
WorkerPipes              one worker.Run with its pipes and scanners
  ├── MCWorkerPipes      instances for TLC
  └── WorkerPipesProofs  theorems
Lifecycle                what the backend promises of a download
  ├── (refined by Service:  LC == INSTANCE Lifecycle WITH status <- lifecycle)
  ├── ChannelPage        the page, over a backend that behaves as Lifecycle
  │     ├── MCChannelPage         instances for TLC
  │     └── ChannelPageProofs     theorems
  └── Api                calls of the API from client to table and back
        ├── MCApi        an instance for TLC
        └── ApiProofs    theorems
Routing                  mux, router, parameters, the clients' paths
Codec                    JSON, validation, bodies, responses
  ├── MessageProofs      theorems about one message: what was encoded is decoded,
  │     │                what was escaped is unescaped, a path is routed
  │     ├── Induction    induction over numbers and sequences, for a set
  │     └── FieldFold    what a fold over the fields of an object comes to
  ├── (both used by Api; ApiProofs uses MessageProofs)
  └── Wire               (Routing + Codec) one message at a time, against the
        │                API description
        ├── MCWire       an instance for TLC
        └── WireProofs   theorems (with MessageProofs)
```

**`Downloads`** — variable `rows`, a function from ids to rows, `Null` where there is
none. `CreateDownload` and `UpdateDownloadStatus` are the generated functions of
`queries.sql.go`; as in the SQL, the update overwrites every column it names, with
NULL where its parameter is NULL, and does nothing without a row. A timestamp is
kept as "set or not"; the url and `created_at` play no part.

**`Worker`** — variables `run` (where `worker.Run` is, and its locals `title`,
`filename`, `status`) and `ytdlp` (the process). A text is a model value, `""` until it
is known. Any line may come at any time while Run scans; the process may be over
before its last lines are read, and `cmd.Wait` returns only then. A destination
without a dot leaves the title alone and any line that matches nothing is skipped:
both are stuttering.

**`Service`** — adds `up` (the process) and `request` (for each id, how far the POST
that carries it has come, and its answer). Actions, in the order of the code:
`RefusePost`, `AcceptPost`, `InsertRow` or `InsertFails`, `StartGoroutine`, `Respond`
for the request; `LaunchYtdlp` or `LaunchFails`, `ProgressLine`, `DestinationLine`,
`ExtractAudioLine`, `Completes` or `Errs` for the goroutine; `YtdlpExits`; `Crash` and
`Restart`. A callback's UPDATE belongs to the step that makes it: Run does nothing
else until the callback returns, and the goroutine of a download is the only one
that writes its row, so no other step could see the difference. The constant
`Faults` says what may go wrong around the code: `"crash"`, `"dbwrite"` (a statement
is refused and changes nothing) and `"disconnect"` (the client leaves, which
cancels the INSERT before or after it took effect).

**`Lifecycle`** — the abstract specification: `status`, from `"absent"` through
`"pending"` forward to `"completed"` or `"error"`, statuses may be skipped, nothing
goes back, nothing disappears.

**`ChannelPage`** — `status` and `created` are the backend: `Report` and `Insert` are the
steps of `Lifecycle`, plus the order of the rows. The rest is the page: `phase`
(the channel's name is loading, known, unknown, failed), `shown` (`downloads`),
`ref` (`pollingRef.current`), `intervals` (live timers), `fetch` (the `listDownloads`
calls under way, each with the answer the server gave, once it has) and `post` (the
`createDownload` call). Each browser callback is one action: `LoadChannel`,
`LoadFails`, `Tick`, `ReceiveList`, `FetchFails`, `Submit`, `ReceivePost`, `PostFails`,
`Reload`. The history variable `overlapped` remembers that a request was sent while
another was under way; `Unreliable` lets requests and answers get lost.

**`WorkerPipes`** — the same `worker.Run` one level lower, for one call. Variables: where
Run is, the process, the line it is writing, and for stdout and stderr what was
printed, what is in the pipe, the scanner and what it has handed on. A pipe holds
`Capacity` lines and a writer blocks on a full one; a line is `"text"`, or `"long"` if it
is beyond `bufio.MaxScanTokenSize`, at which `Scan` gives up for good. Actions: `Start`,
`StartFails`, `Scan`, `ScanTooLong`, `ScanEnds` for each stream, `Wait`, which waits for
the exit and then closes both pipes with whatever is in them; `BeginLine`,
`WriteLine`, `Exit` for yt-dlp. What a line says is left to `Worker`.

**`Routing`** — operators only. A path is a sequence of tokens: `"/"`, `"%"` with the two
digits after it, and pieces of text. `Mux` is the `ServeMux` of `main`; `ServeHTTP` and
`FindPath` share the generated `Tree` and differ in when they unescape;
`decode…Params` are the parameter decoders; `BuildURL` is the generated client; `AppSecret`
and `PageURL` are the page, which takes its secret from the browser's `Location`, where it
is still escaped. `Described` is the reference, from the routes of `spec/main.tsp`: split the
path as it is on the wire, decode each segment once, compare.

**`Codec`** — operators only. A JSON value is a tagged tuple, an object keeps the order
and the repetitions of its fields. There is an encoder and a decoder for each type
(`ObjBytes` goes through the fields, `Require` is the bit mask), the validators, the
bodies with their content type and trailing data, and the five response encoders and
decoders. The reference is `Schema`, the models of `spec/main.tsp`, with `Enums`: `Meets` says
that every required field is there and every occurrence of a field has its type,
`Meaning` what the fields then say, `Allowed` that the statuses which count are members
of their enum. `ReadDocument` is what the code does with a body of one document: decode,
then validate. An enum is a string to the decoder and its members are looked at
afterwards, so of a field that is repeated only the last occurrence has to be a member.

**`Wire`** — one variable, the message: a request, a call of the client, a response of
the handler or a JSON document. One step picks it; the invariants compare.

**`Api`** — the composition. `calls` holds in each slot one call on its way through
`sent`, `handling`, `encoding`, `answered`, `done`; `status` is the table as `Lifecycle`
promises it (which `Service` implements), `facts` the columns that never change, `now`
the clock in seconds. The five `send…` operations and `OpenLink` are the clients, and
`SendRaw` a client that sends what neither of them would. `OpenLink` starts from the secret
of a link: the segment of its location, as the browser keeps it, is what the page takes
for the secret and escapes for its request. `requests` and `errors` are what the call adds
to the two counters of the server: each increment, with the status it carries.
`unwritten` remembers that the answer could not be written. Each `handle…Request` is three
steps, as the handler runs a statement between decoding and encoding: `Begins`
(mux, router, parameters, body, or a refusal: 415 for a body of another type, 400 for
anything else, a missing Content-Type included), the handler of that name, `Ends`
(the response is written and recorded). `Leave`, `Lose` and `StatementFails` are what
goes wrong around the code. The histories are `learned`, the latest status any client
was told of a download, and in each call `known`, what was told before it started.

An operator whose comment starts with "Mutant" is a plausible mistake in the
definition it stands before. No specification uses it; each one breaks a property,
which shows that the property depends on that piece of code.

## 3. What is checked

| Run | Instance | Result |
|---|---|---|
| `service_faults` | 2 downloads, 2 channels and an unknown secret, all faults, any number of crashes | `TypeOK`, `RowsWellFormed`, `WorkerOwnsLiveRow`, `AcceptedIsRegistered`, `RequestMatchesRow`, `RunMatchesRow`, and `RefinesLifecycle` hold |
| `service_quiet` | 2 downloads, no faults, fair | `UnfinishedIsAttended`, `EveryRowIsRun`, `ExitIsRecorded` hold |
| `service_crash`, `service_disconnect` | 1 download, one kind of fault each | `UnfinishedIsAttended` is violated: a row is left active with nobody to finish it |
| `worker_pipes` | up to 5 lines on 2 pipes that hold 2 each, long lines too, fair | `TypeOK`, `BlockedOnlyByLongLine`, `CompletedScannedAll`, `RunReturns` hold: only a line beyond 64 KiB can make Run and yt-dlp wait for each other |
| `worker_stderr` | up to 2 lines, none of them long | `StderrIsLogged` (worker.go:68) is violated: `cmd.Wait` closes the pipe before its last lines are read |
| `page_overlap` | 2 downloads, 2 fetches at once, lossy | `TypeOK`, `OneTimer`, `NeverAhead`, `ShownAdvances` hold |
| `page_fair` | 2 downloads, a fetch and a POST at once, lossy, fair | `PollingStops`, `EndIsShown` hold |
| `page_load` | 1 download | `PollsWhileActive` (docs/specification.md:407) is violated: loading the page never starts polling |
| `page_stale` | 1 download, 1 fetch overlapping the POST | `StopsWhenNoneRemain` (ChannelPage.tsx:45) is violated by a list that the POST overtook |
| `api_wire` | all paths of up to 4 segments out of 10 (5 below one channel), with 3 methods; calls with 8 texts as secret and id; every response of the handler; documents that differ in up to two fields from a complete or a minimal one, a status inside and outside the enum among them, and lists of up to two downloads, good and bad | `RequestsAreRouted`, `FindPathAgrees`, `CallsReachTheirOperation`, `ResponsesComeBack`, `DocumentsAreUnderstood` hold |
| `api_calls` | 3 calls, 2 at a time, 2 downloads, 4 channels of which two share a secret and one has a secret that is escaped in a path, links to both kinds, 2 seconds, 1 report, 1 fault | `TypeOK`, `ResponseReachesCaller`, `RecordIsTrue`, `ReadsFollowWhatWasTold`, `ToldIsStored`, `NewestFirst`, `LinkShowsWhereDownloadsGo` hold |

**Bounds.** Downloads do not influence each other except by being in the same table,
so one shows every history of a download and two show that actions on one leave
the other alone (the proofs cover any number). Two channels and an unknown secret
give every case of the secret check; one title, one file name and two percentages
suffice because only "known or not" and the status matter. Two fetches at once are
the least that can overtake each other, and with the POST under way three requests
race. There is no bound on crashes, on the lines of `Service` or on reloads. In
`worker_pipes` a pipe of two lines can be empty, half full and full, and five lines fill
both and leave one to block on. In `api_wire` a path of four segments is one longer than
the longest route but one, and five of them below a channel one longer than the
longest; the three escapes stand for a slash, a percent sign and a letter that need not
be escaped, and one segment is escaped twice. In `api_calls` two calls overlap and a third
starts after one of them was answered, which is what `ReadsFollowWhatWasTold` is about;
two seconds and two downloads are the least to be out of order. What "raw" sends
counts as the fault of a behaviour. Symmetry is used in the runs of invariants over
ids, channels, fetches and call slots, which nothing tells apart.

`CHECK_DEADLOCK FALSE` is set everywhere: a backend whose downloads have all ended
rests, and so may the page.

**What the properties say, where it is easily misread.** `RecordIsTrue` is an exact account of
each call when it is answered: a request for an operation is counted once, and as an error
if and only if the server refused it before the handler, the handler answered with
a 5xx, or the answer could not be written; both counters get the status that was sent, or
500 if the answer could not be written. A request for no operation counts nowhere. The
write of an answer fails in the model only for a client that has left, so no client
gets a second response: that hazard is `RecordIsTrue`'s, not `ResponseReachesCaller`'s.
`ReadsFollowWhatWasTold` is about calls with the download's own secret (see section 5).
`LinkShowsWhereDownloadsGo` starts at the link: whether a name is shown depends on the
segment of the location with its escapes, not on the secret of the link (section 5). `DocumentsAreUnderstood` compares decoder and validator together with the
description. `UnfinishedIsAttended` is checked without faults, and each of crash and
departing client is shown to break it; no run checks it under refused statements alone,
where a refused last UPDATE leaves an unfinished row without goroutine, too.
The invariants of `service_faults` are what remains then.

**Fairness.** `Service`: weak fairness of each request's handler and of each
`runDownload`'s next call, because the Go scheduler runs every runnable goroutine.
None for clients and none for yt-dlp, which may run for ever: the liveness
properties start from what has already happened (a row is stored, yt-dlp has
exited). `StartOrWait` being fair says that the lines left in the pipe of a process
that has exited come to an end. Liveness is claimed without faults only, since
with them it is false. `ChannelPage`: the timer fires again and again and the
backend answers; strong fairness for the timer, because the guards that delay it
in the model are the model's bounds, and for answers, because a network that may
lose any one answer does not lose them all.

`WorkerPipes`: weak fairness of every scanner, of Start and of Wait, because
goroutines run; and of yt-dlp, which is assumed here, unlike in `Service`, to go on
printing while there is room and to have an end, for the question is whether the
server can keep it from ending. `Wire` and `Api` claim no liveness.

**Overlapping requests.** `ShownAdvances` and `EndIsShown` speak of the page until the
first time a request is sent while another is under way: a user and a network faster
than the two-second timer. Beyond that they are false, as `page_stale` shows for the
worst of the consequences; the runs show that overlapping is the only cause, and
that losing requests is none.

## 4. What is proved

`ServiceProofs`, for any ids, secrets, channels, texts and faults:

* `TypeCorrect`, `RowsStayWellFormed`, `WorkersOwnLiveRows`, `AcceptedStaysRegistered`,
  `RequestsMatchRows`, `RunsMatchRows`: every safety invariant of `service_faults`;
* `ImplementsLifecycle`: `Spec => LC!Spec`, the refinement;
* `NothingUnattended`: with `Faults = {}`, `UnfinishedIsAttended`.

`ChannelPageProofs`, for any downloads and any number of fetches at once:

* `PageTypeCorrect`, `AtMostOneTimer`, `ListsNeverAhead`: the invariants of `page_overlap`;
* `ListAdvances`: its action property `ShownAdvances`.

`WorkerPipesProofs`, for pipes of any size and any lines:

* `PipesTypeCorrect`, `OnlyLongLinesBlock`, `SuccessMeansAllRead`: the invariants of
  `worker_pipes`.

`MessageProofs`, about the operators of `Routing` and `Codec`, for every input:

* `DownloadRoundTrip`, `ListRoundTrip`, `RequestRoundTrip`, `ResponseRoundTrip`: decoding
  undoes encoding, for every value a Go struct of the API can have and lists of any
  length;
* and, as lemmas, that unescaping undoes escaping for every text (`UnescapeSegment`,
  `SegmentUnescaped`), and that the mux and the router take the path of a call for that call
  (`CallArrives`, `PageArrives`).

`WireProofs`, for every request, call, response and document:

* `EveryRequestIsRouted`, `FindPathFindsTheSame`, `EveryCallArrives`,
  `EveryResponseComesBack`, `EveryDocumentIsUnderstood`: every invariant of `api_wire`, for
  paths, texts, lists and objects of any length.

`ApiProofs`, for any number of calls, downloads, channels, seconds and reports, any
configuration, and whatever "raw" sends:

* `ApiTypeCorrect`, `RecordsAreTrue`, `ResponsesReachCallers`, `ToldOnlyOfStored`,
  `ListsAreInOrder`, `ReadsFollow`, `LinksShowTheirChannel`: every invariant of `api_calls`.

The theorems about the service rest on the named assumptions of `DownloadTypes`,
`Downloads` and `Service`: `Null` is not a text and not a row, `""` is not a parsed text,
the configured secrets are among the possible ones, percentages are within 0..100. TLC
evaluates them in every run of `MCService`. `ChannelPage` assumes that `Unreliable` is a
Boolean (`FlagAssumption`), `WorkerPipes` that a line is one that fits a scanner or one
that does not (`LinesAssumption`), and that a pipe holds at least one (`SizeAssumption`).

`Routing` assumes that the tokens it names are tokens (`TokensAssumption`), `Codec` that
0 and 1 are in the range of int32 (`Int32Assumption`). `Wire` and `Api` assume of the
calls of the generated client that they are calls it can be asked for (`IsCall`):
any texts but the empty one, which the server refuses. Of the paths of requests `Wire`
assumes what `net/http` leaves (`PathsAssumption`): they start with a slash, and each
percent sign in them starts one of the escapes of `Routing`; nothing is assumed of
the segments, which may be empty or look like anything. Of the documents it assumes
that they are JSON values, for a type of the schema (`DocumentsAssumption`). A segment "." or "..", which
`ServeMux` would clean, is not told apart from other text. The secret of a link is any text;
the browser escapes in a location what has to be escaped (`Location`). Of the responses `Wire` assumes
what Go's types, the validators and the handler's status codes say (`IsResponse`); in `Api`
that is proved of what the handlers answer. `Api` further assumes finitely many ids
(`IdsAssumption`), a configuration that is a list of channels (`ConfigAssumption`), links
that are texts (`LinksAssumption`) and a clock that has a first second
(`TimesAssumption`). TLC evaluates them in the runs of `MCWire` and `MCApi`.

The argument. None of the invariants is inductive alone: that an UPDATE keeps the
shape of the row needs what Run's locals may be, that they agree with the row needs
to know who may write to it, and that the inserted row has a channel needs the
stage of the request. `Consistent(r, w, p, q)` puts this together as a relation
between the row, the goroutine, the process and the request of *one* download, and
`IInv` is `TypeOK` and `Consistent` for each of them; `IInvIsConjunction` shows that
`IInv` is exactly the conjunction of the invariants that `service_faults` checks.
`StepOnOne` says that a step that is well typed, leaves the other downloads alone
and leaves its own consistent keeps `IInv`; `InvStep` then has one step per action.
The two statements of package db are described once (`InsertEffect`, `StoreEffect`),
and the two ways of writing through them once each (`CallbackStep`, `ErrorStep`):
there, "stored or lost" is the case split that makes the invariants hold whichever
updates fail. For the refinement, `RankRises` shows that everything a worker may
report of an active row is a step forward, `StoreRefines` that storing it is a step
of `Lifecycle` or none. `NothingUnattended` adds the invariant `AllAttended`.

For the page, `IInv` is `TypeOK /\ OneTimer /\ NeverAhead`: none of the three is inductive
alone, since a list is only bounded by the table as long as the table's entries are
typed, and `clearInterval` only leaves no timer if `pollingRef` knew the only one.
`IInvParts` regroups it by what an action may change: the server, the timers, the
lists, the flags. `Behind(status, entries)` says that a list is not ahead of the table;
it survives a step of `Lifecycle` because ranks only rise (`StaysBehind`), so that every
answer, however late, stays true of the past. The actions of the page then only move
lists around (`FetchStep`, `PostActions`), and those of the timer only have to keep
`TimersOK` (`PollingSteps`).

`ListAdvances` needs one more invariant, `Alone`: as long as no two requests overlapped,
at most one is under way, and its answer, if it is a list, covers what the page shows
(`AnswersCover`) — the table still has every download shown, no less far on
(`TableCovers`), and nothing else can change the list before the answer arrives. A
POST's answer is put in front of the list and covers it by itself (`ConcatKeeps`).

For the pipes, `NothingLost` carries the argument: until Run returns, what yt-dlp printed
is what was handed on followed by what is in the pipe. A scanner that ends does so at a
line that is too long, which therefore was printed, or with the pipe empty after the
exit (`LoopsOK`); the first is the only way to block, and after the second, everything
printed was handed on. `StagesOK` says that Wait, which empties the pipes, comes after
stdout's loop.

For the messages, the recursions of the code are recursive functions in the model, and
what they compute for every input is proved by induction over a *set* (`SetInduction`,
`TextInduction`): the set stands for the predicate, which the provers can instantiate
where they cannot instantiate an operator. `EscapesExist`, `UnescapesExist` and
`FieldFold!ResultsFollow` first show that the recursion has a solution, so that the
`CHOOSE` behind a recursive function is one. For JSON, `FieldFold` proves once what one
more field does to a decoder, and `TextStep`, `NumberStep` and `OptStep` follow
`EncodeDownload` field by field, with what the decoder has assigned and seen so far
(`Reached`). For paths, an escaped segment has no slash and no bare percent sign, so
that the router cuts the path where the client joined it; whether it was looked at in
its escaped or its unescaped form (`ElemIsEscaped`) decides whether the parameter
decoder unescapes, and the lemmas show that in either case exactly one of the two does.

A document need not come from an encoder, so the induction is over any list of fields
(`FieldFold!FieldsRead`): after each of them, the struct has for every key the value of its
last occurrence so far, and the mask has the keys that occurred, or the decoder has
failed at one of the wrong type. `ReadIsMeaning` and `RequiredRead` turn this into `Meaning`
and `Meets`; `SingleUnderstood` and `DownloadUnderstood` do so for the two shapes of decoder,
and the list of downloads is a field whose elements are read by the second. The
validators then ask of the meaning exactly what `Allowed` asks.

A request's path need not come from a client either. `PathInduction` is the induction
over paths in which each percent sign starts an escape: a character or a whole escape
in front. `PathParsed` shows that `url.Parse` and `Elem` leave the router one of two forms of
the path (`Views`): the escapes that need not be there undone, or all of them, if
`url.Parse` finds that escaping again gives the path back (`Seen`). `PathSeen` is the heart: if the whole path is seen
in that form, so is each part between its slashes, and the form is the forms of the
parts joined (`FormLength`: a part that has its length back when its text is escaped
again hides no slash). So the tree, which is followed part by part (`TreeUnderApi`, `DownloadsTaken`, `IdTaken`),
cuts the form where `Segments`, the reference, cuts the path (`SegmentsOfPath`); a fixed
name is the same in both (`NameSeen`). `Agree` relates what the tree found to what the
description has for the segments (`RequestAgrees`), and `ArgumentRead` shows that the
parameter decoders and `FindPath`, each on its own condition, unescape an argument
exactly once.

For the calls, `IInv` is `TableOK` and, for each slot, `CallOK(call, status, facts, learned)`:
what is true of a call at its stage and of the table as it is now. `Counted` has, for each stage, what was recorded
so far and why, and is `RecordIsTrue` once the call is answered. `ResponseReachesCaller`
is not inductive, since it says nothing of a call before it is done; `Asking` says that the
message was taken for what was asked, `Truthful` that the answer is one of the
operation's responses and was true of the table, `Delivered` that nothing is written
after it while the client waits. `Frame` is the heart: what is true of an answer stays
true while the table grows (`Grown`), however long the reply travels. So a step of one
call has to show `CallOK` of that call alone (`OneCallSteps`), a step of the table only that
it loses nothing (`TableSteps`). `ReadsFollow` needs `Remembered`, that what was known when
the call was sent is no more than what is stored, and that a list has every row of its
channel (`SeqsOfSet`, by the pigeonhole principle). `LinksShowTheirChannel` needs that the
goroutine of a row got the channel `channels` has for its secret (`RowOK`), the one that
`GetChannelInfo` answers with, too (`ChannelAnswer`), duplicates in the configuration or not.

Only model-checked: the liveness properties (`EveryRowIsRun`, `ExitIsRecorded`,
`PollingStops`, `EndIsShown`, `RunReturns`), which need fairness and `ENABLED` and are
beyond the prover. Every invariant that a passing run checks, and both properties of
steps (`RefinesLifecycle`, `ShownAdvances`), are also the statements of theorems.

## 5. Where the documentation and the code differ

1. `docs/specification.md:258` — a row marked `downloading` is being downloaded. After a
   crash it may not be, and nothing repairs it (`service_crash`). A last update that the
   database refuses has the same effect; it is one of the faults of `service_faults`.
2. `docs/specification.md:85` — downloads do not depend on the browser staying
   connected. The INSERT does (`service_disconnect`): a client that leaves at that
   moment may leave a pending row that is never started.
3. `backend/worker/worker.go:68` — stderr is drained and each line logged. The last lines
   may not be (`worker_stderr`): nothing waits for the goroutine before `cmd.Wait` closes
   the pipe.
4. `docs/specification.md:407` — the page polls while a download is active. Not after
   loading the page (`page_load`).
5. `frontend/src/pages/ChannelPage.tsx:45` — polling stops when no active download
   remains. A list from before the POST stops it too (`page_stale`).

Four more that no run is spent on. `docs/specification.md:53` has the path `/{secret}` show
the page of that secret link (`README.md:55` of the repository says the same). `App.tsx:6`
takes the segment of the location as it is, still escaped, and `client.ts` escapes it once
more, so the server decodes the page's requests to a text that is not the secret, and
answers 404, or with another channel that has this text for its secret. That is what
`LinkShowsWhereDownloadsGo` and the last conjunct of `CallsReachTheirOperation` say, and
`api_calls` has a link with a percent sign for it; a slash, a space or a letter beyond
ASCII in a secret does the same.

`docs/specification.md:7` and `:86` make each secret link a page of its own, and the secret
the only authentication; `GetDownload` of `backend/service/service.go:42` looks an id up
whatever channel it is in, so that a download is found under every configured
secret. The properties do not depend on it: they ask that it be found under its own.

The status diagram of `docs/specification.md:249-253` has no arrow from pending to
error or to completed, nor from downloading to completed; the code takes all three, and
`Lifecycle` allows them. And a request that
the generated server refuses before the handler (`Decode` in `Api`) is answered by
ogen's default error handler with `{"error_message": …}`, which is no `ErrorResponse` of
`spec/main.tsp:54-56`: the generated client reports a body it cannot decode.

## 6. What is not modelled

* The text of yt-dlp's lines, and which hosts a URL may name: what the regular
  expressions and `isValidYouTubeURL` tell apart is a choice or a constant.
* `ParseProgress`, which only its test calls, and the encoders' spans, metrics other than
  the two counters, options and middleware of the generated code (none is used).
* Timestamps beyond "set" and the second of `created_at`; a fraction of a second
  is cut off by the code itself.
* Unicode and invalid UTF-8 in paths and JSON; the content type's parameters; the
  width of int32 (the constant `Int32` is its range, scaled down).
* The choice of a static file by `spaHandler`, the reading of the configuration, flags,
  logging, rendering, deployment files and test scripts: I/O without state.
* A panic of a handler or a goroutine: the code has no recovery of its own, so it is
  either `net/http`'s (the connection closes, as in `Lose`) or the end of the process
  (`Crash`).

## 7. Plan

Nothing is left of the first plan: every component that keeps state or takes a message
apart is modelled, and what could be proved about it is. What would come next follows
the code: an operation added to `spec/main.tsp` needs a row in `Template` and `Method`, a
leaf in `Tree`, a codec, and a case in `FitsEach`, `Agree` and `ResponseRoundTrip`; a status
added to the table, an arrow in `Lifecycle`.
