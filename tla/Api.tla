-------------------------------- MODULE Api --------------------------------
(***************************************************************************)
(* Calls of the API from end to end: a client sends a request, main.go's   *)
(* mux and the generated server find its operation and decode it, the      *)
(* handler reads or changes the table, and the response travels back to    *)
(* the client, which decodes it.  Calls overlap, each in a goroutine of    *)
(* its own, while downloads advance as module Lifecycle promises.          *)
(*                                                                         *)
(* Three clients: "go" is the one ogen generated, "page" opens the link of *)
(* a channel in a browser, "raw" sends what neither of them would.         *)
(***************************************************************************)
EXTENDS Routing, Codec

CONSTANTS
  Calls,        \* slots: as many calls at a time
  Ids,          \* the uuids the service draws (texts)
  Config,       \* cfg.Channels: a sequence of [secret, name]
  Asked,        \* the calls of "go": records [op, params, url]
  Links,        \* the secrets of the links "page" opens
  RawMessages,  \* the requests "raw" sends
  YouTube,      \* the URLs isValidYouTubeURL takes
  Times,        \* the clock, as the texts of its seconds in order
  MaxCalls, MaxReports, MaxFaults,   \* bounds: how often each may happen
  Reported      \* bound: the statuses the goroutines report

ASSUME IdsAssumption == IsFiniteSet(Ids)

ASSUME ConfigAssumption ==
  /\ Len(Config) \in Nat
  /\ Config = [i \in 1..Len(Config) |-> [secret |-> Config[i].secret, name |-> Config[i].name]]

ASSUME AskedAssumption == \A asked \in Asked : IsCall(asked.op, asked.params)

ASSUME LinksAssumption == Links \subseteq Texts

ASSUME TimesAssumption == Times \in Seq(DateTimes) /\ Times # <<>>

VARIABLES
  calls,    \* the call in each slot
  status,   \* Lifecycle's view of the table
  facts,    \* the columns an INSERT sets once and for all, and the channel used
  now,      \* the current second
  learned,  \* history: the latest status any client was told of each download
  used      \* what has been used up of the bounds

vars == <<calls, status, facts, now, learned, used>>

LC == INSTANCE Lifecycle

Nothing == [kind |-> "nothing"]

Idle == [stage |-> "idle"]

Init == /\ calls = [c \in Calls |-> Idle]
        /\ LC!Init
        /\ facts = [d \in Ids |-> Nothing]
        /\ now = 1
        /\ learned = status
        /\ used = [calls |-> 0, reports |-> 0, faults |-> 0]

Rows == {d \in Ids : status[d] # "absent"}

\* Something goes wrong around the code.
Fault == used.faults < MaxFaults /\ used' = [used EXCEPT !.faults = @ + 1]

At(c, stage) == calls[c].stage = stage

\* The call in slot c becomes this record.
Becomes(c, call) == calls' = [calls EXCEPT ![c] = call]

-----------------------------------------------------------------------------
(* The clients.                                                            *)

\* A call on its way: what was asked for, the message, and what was known.  The two
\* counters have the statuses they were increased with.
Sent(client, asked, message) ==
  [stage |-> "sent", client |-> client, asked |-> asked, message |-> message, known |-> learned,
   decoded |-> Nothing, response |-> Nothing, reply |-> Nothing, unwritten |-> FALSE, recorded |-> 0,
   requests |-> <<>>, errors |-> <<>>, left |-> FALSE, faulty |-> FALSE, result |-> Nothing]

Start(c, client, asked, message) ==
  /\ used.calls < MaxCalls
  /\ used' = [used EXCEPT !.calls = @ + 1, !.faults = @ + (IF client = "raw" THEN 1 ELSE 0)]
  /\ At(c, "idle") \/ At(c, "done")
  /\ Becomes(c, Sent(client, asked, message))
  /\ UNCHANGED <<status, facts, now, learned>>

\* No Content-Type.
NoType == ""

\* A message without a body.
Bare(method, path) == [method |-> method, path |-> path, type |-> NoType, body |-> <<>>]

Get(c, op, asked) == /\ asked.op = op
                     /\ Start(c, "go", asked, Bare("GET", BuildURL(op, asked.params)))

sendHealthcheck(c, asked)    == Get(c, "healthcheck", asked)
sendGetChannelInfo(c, asked) == Get(c, "getChannelInfo", asked)
sendListDownloads(c, asked)  == Get(c, "listDownloads", asked)
sendGetDownload(c, asked)    == Get(c, "getDownload", asked)

sendCreateDownload(c, asked) ==
  LET request == encodeCreateDownloadRequest([url |-> asked.url])
  IN /\ asked.op = "createDownload"
     /\ Start(c, "go", asked, [method |-> "POST", path |-> BuildURL("createDownload", asked.params),
                               type |-> request.type, body |-> request.body])

\* The user opens the link of a secret.  App.tsx takes a segment of its location
\* for the secret, and the page asks for the channel of that.
OpenLink(c, secret) ==
  LET segment == AppSecret(Location(secret))
  IN /\ Mux(Location(secret)) = "page"
     /\ Start(c, "page", [op |-> "getChannelInfo", params |-> [secret |-> segment], link |-> secret],
              Bare("GET", PageURL(segment)))

SendRaw(c, message) == used.faults < MaxFaults /\ Start(c, "raw", [op |-> "none"], message)

\* The client stops waiting while its request is served.
Leave(c) ==
  /\ At(c, "handling") \/ At(c, "encoding")
  /\ ~calls[c].left
  /\ Fault
  /\ Becomes(c, [calls[c] EXCEPT !.left = TRUE])
  /\ UNCHANGED <<status, facts, now, learned>>

\* The connection breaks before the request arrives, or before the reply does.
Lose(c) ==
  /\ At(c, "sent") \/ At(c, "answered")
  /\ Fault
  /\ Becomes(c, Idle)
  /\ UNCHANGED <<status, facts, now, learned>>

\* Nobody waits for the reply, or it goes to "raw", of which nothing is said.
Discard(c) ==
  /\ At(c, "answered")
  /\ calls[c].left \/ calls[c].client = "raw"
  /\ Becomes(c, Idle)
  /\ UNCHANGED <<status, facts, now, learned, used>>

\* client.ts getChannelInfo: null for 404, an exception for another error.
PageResult(reply) ==
  IF reply.status = 404 THEN Ok(Nothing)
  ELSE IF reply.status = 200 THEN Ok(Response("ChannelInfoResponse", DecodeChannelInfoResponse(reply.body[1]).value))
  ELSE Fail

\* The downloads a client is told of.
Told(result) ==
  IF ~result.ok THEN {}
  ELSE IF result.value.goType = "Download" THEN {result.value.value}
  ELSE IF result.value.goType = "DownloadListResponse" THEN ToSet(result.value.value.downloads)
  ELSE {}

\* The reply arrives.
Receive(c) ==
  LET call   == calls[c]
      result == CASE call.client = "go"   -> DecodeResponse(call.asked.op, call.reply)
                  [] call.client = "page" -> PageResult(call.reply)
      told   == IF call.client = "go" THEN Told(result) ELSE {}
  IN /\ At(c, "answered") /\ ~call.left /\ call.client # "raw"
     /\ Becomes(c, [call EXCEPT !.stage = "done", !.message = Nothing, !.result = result])
     /\ learned' = [d \in Ids |-> LET of == {s.status : s \in {t \in told : t.id = d}}
                                  IN IF of = {} THEN learned[d]
                                     ELSE LET s == CHOOSE s \in of : TRUE
                                          IN IF LC!Rank[s] > LC!Rank[learned[d]] THEN s ELSE learned[d]]
     /\ UNCHANGED <<status, facts, now, used>>

-----------------------------------------------------------------------------
(* The generated server.                                                   *)

\* The client gets the first status, and every body.
Joined(reply, written) ==
  IF reply = Nothing THEN written ELSE [reply EXCEPT !.body = @ \o written.body]

\* codeRecorder keeps the last status.
Write(call, written) == [call EXCEPT !.recorded = written.status, !.reply = Joined(@, written)]

\* ogenerrors.DefaultErrorHandler (external).
ErrorHandler(call, code) ==
  Write(call, [status |-> code, type |-> JSON, body |-> <<Object(Field("error_message", Str("m")))>>])

\* Mutant: a request that ends in an error is not counted.
ReturnUncounted(call, failed) ==
  [call EXCEPT !.stage = "answered",
               !.requests = IF failed THEN @ ELSE Append(@, call.recorded),
               !.errors = IF failed THEN Append(@, call.recorded) ELSE @]

\* A handle function returns: recordError and the request counter, both deferred, now
\* read the status that the recorder has.
Return(call, failed) ==
  [call EXCEPT !.stage = "answered", !.requests = Append(@, call.recorded),
               !.errors = IF failed THEN Append(@, call.recorded) ELSE @]

\* What is answered without an operation.  notAllowed: 405, or 204 to OPTIONS.
Text(code) == [status |-> code, type |-> "text/plain", body |-> <<>>]

Unrouted(method, to) ==
  CASE to = "redirect"   -> Text(301)
    [] to = "page"       -> Text(200)
    [] to = "notFound"   -> Text(404)
    [] to = "notAllowed" -> Text(IF method = "OPTIONS" THEN 204 ELSE 405)

\* What decoding the request of an operation with a body returns.
DecodedRequest(op, message) ==
  IF op = "createDownload" THEN decodeCreateDownloadRequest(message) ELSE Ok(Nothing)

\* DefaultErrorHandler's status for a body: 415 for a Content-Type of another media
\* type, 400 for anything else, also if there is none or it cannot be parsed.
RefusedBody(message) == IF message.type \in {JSON, NoType} THEN 400 ELSE 415

\* Mutant: that the body is refused is not recorded as an error.
DecodeUnrecorded(call, op, args, argsEscaped) ==
  LET params  == DecodeParams(op, args, argsEscaped)
      request == DecodedRequest(op, call.message)
  IN IF Refused(params) THEN Return(ErrorHandler(call, 400), TRUE)
     ELSE IF ~request.ok THEN Return(ErrorHandler(call, RefusedBody(call.message)), FALSE)
     ELSE [call EXCEPT !.stage = "handling",
                       !.decoded = [op |-> op, params |-> params, request |-> request.value]]

\* Decoding: the parameters, then the body.
Decode(call, op, args, argsEscaped) ==
  LET params  == DecodeParams(op, args, argsEscaped)
      request == DecodedRequest(op, call.message)
  IN IF Refused(params) THEN Return(ErrorHandler(call, 400), TRUE)
     ELSE IF ~request.ok THEN Return(ErrorHandler(call, RefusedBody(call.message)), TRUE)
     ELSE [call EXCEPT !.stage = "handling",
                       !.decoded = [op |-> op, params |-> params, request |-> request.value]]

\* Where the mux and the router lead the message of a call.
Routed(message) ==
  IF Mux(message.path) = "api" THEN ServeHTTP(message.method, ParsePath(message.path))
  ELSE [op |-> Mux(message.path)]

\* The request arrives and is not for the API.
Elsewhere(c) ==
  LET message == calls[c].message
  IN /\ At(c, "sent")
     /\ Routed(message).op \notin Operations
     /\ Becomes(c, [Write(calls[c], Unrouted(message.method, Routed(message).op)) EXCEPT !.stage = "answered"])
     /\ UNCHANGED <<status, facts, now, learned, used>>

\* The request arrives at the handle function of op, which decodes it.
Begins(c, op) ==
  LET message == calls[c].message
  IN /\ At(c, "sent")
     /\ Routed(message).op = op
     /\ Becomes(c, Decode(calls[c], op, Routed(message).args, ElemIsEscaped(ParsePath(message.path))))
     /\ UNCHANGED <<status, facts, now, learned, used>>

\* The handler has returned a response: c goes on to encode it.
Responds(c, response) ==
  Becomes(c, [calls[c] EXCEPT !.stage = "encoding", !.response = response])

\* Mutant: the error of a 5xx response is handled like any other.
EncodedTwice(call, failed) ==
  LET response == Write(call, EncodeResponse(call.decoded.op, call.response))
  IN IF failed \/ response.reply.status >= 500
     THEN Return(ErrorHandler([response EXCEPT !.unwritten = failed], 500), TRUE)
     ELSE Return(response, FALSE)

\* The end of a handle function: the encoder writes the response.  If that fails,
\* ErrorHandler writes another; a 5xx response is only recorded as an error.
Encoded(call, failed) ==
  LET response == Write(call, EncodeResponse(call.decoded.op, call.response))
  IN IF failed THEN Return(ErrorHandler([response EXCEPT !.unwritten = TRUE], 500), TRUE)
     ELSE Return(response, response.reply.status >= 500)

\* The handle function of op encodes.  Writing fails only if the client has left.
Ends(c, op) ==
  /\ At(c, "encoding")
  /\ calls[c].decoded.op = op
  /\ \E failed \in BOOLEAN : /\ failed => calls[c].left
                             /\ Becomes(c, Encoded(calls[c], failed))
  /\ UNCHANGED <<status, facts, now, learned, used>>

-----------------------------------------------------------------------------
(* service.New and the handler.                                            *)

\* The map keeps the last channel of each secret.
channels ==
  LET with(secret) == {i \in DOMAIN Config : Config[i].secret = secret}
  IN [secret \in {Config[i].secret : i \in DOMAIN Config} |-> Config[Max(with(secret))]]

\* Mutant: the first channel with the secret is taken.
GetChannelFirst(secret) ==
  LET i == SelectInSeq(Config, LAMBDA ch : ch.secret = secret) IN IF i = 0 THEN Nothing ELSE Config[i]

GetChannel(secret) == IF secret \in DOMAIN channels THEN channels[secret] ELSE Nothing

errNotFound   == ErrorStatus(404, "m")
errInternal   == ErrorStatus(500, "m")
errBadRequest == ErrorStatus(400, "m")

\* What the row of d holds beside its facts depends, here, on its status alone.
toAPIDownload(d) ==
  [id |-> d, url |-> facts[d].url, title |-> Unset, status |-> status[d],
   progress |-> IF status[d] \in {"converting", "completed"} THEN 1 ELSE 0,
   filename |-> IF status[d] = "converting" THEN NewOpt("f") ELSE Unset,
   error |-> IF status[d] = "error" THEN NewOpt("e") ELSE Unset,
   createdAt |-> Times[facts[d].second],
   completedAt |-> IF status[d] \in {"completed", "error"} THEN NewOpt(Times[1]) ELSE Unset]

\* The handler of call c has these parameters for operation op.
Handling(c, op) == At(c, "handling") /\ calls[c].decoded.op = op

Param(c, name) == calls[c].decoded.params[name]

\* A handler that has nothing to do with the table.
Replies(c, response) == Responds(c, response) /\ UNCHANGED <<status, facts, now, learned, used>>

Healthcheck(c) ==
  /\ Handling(c, "healthcheck")
  /\ Replies(c, Response("HealthResponse", [status |-> "ok"]))

GetChannelInfo(c) ==
  LET ch == GetChannel(Param(c, "secret"))
  IN /\ Handling(c, "getChannelInfo")
     /\ Replies(c, IF ch = Nothing THEN errNotFound
                   ELSE Response("ChannelInfoResponse", [name |-> ch.name]))

\* A handler for the downloads of a channel: 404 if there is no such channel.
InChannel(c, op, handler) ==
  /\ Handling(c, op)
  /\ IF GetChannel(Param(c, "secret")) = Nothing THEN Replies(c, errNotFound) ELSE handler

\* A statement fails: another connection is writing, or the client has left,
\* which cancels the context of the statement.
StatementFails(c, response) ==
  /\ Becomes(c, [calls[c] EXCEPT !.stage = "encoding", !.response = response, !.faulty = TRUE])
  /\ \/ Fault
     \/ calls[c].left /\ UNCHANGED used
  /\ UNCHANGED <<now, learned>>

\* GetDownloadByID looks at the id alone; any error of it is answered with 404.
GetDownload(c) ==
  LET found == {d \in Rows : Param(c, "id") = <<d>>}
  IN InChannel(c, "getDownload",
       \/ \E d \in found : Replies(c, Response("Download", toAPIDownload(d)))
       \/ found = {} /\ Replies(c, errNotFound)
       \/ StatementFails(c, errNotFound) /\ UNCHANGED <<status, facts>>)

\* Mutant: ORDER BY is missing.
GetDownloadsByChannelUnordered(secret) == SetToSeqs({d \in Rows : facts[d].secret = secret})

\* Mutant: downloads of the current second are left out.
GetDownloadsByChannelEarlier(secret) ==
  SetToSeqs({d \in Rows : facts[d].secret = secret /\ facts[d].second < now})

\* The rows of the channel, latest second first, in any order within a second.
GetDownloadsByChannel(secret) ==
  {l \in SetToSeqs({d \in Rows : facts[d].secret = secret}) :
     \A i, j \in DOMAIN l : i < j => facts[l[i]].second >= facts[l[j]].second}

ListDownloads(c) ==
  InChannel(c, "listDownloads",
    \/ \E l \in GetDownloadsByChannel(Param(c, "secret")) :
         Replies(c, Response("DownloadListResponse",
                             [downloads |-> [i \in DOMAIN l |-> toAPIDownload(l[i])]]))
    \/ StatementFails(c, errInternal) /\ UNCHANGED <<status, facts>>)

\* INSERT ... RETURNING, and the channel the goroutine is started with.
Insert(c, d) ==
  /\ LC!Register(d)
  /\ facts' = [facts EXCEPT ![d] = [secret |-> Param(c, "secret"), url |-> calls[c].decoded.request.url,
                                    second |-> now, ch |-> channels[Param(c, "secret")]]]

\* Mutant: the error of the INSERT is not looked at.
CreateDownloadUnchecked(c) ==
  InChannel(c, "createDownload",
    \E d \in Ids : /\ status[d] = "absent"
                   /\ StatementFails(c, Response("Download", [ZeroDownload EXCEPT !.id = d, !.status = "pending",
                                                                                 !.createdAt = Times[now]]))
                   /\ UNCHANGED <<status, facts>>)

\* The URL is looked at after the channel.  If the client has left, the row may be
\* stored though the INSERT returns an error.
CreateDownload(c) ==
  LET url == calls[c].decoded.request.url
  IN InChannel(c, "createDownload",
       \/ url \notin YouTube /\ Replies(c, errBadRequest)
       \/ \E d \in Ids : /\ url \in YouTube
                         /\ Insert(c, d)
                         /\ Responds(c, Response("Download", toAPIDownload(d)'))
                         /\ UNCHANGED <<now, learned, used>>
       \/ url \in YouTube /\ StatementFails(c, errInternal) /\ UNCHANGED <<status, facts>>
       \/ /\ url \in YouTube /\ calls[c].left
          /\ StatementFails(c, errInternal)
          /\ \E d \in Ids : Insert(c, d))

-----------------------------------------------------------------------------
(* The handle functions: decoding, the handler, encoding.                  *)

handleHealthcheckRequest(c)    == Begins(c, "healthcheck") \/ Healthcheck(c) \/ Ends(c, "healthcheck")
handleGetChannelInfoRequest(c) == Begins(c, "getChannelInfo") \/ GetChannelInfo(c) \/ Ends(c, "getChannelInfo")
handleGetDownloadRequest(c)    == Begins(c, "getDownload") \/ GetDownload(c) \/ Ends(c, "getDownload")
handleListDownloadsRequest(c)  == Begins(c, "listDownloads") \/ ListDownloads(c) \/ Ends(c, "listDownloads")
handleCreateDownloadRequest(c) == Begins(c, "createDownload") \/ CreateDownload(c) \/ Ends(c, "createDownload")

-----------------------------------------------------------------------------

\* A goroutine stores what yt-dlp has come to.
Report(d) ==
  /\ used.reports < MaxReports
  /\ used' = [used EXCEPT !.reports = @ + 1]
  /\ LC!Report(d)
  /\ status'[d] \in Reported
  /\ UNCHANGED <<calls, facts, now, learned>>

\* A second passes.
Tick == /\ now < Len(Times)
        /\ now' = now + 1
        /\ UNCHANGED <<calls, status, facts, learned, used>>

Next ==
  \/ \E c \in Calls :
       \/ \E asked \in Asked : \/ sendHealthcheck(c, asked) \/ sendGetChannelInfo(c, asked)
                               \/ sendListDownloads(c, asked) \/ sendGetDownload(c, asked)
                               \/ sendCreateDownload(c, asked)
       \/ \E secret \in Links : OpenLink(c, secret)
       \/ \E message \in RawMessages : SendRaw(c, message)
       \/ Elsewhere(c) \/ Receive(c) \/ Leave(c) \/ Lose(c) \/ Discard(c)
       \/ handleHealthcheckRequest(c) \/ handleGetChannelInfoRequest(c)
       \/ handleGetDownloadRequest(c) \/ handleListDownloadsRequest(c)
       \/ handleCreateDownloadRequest(c)
  \/ \E d \in Ids : Report(d)
  \/ Tick

Spec == Init /\ [][Next]_vars

-----------------------------------------------------------------------------

Done(c, client) == At(c, "done") /\ calls[c].client = client

\* Each stage has what the next one works on; a counter counts a call once.
TypeOK ==
  /\ status \in [Ids -> DOMAIN LC!Rank]
  /\ learned \in [Ids -> DOMAIN LC!Rank]
  /\ now \in DOMAIN Times
  /\ \A d \in Ids : facts[d] = Nothing <=> d \notin Rows
  /\ \A c \in Calls : calls[c].stage # "idle" =>
       /\ calls[c].stage \in {"sent", "handling", "encoding", "answered", "done"}
       /\ calls[c].requests \in {<<>>, <<calls[c].recorded>>} /\ calls[c].errors \in {<<>>, calls[c].requests}
       /\ calls[c].stage = "encoding" => calls[c].response # Nothing
       /\ calls[c].stage = "answered" => calls[c].reply # Nothing

\* What a handler returned is what the client's caller gets, an error with its
\* status and message too: nothing is written after it.
\* (oas_handlers_gen.go:185-190, oas_client_gen.go:181-195)
ResponseReachesCaller ==
  \A c \in Calls : Done(c, "go") /\ calls[c].response # Nothing =>
    calls[c].result = Ok(calls[c].response)

\* What the server records of a call is what happened to it.  A request for an
\* operation is counted once, and no other; it is counted as an error exactly if it was
\* refused before the handler saw it, the handler answered with a server error, or the
\* answer could not be written.  Both are recorded with the status that was
\* sent, or, if the answer could not be written, with that of the error.
\* (oas_handlers_gen.go:22-34, 60-103, 113-192)
RecordIsTrue ==
  \A c \in Calls : At(c, "answered") =>
    LET call    == calls[c]
        served  == Routed(call.message).op \in Operations
        refused == call.response = Nothing
        failed  == ~refused /\ IsError(call.response) /\ call.response.value.StatusCode >= 500
        code    == IF call.unwritten THEN 500 ELSE call.reply.status
    IN /\ call.requests = IF served THEN <<code>> ELSE <<>>
       /\ call.errors = IF served /\ (refused \/ failed \/ call.unwritten) THEN <<code>> ELSE <<>>

\* A call with the secret of a download that starts after a client was told of it
\* finds it, and not in an earlier status: in the list of the channel, and under its
\* id, unless the statement failed, which GetDownload reports as not found, too.
\* (handler.go:52-82, service.go:58-71)
ReadsFollowWhatWasTold ==
  \A c \in Calls, d \in Ids :
    LET call == calls[c]
        reads == \/ call.asked.op = "listDownloads"
                 \/ call.asked.op = "getDownload" /\ call.asked.params.id = <<d>>
    IN Done(c, "go") /\ ~call.faulty /\ call.known[d] # "absent" /\ reads
         /\ d \in Rows /\ facts[d].secret = call.asked.params.secret =>
       \E s \in Told(call.result) : s.id = d /\ LC!Rank[s.status] >= LC!Rank[call.known[d]]

\* Clients are only told of stored downloads, and of no status ahead of the row:
\* whatever failed and whoever left.  (service.go:58-71, handler.go:93-99)
ToldIsStored == \A d \in Ids : LC!Rank[learned[d]] <= LC!Rank[status[d]]

\* The page prepends what it created; the list the server sends agrees: it has the
\* downloads of this channel only, those of a later second before earlier ones.
\* (queries.sql.go:66-70, ChannelPage.tsx:88)
NewestFirst ==
  \A c \in Calls : Done(c, "go") /\ calls[c].asked.op = "listDownloads" /\ calls[c].result.ok
                     /\ calls[c].result.value.goType = "DownloadListResponse" =>
    LET l == calls[c].result.value.value.downloads
    IN \A i, j \in DOMAIN l : /\ facts[l[i].id].secret = calls[c].asked.params.secret
                              /\ i < j => facts[l[i].id].second >= facts[l[j].id].second

\* A link shows the name of a channel exactly if the segment of its location, with the
\* escapes the browser put there, is the secret of one, and that is the channel in whose
\* directory downloads posted with this segment end, even if two channels have it.
\* (App.tsx:6, client.ts:16-25, service.go:23-38, 53-69)
LinkShowsWhereDownloadsGo ==
  \A c \in Calls : Done(c, "page") /\ calls[c].result.ok =>
    LET secret == EscapeSegment(calls[c].asked.link)
        shown  == calls[c].result.value
    IN /\ shown # Nothing <=> \E i \in DOMAIN Config : Config[i].secret = secret
       /\ shown # Nothing =>
            \A d \in Rows : facts[d].secret = secret => facts[d].ch.name = shown.value.name

=============================================================================
