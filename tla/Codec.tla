------------------------------- MODULE Codec -------------------------------
(***************************************************************************)
(* The JSON codecs, validators and body encoders and decoders that ogen    *)
(* generated for the API, on the server and on the client.                 *)
(*                                                                         *)
(* A JSON value is a tuple: <<"str", text>>, <<"int", n>>, <<"null">>,     *)
(* <<"arr", values>> or <<"obj", fields>>, with the fields as pairs        *)
(* <<key, value>> in the order they are written.  A body is the sequence   *)
(* of the values written to it: an empty one and one with trailing data    *)
(* are bodies too.  Go values are records with the field names of the API. *)
(***************************************************************************)
EXTENDS SequencesExt

CONSTANTS
  DateTimes,   \* the texts that are RFC 3339 date-times
  Int32        \* the range of int32 (scaled down)

ASSUME Int32Assumption == {0, 1} \subseteq Int32 /\ Int32 \subseteq Int

StatusNames == {"pending", "downloading", "converting", "completed", "error"}

Ok(value) == [ok |-> TRUE, value |-> value]
Fail      == [ok |-> FALSE]

-----------------------------------------------------------------------------
(* Optional values (oas_schemas_gen.go).                                   *)

Unset       == [Set |-> FALSE, Value |-> ""]
NewOpt(v)   == [Set |-> TRUE, Value |-> v]

\* An OptString holds a text if it is set; an OptDateTime a date-time.
IsOpt(o) == /\ o = [Set |-> o.Set, Value |-> o.Value]
            /\ o.Set \in BOOLEAN
            /\ ~o.Set => o = Unset

IsOptDateTime(o) == IsOpt(o) /\ (o.Set => o.Value \in DateTimes)

-----------------------------------------------------------------------------
(* Values that are not objects.                                            *)

Str(text) == <<"str", text>>

DecodeStr(v)      == IF v[1] = "str" THEN Ok(v[2]) ELSE Fail
DecodeInt32(v)    == IF v[1] = "int" /\ v[2] \in Int32 THEN Ok(v[2]) ELSE Fail
DecodeDateTime(v) == IF v[1] = "str" /\ v[2] \in DateTimes THEN Ok(v[2]) ELSE Fail

\* Decoding takes any text for a status; Validate does not.
DecodeDownloadStatus(v) == DecodeStr(v)

\* Null is not a string: an optional field is left out or set.
DecodeOptString(v)   == IF DecodeStr(v).ok THEN Ok(NewOpt(DecodeStr(v).value)) ELSE Fail
DecodeOptDateTime(v) == IF DecodeDateTime(v).ok THEN Ok(NewOpt(DecodeDateTime(v).value)) ELSE Fail

-----------------------------------------------------------------------------
(* Objects.                                                                *)

Object(fields) == <<"obj", fields>>
Field(key, v)  == << <<key, v>> >>

\* A field that is written only if it is set.
OptField(key, o) == IF o.Set THEN Field(key, Str(o.Value)) ELSE <<>>

\* The fields of an object are a sequence, however many there are.
IsFields(v) == v[1] = "obj" => v[2] = [i \in 1..Len(v[2]) |-> v[2][i]] /\ Len(v[2]) \in Nat

\* So are those of the objects in an array that is a field.
IsValue(v) ==
  /\ IsFields(v)
  /\ v[1] = "obj" =>
       \A n \in DOMAIN v[2] : LET f == v[2][n][2] IN f[1] = "arr" => \A i \in DOMAIN f[2] : IsFields(f[2][i])

\* A decoder's state: the struct, and the required fields seen so far.
Undecoded(s) == [s |-> s, seen |-> {}]

Assign(state, key, r) ==
  IF r.ok THEN Ok([s |-> [state.s EXCEPT ![key] = r.value], seen |-> state.seen \union {key}])
  ELSE Fail

\* jx.Decoder.ObjBytes: one field after the other, until one fails.
ObjBytes(v, s, DecodeField(_, _, _)) ==
  LET after[n \in 0..Len(v[2])] ==
        IF n = 0 THEN Ok(Undecoded(s))
        ELSE LET before == after[n-1]
             IN IF before.ok THEN DecodeField(before.value, v[2][n][1], v[2][n][2]) ELSE Fail
  IN IF v[1] = "obj" THEN after[Len(v[2])] ELSE Fail

\* The check of requiredBitSet against the mask.
Require(keys, r) == IF r.ok /\ keys \subseteq r.value.seen THEN Ok(r.value.s) ELSE Fail

\* An object with a single required text field; other fields are skipped.
SingleField(state, k, v) == IF k \in DOMAIN state.s THEN Assign(state, k, DecodeStr(v)) ELSE Ok(state)

DecodeSingle(key, v) == Require({key}, ObjBytes(v, [k \in {key} |-> ""], SingleField))

EncodeChannelInfoResponse(s) == Object(Field("name", Str(s.name)))
DecodeChannelInfoResponse(v) == DecodeSingle("name", v)

EncodeCreateDownloadRequest(s) == Object(Field("url", Str(s.url)))
DecodeCreateDownloadRequest(v) == DecodeSingle("url", v)

EncodeErrorResponse(s) == Object(Field("message", Str(s.message)))
DecodeErrorResponse(v) == DecodeSingle("message", v)

EncodeHealthResponse(s) == Object(Field("status", Str(s.status)))
DecodeHealthResponse(v) == DecodeSingle("status", v)

EncodeDownload(s) ==
  Object(Field("id", Str(s.id)) \o Field("url", Str(s.url)) \o OptField("title", s.title)
         \o Field("status", Str(s.status)) \o Field("progress", <<"int", s.progress>>)
         \o OptField("filename", s.filename) \o OptField("error", s.error)
         \o Field("createdAt", Str(s.createdAt)) \o OptField("completedAt", s.completedAt))

ZeroDownload == [id |-> "", url |-> "", title |-> Unset, status |-> "", progress |-> 0,
                 filename |-> Unset, error |-> Unset, createdAt |-> "", completedAt |-> Unset]

\* The Go struct Download, as its decoder and its validator leave it.
IsDownload(d) ==
  /\ d = [id |-> d.id, url |-> d.url, title |-> d.title, status |-> d.status, progress |-> d.progress,
          filename |-> d.filename, error |-> d.error, createdAt |-> d.createdAt, completedAt |-> d.completedAt]
  /\ IsOpt(d.title) /\ IsOpt(d.filename) /\ IsOpt(d.error) /\ IsOptDateTime(d.completedAt)
  /\ d.status \in StatusNames /\ d.progress \in Int32 /\ d.createdAt \in DateTimes

DownloadField(state, k, v) ==
  CASE k \in {"id", "url"}                   -> Assign(state, k, DecodeStr(v))
    [] k \in {"title", "filename", "error"}  -> Assign(state, k, DecodeOptString(v))
    [] k = "status"                          -> Assign(state, k, DecodeDownloadStatus(v))
    [] k = "progress"                        -> Assign(state, k, DecodeInt32(v))
    [] k = "createdAt"                       -> Assign(state, k, DecodeDateTime(v))
    [] k = "completedAt"                     -> Assign(state, k, DecodeOptDateTime(v))
    [] OTHER                                 -> Ok(state)

\* Mutant: the bit of createdAt is missing from the mask.
DecodeDownloadMask(v) ==
  Require({"id", "url", "status", "progress"}, ObjBytes(v, ZeroDownload, DownloadField))

DecodeDownload(v) ==
  Require({"id", "url", "status", "progress", "createdAt"}, ObjBytes(v, ZeroDownload, DownloadField))

EncodeDownloadListResponse(s) ==
  Object(Field("downloads", <<"arr", [i \in DOMAIN s.downloads |-> EncodeDownload(s.downloads[i])]>>))

\* The elements one after the other, until one fails.
DecodeDownloads(v) ==
  IF v[1] # "arr" \/ \E i \in DOMAIN v[2] : ~DecodeDownload(v[2][i]).ok THEN Fail
  ELSE Ok([i \in DOMAIN v[2] |-> DecodeDownload(v[2][i]).value])

DownloadsField(state, k, v) ==
  IF k = "downloads" THEN Assign(state, k, DecodeDownloads(v)) ELSE Ok(state)

DecodeDownloadListResponse(v) == Require({"downloads"}, ObjBytes(v, [downloads |-> <<>>], DownloadsField))

\* Mutant: the status that was declared last is missing.
ValidStatusFour(s) == s \in StatusNames \ {"error"}

\* oas_validators_gen.go; Decode never leaves the list nil.
ValidStatus(s)       == s \in StatusNames
ValidDownload(s)     == ValidStatus(s.status)
ValidDownloadList(s) == \A i \in DOMAIN s.downloads : ValidDownload(s.downloads[i])

-----------------------------------------------------------------------------
(* Bodies: what is left after the value is an error.                       *)

JSON == "application/json"

\* A body of the content type wanted, decoded to its end and validated.
DecodeBody(message, Decode(_), Valid(_)) ==
  IF message.type # JSON \/ Len(message.body) # 1 THEN Fail
  ELSE LET r == Decode(message.body[1]) IN IF r.ok /\ Valid(r.value) THEN r ELSE Fail

Unvalidated(s) == TRUE

encodeCreateDownloadRequest(req) == [type |-> JSON, body |-> <<EncodeCreateDownloadRequest(req)>>]

decodeCreateDownloadRequest(message) == DecodeBody(message, DecodeCreateDownloadRequest, Unvalidated)

-----------------------------------------------------------------------------
(* Responses.  The Go value is one of the operation's response types.      *)

Response(goType, value) == [goType |-> goType, value |-> value]

ErrorStatus(code, text) ==
  Response("ErrorResponseStatusCode", [StatusCode |-> code, Response |-> [message |-> text]])

\* The error responses of the API: client errors and server errors.
IsErrorStatus(r) ==
  /\ r = ErrorStatus(r.value.StatusCode, r.value.Response.message)
  /\ r.value.StatusCode \in 400..599

\* The interfaces of the operations' responses, with the types that implement them.
IsResponse(op, r) ==
  CASE r.goType = "ErrorResponseStatusCode" -> op \in {"getChannelInfo", "listDownloads", "createDownload", "getDownload"} /\ IsErrorStatus(r)
    [] r.goType = "Download" -> /\ op \in {"createDownload", "getDownload"}
                                /\ r = Response("Download", r.value) /\ IsDownload(r.value)
    [] r.goType = "DownloadListResponse" ->
         /\ op = "listDownloads"
         /\ r = Response("DownloadListResponse", [downloads |-> r.value.downloads])
         /\ r.value.downloads = [i \in 1..Len(r.value.downloads) |-> r.value.downloads[i]]
         /\ \A i \in DOMAIN r.value.downloads : IsDownload(r.value.downloads[i])
    [] r.goType = "ChannelInfoResponse" ->
         op = "getChannelInfo" /\ r = Response("ChannelInfoResponse", [name |-> r.value.name])
    [] r.goType = "HealthResponse" ->
         op = "healthcheck" /\ r = Response("HealthResponse", [status |-> r.value.status])
    [] OTHER -> FALSE

\* What an encoder writes: the status, and the body as JSON.
Written(status, v) == [status |-> status, type |-> JSON, body |-> <<v>>]

\* Mutant: the status of the error is not looked at.
encodeErrorAs200(response) == Written(200, EncodeErrorResponse(response.value.Response))

encodeError(response) ==
  Written(IF response.value.StatusCode = 0 THEN 200 ELSE response.value.StatusCode,
          EncodeErrorResponse(response.value.Response))

IsError(response) == response.goType = "ErrorResponseStatusCode"

encodeCreateDownloadResponse(response) ==
  IF IsError(response) THEN encodeError(response) ELSE Written(202, EncodeDownload(response.value))

encodeGetChannelInfoResponse(response) ==
  IF IsError(response) THEN encodeError(response)
  ELSE Written(200, EncodeChannelInfoResponse(response.value))

encodeGetDownloadResponse(response) ==
  IF IsError(response) THEN encodeError(response) ELSE Written(200, EncodeDownload(response.value))

encodeListDownloadsResponse(response) ==
  IF IsError(response) THEN encodeError(response)
  ELSE Written(200, EncodeDownloadListResponse(response.value))

encodeHealthcheckResponse(response) == Written(200, EncodeHealthResponse(response.value))

EncodeResponse(op, response) ==
  CASE op = "healthcheck"    -> encodeHealthcheckResponse(response)
    [] op = "getChannelInfo" -> encodeGetChannelInfoResponse(response)
    [] op = "listDownloads"  -> encodeListDownloadsResponse(response)
    [] op = "createDownload" -> encodeCreateDownloadResponse(response)
    [] op = "getDownload"    -> encodeGetDownloadResponse(response)

\* A decoded response becomes the Go value.
Typed(goType, r) == IF r.ok THEN Ok(Response(goType, r.value)) ELSE Fail

\* The default response of an operation that declares one.
decodeError(resp) ==
  LET r == DecodeBody(resp, DecodeErrorResponse, Unvalidated)
  IN IF r.ok THEN Ok(Response("ErrorResponseStatusCode", [StatusCode |-> resp.status, Response |-> r.value]))
     ELSE Fail

decodeCreateDownloadResponse(resp) ==
  IF resp.status = 202 THEN Typed("Download", DecodeBody(resp, DecodeDownload, ValidDownload))
  ELSE decodeError(resp)

decodeGetChannelInfoResponse(resp) ==
  IF resp.status = 200 THEN Typed("ChannelInfoResponse", DecodeBody(resp, DecodeChannelInfoResponse, Unvalidated))
  ELSE decodeError(resp)

decodeGetDownloadResponse(resp) ==
  IF resp.status = 200 THEN Typed("Download", DecodeBody(resp, DecodeDownload, ValidDownload))
  ELSE decodeError(resp)

decodeListDownloadsResponse(resp) ==
  IF resp.status = 200
  THEN Typed("DownloadListResponse", DecodeBody(resp, DecodeDownloadListResponse, ValidDownloadList))
  ELSE decodeError(resp)

\* Healthcheck declares no default response.
decodeHealthcheckResponse(resp) ==
  IF resp.status = 200 THEN Typed("HealthResponse", DecodeBody(resp, DecodeHealthResponse, Unvalidated)) ELSE Fail

DecodeResponse(op, resp) ==
  CASE op = "healthcheck"    -> decodeHealthcheckResponse(resp)
    [] op = "getChannelInfo" -> decodeGetChannelInfoResponse(resp)
    [] op = "listDownloads"  -> decodeListDownloadsResponse(resp)
    [] op = "createDownload" -> decodeCreateDownloadResponse(resp)
    [] op = "getDownload"    -> decodeGetDownloadResponse(resp)

-----------------------------------------------------------------------------
(* The API description (spec/main.tsp:10-56), as the reference.            *)

Enums == [DownloadStatus |-> {"pending", "downloading", "converting", "completed", "error"}]

Schema ==
  [ChannelInfoResponse   |-> [name |-> "string"],
   CreateDownloadRequest |-> [url |-> "string"],
   ErrorResponse         |-> [message |-> "string"],
   HealthResponse        |-> [status |-> "string"],
   DownloadListResponse  |-> [downloads |-> "Download[]"],
   Download              |-> [id |-> "string", url |-> "string", title |-> "string?",
                              status |-> "DownloadStatus", progress |-> "int32", filename |-> "string?",
                              error |-> "string?", createdAt |-> "utcDateTime",
                              completedAt |-> "utcDateTime?"]]

Optional == {"string?", "utcDateTime?"}

\* The types of the fields that are no arrays.  An enum is a string.
IsScalar(type, v) ==
  \/ type \in {"string", "string?"} \union DOMAIN Enums /\ v[1] = "str"
  \/ type \in {"utcDateTime", "utcDateTime?"} /\ v[1] = "str" /\ v[2] \in DateTimes
  \/ type = "int32" /\ v[1] = "int" /\ v[2] \in Int32

ScalarValue(type, v) == IF type \in Optional THEN NewOpt(v[2]) ELSE v[2]

Places(v, key) == {i \in DOMAIN v[2] : v[2][i][1] = key}

\* Each declared field has its type wherever it occurs, and occurs if it must.
Meets(v, fields, Has(_, _)) ==
  /\ v[1] = "obj"
  /\ \A key \in DOMAIN fields :
       /\ \A i \in Places(v, key) : Has(fields[key], v[2][i][2])
       /\ Places(v, key) = {} => fields[key] \in Optional

\* The last occurrence of a field counts.
Meaning(v, fields, Value(_, _)) ==
  [key \in DOMAIN fields |->
     IF Places(v, key) = {} THEN Unset ELSE Value(fields[key], v[2][Max(Places(v, key))][2])]

HasType(type, v) ==
  IF type = "Download[]"
  THEN v[1] = "arr" /\ \A i \in DOMAIN v[2] : Meets(v[2][i], Schema.Download, IsScalar)
  ELSE IsScalar(type, v)

ValueOf(type, v) ==
  IF type = "Download[]" THEN [i \in DOMAIN v[2] |-> Meaning(v[2][i], Schema.Download, ScalarValue)]
  ELSE ScalarValue(type, v)

\* The values that count are among those of their enums.
InEnums(value, fields) == \A key \in DOMAIN fields : fields[key] \in DOMAIN Enums => value[key] \in Enums[fields[key]]

Allowed(type, value) ==
  IF type = "DownloadListResponse"
  THEN \A i \in DOMAIN value.downloads : InEnums(value.downloads[i], Schema.Download)
  ELSE InEnums(value, Schema[type])

\* A body with one value, decoded and validated as the generated code does it.
ReadDocument(type, v) ==
  LET message == [type |-> JSON, body |-> <<v>>]
  IN CASE type = "ChannelInfoResponse"   -> DecodeBody(message, DecodeChannelInfoResponse, Unvalidated)
       [] type = "CreateDownloadRequest" -> DecodeBody(message, DecodeCreateDownloadRequest, Unvalidated)
       [] type = "ErrorResponse"         -> DecodeBody(message, DecodeErrorResponse, Unvalidated)
       [] type = "HealthResponse"        -> DecodeBody(message, DecodeHealthResponse, Unvalidated)
       [] type = "DownloadListResponse"  -> DecodeBody(message, DecodeDownloadListResponse, ValidDownloadList)
       [] type = "Download"              -> DecodeBody(message, DecodeDownload, ValidDownload)

=============================================================================
