-------------------------------- MODULE Wire --------------------------------
(***************************************************************************)
(* One message of any kind on its way between a client and the server,     *)
(* with the modules that take it apart: Routing for its path, Codec for    *)
(* its body.  Each property compares what the generated code makes of it   *)
(* with what the API description says, or with what was sent.              *)
(***************************************************************************)
EXTENDS Routing, Codec

CONSTANTS
  Paths,       \* paths of requests, as they are on the wire
  Params,      \* calls of the client: pairs of an operation and its parameters
  Responses,   \* pairs of an operation and a Go response of the handler
  Documents    \* pairs of a type of the schema and a JSON value

ASSUME CallsAssumption == \A call \in Params : IsCall(call[1], call[2])

ASSUME ResponsesAssumption == \A answer \in Responses : IsResponse(answer[1], answer[2])

ASSUME PathsAssumption == \A path \in Paths : IsRequestPath(path)

ASSUME DocumentsAssumption == \A document \in Documents : document[1] \in DOMAIN Schema /\ IsValue(document[2])

VARIABLE message

None == [kind |-> "none"]

Init == message = None

RequestArrives ==
  \E method \in {"GET", "POST", "DELETE"}, path \in Paths :
    message' = [kind |-> "request", method |-> method, path |-> path]

ClientCalls ==
  \E call \in Params : message' = [kind |-> "call", op |-> call[1], params |-> call[2]]

HandlerAnswers ==
  \E answer \in Responses : message' = [kind |-> "response", op |-> answer[1], response |-> answer[2]]

DocumentArrives ==
  \E document \in Documents : message' = [kind |-> "document", type |-> document[1], value |-> document[2]]

Next == /\ message = None
        /\ RequestArrives \/ ClientCalls \/ HandlerAnswers \/ DocumentArrives

Spec == Init /\ [][Next]_message

-----------------------------------------------------------------------------

\* Whatever is escaped in a path, and whether or not it had to be, the request
\* reaches the operation the API description gives its path, with each segment
\* decoded exactly once; or it is refused, not found, or not allowed with the
\* methods that are.  (oas_router_gen.go:36-200, oas_parameters_gen.go:33-328)
RequestsAreRouted ==
  message.kind = "request" =>
    Dispatched(message.method, message.path) = Described(message.method, message.path)

\* FindPath, which middleware would ask, finds the operation and the parameters
\* the router calls, though it unescapes on another condition.
\* (oas_router_gen.go:257-435)
FindPathAgrees ==
  message.kind = "request" =>
    LET described == Described(message.method, message.path)
        found     == FindPath(message.method, ParsePath(message.path))
    IN \/ described[1] = "refused"
       \/ found.op = "notFound" /\ described[1] \in {"notFound", "notAllowed"}
       \/ /\ found.op = described[1]
          /\ Len(found.args) >= 1 => found.args[1] = described[2].secret
          /\ Len(found.args) = 2 => found.args[2] = described[2].id

\* A call of the generated client passes the mux and the router and reaches its
\* operation with the parameters it was given, slashes and percent signs in them
\* included.  The page, at the location of a secret, asks for the channel of the
\* segment as it is written there: escaped, where the secret has to be.
\* (oas_client_gen.go:148-175, main.go:73-76, App.tsx:6, client.ts:16-25)
CallsReachTheirOperation ==
  message.kind = "call" =>
    LET path == BuildURL(message.op, message.params)
    IN /\ Mux(path) = "api"
       /\ Dispatched(Method[message.op], path) = <<message.op, message.params>>
       /\ message.op = "getChannelInfo" =>
            Dispatched("GET", PageURL(AppSecret(Location(message.params.secret))))
              = <<"getChannelInfo", [secret |-> EscapeSegment(message.params.secret)]>>

\* The generated client gets the response the handler returned, with its status
\* and its optional fields, from what the generated server wrote.
\* (oas_response_encoders_gen.go:15-207, oas_response_decoders_gen.go:16-414)
ResponsesComeBack ==
  message.kind = "response" =>
    DecodeResponse(message.op, EncodeResponse(message.op, message.response)) = Ok(message.response)

\* A body is taken for a value of its type exactly if the API description allows
\* it, whatever the order of the fields, with fields repeated or unknown, and the
\* last of a field counts: that one is a value of its enum, as are those in a list,
\* and each has its type.  (oas_json_gen.go:36-838, oas_validators_gen.go:11-91)
DocumentsAreUnderstood ==
  message.kind = "document" =>
    LET r       == ReadDocument(message.type, message.value)
        meaning == Meaning(message.value, Schema[message.type], ValueOf)
    IN /\ r.ok <=> /\ Meets(message.value, Schema[message.type], HasType)
                   /\ Allowed(message.type, meaning)
       /\ r.ok => r.value = meaning

=============================================================================
