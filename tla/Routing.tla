------------------------------ MODULE Routing ------------------------------
(***************************************************************************)
(* How a request finds its operation: main.go's ServeMux, the router and   *)
(* the parameter decoders ogen generated, and the clients that build the   *)
(* paths: ogen's and the page's.                                           *)
(*                                                                         *)
(* A path is a sequence of tokens: "/", "%", the two hex digits after it,  *)
(* and pieces of text.  On the wire every "%" starts an escape.  Three     *)
(* escapes tell the cases apart: "2F" and "25", which stand for the two    *)
(* characters a path segment has to escape, and "78", which stands for a   *)
(* letter and need not be escaped.                                         *)
(***************************************************************************)
EXTENDS SequencesExt

CONSTANT Tokens   \* what texts and paths are made of

ASSUME TokensAssumption == {"/", "%", "2F", "25", "api", "downloads"} \subseteq Tokens

-----------------------------------------------------------------------------
(* Percent-encoding (net/url, ogen's package uri; external).               *)

Decoded == [hex \in {"2F", "25", "78"} |-> CASE hex = "2F" -> "/" [] hex = "25" -> "%" [] hex = "78" -> "x"]
Hex     == [t \in {"/", "%"} |-> IF t = "/" THEN "2F" ELSE "25"]

\* The characters in chars are escaped, the others are left as they are.
Escape(chars, text) ==
  LET from[i \in 1..Len(text)+1] ==
        IF i > Len(text) THEN <<>>
        ELSE (IF text[i] \in chars THEN <<"%", Hex[text[i]]>> ELSE <<text[i]>>) \o from[i+1]
  IN from[1]

\* The escapes that stand for a character in chars are replaced by it.
Unescape(chars, text) ==
  LET escape(i) == /\ i < Len(text)
                   /\ text[i] = "%"
                   /\ text[i+1] \in DOMAIN Decoded
                   /\ Decoded[text[i+1]] \in chars
      from[i \in 1..Len(text)+1] ==
        IF i > Len(text) THEN <<>>
        ELSE IF escape(i) THEN <<Decoded[text[i+1]]>> \o from[i+2]
        ELSE <<text[i]>> \o from[i+1]
  IN from[1]

Characters == {"/", "%", "x"}

\* url.PathUnescape fails on a "%" that starts no escape.
WellEscaped(text) ==
  \A i \in DOMAIN text : text[i] = "%" => i < Len(text) /\ text[i+1] \in DOMAIN Decoded

PathUnescape(text) == Unescape(Characters, text)

\* url.PathEscape, encodeURIComponent: one path segment.
EscapeSegment(text) == Escape({"/", "%"}, text)

\* url.Parse keeps the wire form in RawPath unless Path has only one such form.
ParsePath(wire) ==
  LET path == PathUnescape(wire)
  IN [Path |-> path, RawPath |-> IF Escape({"%"}, path) = wire THEN <<>> ELSE wire]

\* uri.NormalizeEscapedPath undoes the escapes that need not be there.
NormalizeEscapedPath(path) == Unescape({"x"}, path)

\* The parts between the slashes of a path that starts with one.
Segments(path) ==
  LET from[i \in 1..Len(path)+1] ==
        IF i > Len(path) THEN << <<>> >>
        ELSE IF path[i] = "/" THEN << <<>> >> \o from[i+1]
        ELSE [from[i+1] EXCEPT ![1] = <<path[i]>> \o @]
  IN Tail(from[1])

\* What a request line can have: a path from the root, in which each "%" starts an
\* escape.  net/http refuses the others.
IsRequestPath(path) == path \in Seq(Tokens) /\ path # <<>> /\ path[1] = "/" /\ WellEscaped(path)

-----------------------------------------------------------------------------
(* main.go: the mux in front of the API and of the page.                   *)

\* ServeMux (external) cleans the path first, and sends clients of "/api" to
\* "/api/".
Redirects(wire) == wire = <<"/", "api">> \/ \E i \in 1..Len(wire)-1 : wire[i] = "/" /\ wire[i+1] = "/"

Mux(wire) ==
  IF Redirects(wire) THEN "redirect"
  ELSE IF IsPrefix(<<"/", "api", "/">>, wire) \/ wire = <<"/", "health">> THEN "api"
  ELSE "page"

-----------------------------------------------------------------------------
(* The generated router.                                                   *)

Operations == {"healthcheck", "getChannelInfo", "listDownloads", "createDownload", "getDownload"}

NotFound            == [op |-> "notFound", args |-> <<>>, allow |-> {}]
NotAllowed(methods) == [op |-> "notAllowed", args |-> <<>>, allow |-> methods]
Handle(op, args)    == [op |-> op, args |-> args, allow |-> {}]

\* The end of a path: ops gives the operation of each allowed method.
Leaf(method, ops, args) ==
  IF method \in DOMAIN ops THEN Handle(ops[method], args) ELSE NotAllowed(DOMAIN ops)

Cut(prefix, elem) == SubSeq(elem, Len(prefix) + 1, Len(elem))

\* What follows "/api/{secret}/downloads".  Slashes are prohibited in the id.
AfterDownloads(method, secret, elem) ==
  IF elem = <<>>
  THEN Leaf(method, [GET |-> "listDownloads", POST |-> "createDownload"], <<secret>>)
  ELSE IF Head(elem) # "/" \/ Contains(Tail(elem), "/") THEN NotFound
  ELSE Leaf(method, [GET |-> "getDownload"], <<secret, Tail(elem)>>)

\* What follows "/api/{secret}".
AfterSecret(method, secret, elem) ==
  IF elem = <<>> THEN Leaf(method, [GET |-> "getChannelInfo"], <<secret>>)
  ELSE IF IsPrefix(<<"/", "downloads">>, elem)
  THEN AfterDownloads(method, secret, Cut(<<"/", "downloads">>, elem))
  ELSE NotFound

\* The static tree.  A parameter reaches up to the next slash.
Tree(method, elem) ==
  IF IsPrefix(<<"/", "api", "/">>, elem)
  THEN LET rest == Cut(<<"/", "api", "/">>, elem)
           next == SelectInSeq(rest, LAMBDA t : t = "/")
           idx  == IF next = 0 THEN Len(rest) + 1 ELSE next
       IN AfterSecret(method, SubSeq(rest, 1, idx - 1), SubSeq(rest, idx, Len(rest)))
  ELSE IF elem = <<"/", "health">> THEN Leaf(method, [GET |-> "healthcheck"], <<>>)
  ELSE NotFound

\* The form of the path the router looks at.
Elem(url) == IF url.RawPath # <<>> THEN NormalizeEscapedPath(url.RawPath) ELSE url.Path

\* Mutant: the arguments are taken for escaped whenever they might be.
ElemIsEscapedAlways(url) == Contains(Elem(url), "%")

ElemIsEscaped(url) == url.RawPath # <<>> /\ Contains(Elem(url), "%")

\* Server.ServeHTTP, with no path prefix configured.
ServeHTTP(method, url) == Tree(method, Elem(url))

\* Mutant: the arguments are never unescaped.
FindPathVerbatim(method, url) == Tree(method, Elem(url))

\* Server.FindPath: the same tree; the arguments are unescaped if there was a
\* RawPath, and left alone if they cannot be.  It knows no methodNotAllowed.
FindPath(method, url) ==
  LET found == Tree(method, Elem(url))
      arg(a) == IF url.RawPath # <<>> /\ WellEscaped(a) THEN PathUnescape(a) ELSE a
  IN IF found.op \in Operations
     THEN Handle(found.op, [i \in DOMAIN found.args |-> arg(found.args[i])])
     ELSE NotFound

-----------------------------------------------------------------------------
(* The generated parameter decoders.  Invalid: DecodeParamError.           *)

Invalid == <<>>

\* One path parameter: unescaped if need be; it must not be empty.
decodeParam(arg, argsEscaped) ==
  IF ~argsEscaped THEN arg
  ELSE IF WellEscaped(arg) THEN PathUnescape(arg)
  ELSE Invalid

decodeCreateDownloadParams(args, argsEscaped) == [secret |-> decodeParam(args[1], argsEscaped)]
decodeGetChannelInfoParams(args, argsEscaped) == [secret |-> decodeParam(args[1], argsEscaped)]
decodeListDownloadsParams(args, argsEscaped)  == [secret |-> decodeParam(args[1], argsEscaped)]

\* Mutant: both parameters are decoded from the first argument.
decodeGetDownloadParamsSwapped(args, argsEscaped) ==
  [secret |-> decodeParam(args[1], argsEscaped), id |-> decodeParam(args[1], argsEscaped)]

decodeGetDownloadParams(args, argsEscaped) ==
  [secret |-> decodeParam(args[1], argsEscaped), id |-> decodeParam(args[2], argsEscaped)]

DecodeParams(op, args, argsEscaped) ==
  CASE op = "healthcheck"    -> <<>>
    [] op = "getChannelInfo" -> decodeGetChannelInfoParams(args, argsEscaped)
    [] op = "listDownloads"  -> decodeListDownloadsParams(args, argsEscaped)
    [] op = "createDownload" -> decodeCreateDownloadParams(args, argsEscaped)
    [] op = "getDownload"    -> decodeGetDownloadParams(args, argsEscaped)

Refused(params) == \E p \in DOMAIN params : params[p] = Invalid

-----------------------------------------------------------------------------
(* The clients.                                                            *)

\* The path ogen's client sends for an operation and its parameters.
BuildURL(op, params) ==
  CASE op = "healthcheck"    -> <<"/", "health">>
    [] op = "getChannelInfo" -> <<"/", "api", "/">> \o EscapeSegment(params.secret)
    [] op \in {"listDownloads", "createDownload"} ->
         <<"/", "api", "/">> \o EscapeSegment(params.secret) \o <<"/", "downloads">>
    [] op = "getDownload" ->
         <<"/", "api", "/">> \o EscapeSegment(params.secret) \o <<"/", "downloads", "/">>
           \o EscapeSegment(params.id)

Method == [healthcheck |-> "GET", getChannelInfo |-> "GET", listDownloads |-> "GET",
           createDownload |-> "POST", getDownload |-> "GET"]

\* A parameter is any text but the empty one: the server refuses that one, and
\* ServeMux cleans the path of it.
Texts == Seq(Tokens) \ {<<>>}

\* What the generated client can be asked for.
IsCall(op, params) ==
  \/ op = "healthcheck" /\ params = <<>>
  \/ op \in {"getChannelInfo", "listDownloads", "createDownload"} /\ params \in [secret : Texts]
  \/ op = "getDownload" /\ params \in [secret : Texts, id : Texts]

\* The pathname of the link of a secret, as the browser keeps it.
Location(secret) == <<"/">> \o EscapeSegment(secret)

\* App.tsx: the first non-empty segment of the location, as it is written there.
AppSecret(pathname) ==
  LET first == SelectInSeq(pathname, LAMBDA t : t # "/")
      named == IF first = 0 THEN <<>> ELSE SubSeq(pathname, first, Len(pathname))
      slash == SelectInSeq(named, LAMBDA t : t = "/")
  IN IF slash = 0 THEN named ELSE SubSeq(named, 1, slash - 1)

\* client.ts: the path openapi-fetch sends for the page.
PageURL(secret) == <<"/", "api", "/">> \o EscapeSegment(secret)

-----------------------------------------------------------------------------
(* The API description (spec/main.tsp:58-87), as the reference.            *)

Parameter == {"{secret}", "{id}"}

Template == [healthcheck    |-> <<"health">>,
             getChannelInfo |-> <<"api", "{secret}">>,
             listDownloads  |-> <<"api", "{secret}", "downloads">>,
             createDownload |-> <<"api", "{secret}", "downloads">>,
             getDownload    |-> <<"api", "{secret}", "downloads", "{id}">>]

Fits(op, segments) ==
  /\ Len(segments) = Len(Template[op])
  /\ \A k \in DOMAIN segments : Template[op][k] \in Parameter \/ segments[k] = <<Template[op][k]>>

\* The values of the parameters among the segments, each decoded on its own.
ParamsOf(op, segments) ==
  LET at(p) == segments[SelectInSeq(Template[op], LAMBDA t : t = p)]
  IN CASE op = "healthcheck" -> <<>>
       [] op = "getDownload" -> [secret |-> at("{secret}"), id |-> at("{id}")]
       [] OTHER              -> [secret |-> at("{secret}")]

\* What should become of a request: an operation with its parameters, or not.
Described(method, wire) ==
  LET segments == [k \in DOMAIN Segments(wire) |-> PathUnescape(Segments(wire)[k])]
      fitting  == {op \in Operations : Fits(op, segments)}
      chosen   == {op \in fitting : Method[op] = method}
  IN IF fitting = {} THEN <<"notFound">>
     ELSE IF chosen = {} THEN <<"notAllowed", {Method[op] : op \in fitting}>>
     ELSE LET op == CHOOSE op \in chosen : TRUE
              params == ParamsOf(op, segments)
          IN IF Refused(params) THEN <<"refused">> ELSE <<op, params>>

\* What the generated server makes of it.
Dispatched(method, wire) ==
  LET url    == ParsePath(wire)
      routed == ServeHTTP(method, url)
      params == DecodeParams(routed.op, routed.args, ElemIsEscaped(url))
  IN IF routed.op = "notFound" THEN <<"notFound">>
     ELSE IF routed.op = "notAllowed" THEN <<"notAllowed", routed.allow>>
     ELSE IF Refused(params) THEN <<"refused">> ELSE <<routed.op, params>>

=============================================================================
