------------------------------- MODULE MCWire -------------------------------
(* Wire on all short paths, and on every small change to a document.       *)
EXTENDS Wire

\* A segment of a path on the wire; all paths of up to four of them, and those
\* of five under one channel's downloads.
Pieces == {<<>>, <<"api">>, <<"downloads">>, <<"health">>, <<"a">>, <<"%", "2F">>, <<"%", "25", "2F">>,
           <<"%", "25">>, <<"%", "78">>, <<"a", "%", "2F", "a">>}

MCPaths ==
  LET join(p) == FlattenSeq([i \in DOMAIN p |-> <<"/">> \o p[i]])
  IN {join(p) : p \in UNION {[1..n -> Pieces] : n \in 1..4}}
     \union {join(<< <<"api">>, <<"a">>, <<"downloads">>, p, q>>) : p, q \in Pieces}

SomeTexts == {<<"a">>, <<"/">>, <<"%">>, <<"%", "2F">>, <<"x">>, <<"a", "/", "a">>, <<"api">>, <<"downloads">>}

MCParams == {<<"healthcheck", <<>> >>}
            \union ({"getChannelInfo", "listDownloads", "createDownload"} \X {[secret |-> s] : s \in SomeTexts})
            \union {<<"getDownload", [secret |-> s, id |-> i]>> : s, i \in SomeTexts}

Opt(values) == {Unset} \union {NewOpt(v) : v \in values}

SomeDownloads ==
  [id : {"a"}, url : {"u"}, title : Opt({"t", ""}), status : {"pending", "error"}, progress : {0, 1},
   filename : Opt({"f"}), error : Opt({"e"}), createdAt : {"1970"}, completedAt : Opt({"2025"})]

SomeErrors == {ErrorStatus(code, "m") : code \in {400, 404, 500}}

Two == [downloads |-> << [ZeroDownload EXCEPT !.id = "a", !.status = "error", !.createdAt = "1970"],
                         [ZeroDownload EXCEPT !.id = "b", !.status = "pending", !.createdAt = "2025"] >>]

MCResponses ==
  ({"createDownload", "getDownload"} \X ({Response("Download", d) : d \in SomeDownloads} \union SomeErrors))
  \union ({"listDownloads"} \X
            ({Response("DownloadListResponse", l) : l \in {Two, [downloads |-> <<>>]}} \union SomeErrors))
  \union ({"getChannelInfo"} \X ({Response("ChannelInfoResponse", [name |-> "n"])} \union SomeErrors))
  \union ({"healthcheck"} \X {Response("HealthResponse", [status |-> "ok"])})

\* Values of every JSON type, and ones of the type that are out of range.
Values == {Str("a"), Str("1970"), Str("error"), <<"int", 1>>, <<"int", 9>>, <<"null">>, <<"arr", <<>> >>, Object(<<>>)}

Fields(keys) == {<<k, v>> : k \in keys \union {"other"}, v \in Values}

\* Up to two fields in any order.
Small(keys) == {Object(f) : f \in {<<>>} \union [1..1 -> Fields(keys)] \union [1..2 -> Fields(keys)]}

\* A download with every field, and one without the optional ones.
Full  == EncodeDownload([id |-> "a", url |-> "u", title |-> NewOpt("t"), status |-> "error", progress |-> 1,
                         filename |-> NewOpt("f"), error |-> NewOpt("e"), createdAt |-> "1970",
                         completedAt |-> NewOpt("2025")])
Short == EncodeDownload([ZeroDownload EXCEPT !.status = "pending", !.createdAt = "1970"])

Keys == DOMAIN ZeroDownload

\* One field left out, changed, or put in at any place.
Changed(f, values) ==
  {RemoveAt(f, i) : i \in DOMAIN f}
  \union {ReplaceAt(f, i, <<f[i][1], v>>) : i \in DOMAIN f, v \in values}
  \union {InsertAt(f, i, <<k, v>>) : i \in {1, Len(f)}, k \in Keys \union {"other"}, v \in values}
  \union {Reverse(f)}

Perturbed == Changed(Full[2], Values) \union Changed(Short[2], Values)
             \union UNION {Changed(f, {Str("1970"), Str("completed"), <<"null">>}) :
                              f \in Changed(Short[2], {Str("a"), <<"int", 9>>})}

\* Lists of good downloads and of bad ones: a status that is none, no status at all;
\* and list fields repeated, or of another type.
Elements == {Full, Short, EncodeDownload([ZeroDownload EXCEPT !.status = "x", !.createdAt = "1970"]),
             Object(Field("id", Str("a"))), <<"null">>}

Arrays == {<<"arr", l>> : l \in {<<>>} \union [1..1 -> Elements] \union [1..2 -> Elements]}

Lists == {Object(Field("downloads", a)) : a \in Arrays}
         \union {Object(Field("downloads", a) \o Field(k, b)) :
                    k \in {"downloads", "other"}, a, b \in {<<"arr", <<e>> >> : e \in Elements} \union Values}

MCDocuments ==
  ({"ChannelInfoResponse"} \X Small({"name"})) \union ({"CreateDownloadRequest"} \X Small({"url"}))
  \union ({"ErrorResponse"} \X Small({"message"})) \union ({"HealthResponse"} \X Small({"status"}))
  \union ((DOMAIN Schema) \X Values)
  \union ({"Download"} \X {Object(f) : f \in Perturbed}) \union ({"DownloadListResponse"} \X Lists)

=============================================================================
