------------------------------- MODULE MCApi -------------------------------
(* Api with four channels, two of which have the same secret.              *)
EXTENDS Api

CONSTANTS shared, single, d1, d2, c1, c2

MCTokens == {"/", "%", "2F", "25", "api", "downloads", "x", shared, single, d1, d2}

MCCalls == {c1, c2}

\* The shared secret is that of two channels, the single one of one; "x" is nobody's.
\* "%" has to be escaped in a link.
MCConfig == <<[secret |-> <<shared>>, name |-> "first"], [secret |-> <<single>>, name |-> "other"],
              [secret |-> <<shared>>, name |-> "second"], [secret |-> <<"%">>, name |-> "percent"]>>

MCIds == {d1, d2}

On(op, secret) == [op |-> op, params |-> [secret |-> <<secret>>], url |-> "y"]

MCAsked ==
  {[op |-> "healthcheck", params |-> <<>>, url |-> "y"],
   On("getChannelInfo", "x"), On("listDownloads", shared), On("createDownload", shared), On("createDownload", single)}
  \union {[op |-> "getDownload", params |-> [secret |-> <<shared>>, id |-> <<d>>], url |-> "y"] : d \in MCIds}

MCLinks == {<<shared>>, <<"%">>}

\* A body that does not decode, one of another type or of none, a URL of another host; a
\* method, a path and a secret there are not, and paths to clean and to refuse.
Post(type, body) ==
  [method |-> "POST", path |-> <<"/", "api", "/", shared, "/", "downloads">>, type |-> type, body |-> body]

Body(url) == <<EncodeCreateDownloadRequest([url |-> url])>>

MCRaw ==
  {Post(JSON, <<>>), Post("text/plain", Body("y")), Post(NoType, Body("y")), Post(JSON, Body("z")),
   Bare("OPTIONS", <<"/", "api", "/", shared, "/", "downloads">>), Bare("GET", <<"/", "api", "/", shared, "/", shared>>),
   Bare("GET", <<"/", "api", "/", "x", "/", "downloads">>), Bare("GET", <<"/", "api">>),
   Bare("GET", <<"/", "api", "/">>)}

Symmetry == Permutations(MCCalls) \union Permutations(MCIds)

MCTimes == <<"1970", "2025">>

=============================================================================
