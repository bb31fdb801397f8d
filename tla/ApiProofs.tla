----------------------------- MODULE ApiProofs -----------------------------
(***************************************************************************)
(* Proofs about module Api, for every set of calls and downloads, every    *)
(* configuration of channels, and every request anybody sends.             *)
(*                                                                         *)
(* The inductive invariant IInv says of the table what the INSERT and the  *)
(* goroutines keep true of it, and of every call what is true of it at its *)
(* stage.  A step changes one call, or the table; Frame says that what is  *)
(* true of a call stays true however the table grows.                      *)
(***************************************************************************)
EXTENDS Api, MessageProofs, FiniteSetTheorems

-----------------------------------------------------------------------------
(* The inductive invariant.                                                *)

Rank == LC!Rank

\* A row has a channel of the configuration, and the goroutine got that one.
RowOK(fact) == /\ fact.secret \in DOMAIN channels
               /\ fact.ch = channels[fact.secret]
               /\ fact.second \in DOMAIN Times

TableOK ==
  /\ status \in [Ids -> DOMAIN Rank] /\ learned \in [Ids -> DOMAIN Rank]
  /\ now \in DOMAIN Times
  /\ DOMAIN facts = Ids
  /\ \A d \in Ids : /\ facts[d] = Nothing <=> status[d] = "absent"
                    /\ facts[d] # Nothing => RowOK(facts[d])
                    /\ Rank[learned[d]] <= Rank[status[d]]

Fields == {"stage", "client", "asked", "message", "known", "decoded", "response", "reply", "unwritten",
           "recorded", "requests", "errors", "left", "faulty", "result"}

\* A call as Sent makes it.
Made(call) ==
  /\ DOMAIN call = Fields
  /\ call.stage \in {"sent", "handling", "encoding", "answered", "done"}
  /\ call.client \in {"go", "page", "raw"}
  /\ call.left \in BOOLEAN
  /\ call.stage = "sent" => ~call.left
  /\ call.stage = "done" => ~call.left /\ call.client # "raw"

\* The page asks for the channel of a link's segment.
FromLink(asked) == asked.op = "getChannelInfo" /\ asked.params.secret = EscapeSegment(asked.link)

\* The message that "go" and "page" send for what they ask is taken for that.
Asking(call) ==
  call.client # "raw" =>
    /\ IsCall(call.asked.op, call.asked.params)
    /\ call.client = "page" => FromLink(call.asked)
    /\ call.stage = "sent" => /\ call.message.method = Method[call.asked.op]
                              /\ call.message.path = BuildURL(call.asked.op, call.asked.params)
                              /\ DecodedRequest(call.asked.op, call.message).ok
    /\ call.stage # "sent" => /\ call.decoded.op = call.asked.op
                              /\ call.decoded.params = call.asked.params
    /\ call.stage \in {"answered", "done"} => call.response # Nothing

\* Nothing is written and nothing recorded.
Unanswered(call) == /\ call.reply = Nothing /\ call.requests = <<>> /\ call.errors = <<>>
                    /\ call.unwritten = FALSE

\* A handle function has returned: it recorded this status, and these errors.
Recorded(call, code, errors) ==
  call.recorded = code /\ call.requests = <<code>> /\ call.errors = errors

ServerError(response) == IsError(response) /\ response.value.StatusCode >= 500

Served(call) == Routed(call.message).op \in Operations

\* What is recorded of a call that is answered: what happened to it.
WellRecorded(call) ==
  LET code   == IF call.unwritten THEN 500 ELSE call.reply.status
      failed == call.response = Nothing \/ ServerError(call.response) \/ call.unwritten
  IN IF Served(call) THEN Recorded(call, code, IF failed THEN <<code>> ELSE <<>>)
     ELSE call.requests = <<>> /\ call.errors = <<>>

\* Nothing is recorded before the reply is written.
Counted(call) ==
  /\ call.stage \in {"sent", "handling"} => call.response = Nothing
  /\ call.stage = "encoding" => call.response # Nothing
  /\ call.stage \in {"sent", "handling", "encoding"} => Unanswered(call)
  /\ call.stage \in {"handling", "encoding"} => Served(call)
  /\ call.stage = "answered" => call.reply # Nothing /\ WellRecorded(call)
  /\ call.requests \in {<<>>, <<call.recorded>>} /\ call.errors \in {<<>>, call.requests}

\* What GetChannelInfo answers.
ChannelAnswer(secret) ==
  IF GetChannel(secret) = Nothing THEN errNotFound
  ELSE Response("ChannelInfoResponse", [name |-> GetChannel(secret).name])

\* The downloads that are told of in a response are rows, none ahead of its row.
Stored(told, st) ==
  \A s \in told : /\ s.id \in Ids /\ st[s.id] # "absent"
                  /\ s.status \in DOMAIN Rank /\ Rank[s.status] <= Rank[st[s.id]]

\* A list has the downloads of one channel, latest second first.
Listed(downloads, secret, fa) ==
  \A i, j \in DOMAIN downloads : /\ fa[downloads[i].id].secret = secret
                                 /\ i < j => fa[downloads[i].id].second >= fa[downloads[j].id].second

\* Download d is told of, and not in an earlier status than this.
Recent(told, d, known) == \E s \in told : s.id = d /\ Rank[s.status] >= Rank[known]

\* What was known when the call was sent is in its response.
Current(call, told, fa) ==
  \A d \in Ids : call.known[d] # "absent" =>
    /\ call.decoded.op = "listDownloads" /\ fa[d].secret = call.decoded.params.secret =>
         Recent(told, d, call.known[d])
    /\ call.decoded.op = "getDownload" /\ call.decoded.params.id = <<d>>
         /\ call.decoded.params.secret \in DOMAIN channels => Recent(told, d, call.known[d])

\* What a handler answers is one of its responses, and true of the table.
Truthful(call, st, fa) ==
  LET told == Told(Ok(call.response))
  IN /\ IsResponse(call.decoded.op, call.response)
     /\ Stored(told, st)
     /\ call.response.goType = "DownloadListResponse" =>
          Listed(call.response.value.downloads, call.decoded.params.secret, fa)
     /\ call.decoded.op = "getChannelInfo" => call.response = ChannelAnswer(call.decoded.params.secret)
     /\ ~call.faulty => Current(call, told, fa)

\* A client that waits gets what the handler answered.
Delivered(call) ==
  /\ call.stage \in {"answered", "done"} /\ ~call.left =>
       call.reply = EncodeResponse(call.decoded.op, call.response)
  /\ call.stage = "done" => call.result = IF call.client = "go" THEN Ok(call.response) ELSE PageResult(call.reply)

\* What was known when the call was sent is no more than what is known.
Remembered(call, le) == \A d \in Ids : call.known[d] \in DOMAIN Rank /\ Rank[call.known[d]] <= Rank[le[d]]

CallOK(call, st, fa, le) ==
  call.stage # "idle" =>
    /\ Made(call) /\ Asking(call) /\ Counted(call)
    /\ call.response # Nothing => Truthful(call, st, fa) /\ Delivered(call)
    /\ Remembered(call, le)

IInv == /\ TableOK
        /\ DOMAIN calls = Calls
        /\ \A c \in Calls : CallOK(calls[c], status, facts, learned)

-----------------------------------------------------------------------------
(* The operators of the module.                                            *)

LEMMA RankFacts ==
  /\ DOMAIN Rank = {"absent", "pending", "downloading", "converting", "completed", "error"}
  /\ \A s \in DOMAIN Rank : Rank[s] \in Nat /\ (s # "absent" => Rank[s] >= 1)
  /\ Rank["absent"] = 0 /\ Rank["pending"] = 1
BY DEF Rank, LC!Rank

LEMMA MaxIsMember ==
  ASSUME NEW n \in Nat, NEW S \in SUBSET (1..n), S # {}
  PROVE  Max(S) \in S
<1> SUFFICES ASSUME \A x \in S : \E y \in S : ~(x >= y) PROVE FALSE
  BY DEF Max
<1> DEFINE Passed == {k \in Nat : \E y \in S : y >= k}
<1>1. 0 \in Passed
  <2>1. PICK y \in S : TRUE
    OBVIOUS
  <2>2. y >= 0
    BY <2>1
  <2> QED BY <2>1, <2>2
<1>2. \A k \in Nat : k \in Passed => k + 1 \in Passed
  <2> SUFFICES ASSUME NEW k \in Nat, NEW y \in S, y >= k PROVE \E z \in S : z >= k + 1
    OBVIOUS
  <2>1. PICK z \in S : ~(y >= z)
    OBVIOUS
  <2>2. y \in Nat /\ z \in Nat
    OBVIOUS
  <2> QED BY <2>1, <2>2
<1> HIDE DEF Passed
<1>3. n + 1 \in Passed
  BY <1>1, <1>2, SetInduction
<1> QED BY <1>3 DEF Passed

\* A secret is found exactly if a channel of the configuration has it.
LEMMA ChannelFound ==
  /\ DOMAIN channels = {Config[i].secret : i \in DOMAIN Config}
  /\ \A secret : IF secret \in DOMAIN channels
                 THEN GetChannel(secret) = channels[secret] /\ GetChannel(secret) # Nothing
                 ELSE GetChannel(secret) = Nothing
<1> DEFINE with(secret) == {i \in DOMAIN Config : Config[i].secret = secret}
<1>1. channels = [secret \in {Config[i].secret : i \in DOMAIN Config} |-> Config[Max(with(secret))]]
  BY DEF channels
<1>2. DOMAIN Config = 1..Len(Config) /\ Len(Config) \in Nat
  BY ConfigAssumption
<1>3. ASSUME NEW secret \in DOMAIN channels
      PROVE  Max(with(secret)) \in DOMAIN Config
  <2>1. with(secret) \in SUBSET (1..Len(Config)) /\ with(secret) # {}
    BY <1>1, <1>2, <1>3
  <2> HIDE DEF with
  <2>2. Max(with(secret)) \in with(secret)
    BY <2>1, <1>2, MaxIsMember
  <2> QED BY <1>2, <2>1, <2>2
<1>4. \A i \in DOMAIN Config : Config[i] # Nothing
  <2> SUFFICES ASSUME NEW i \in DOMAIN Config PROVE Config[i] # Nothing
    OBVIOUS
  <2>1. Config[i] = [secret |-> Config[i].secret, name |-> Config[i].name]
    BY ConfigAssumption
  <2>2. DOMAIN Config[i] = {"secret", "name"}
    BY <2>1
  <2>3. DOMAIN Nothing = {"kind"}
    BY DEF Nothing
  <2> QED BY <2>2, <2>3
<1> HIDE DEF with
<1>5. \A secret \in DOMAIN channels : channels[secret] # Nothing
  BY <1>1, <1>3, <1>4
<1> QED BY <1>1, <1>5 DEF GetChannel

LEMMA ApiDownload ==
  ASSUME NEW d, NEW url, NEW s \in DOMAIN Rank, s # "absent", NEW second \in DOMAIN Times
  PROVE  IsDownload([id |-> d, url |-> url, title |-> Unset, status |-> s,
                     progress |-> IF s \in {"converting", "completed"} THEN 1 ELSE 0,
                     filename |-> IF s = "converting" THEN NewOpt("f") ELSE Unset,
                     error |-> IF s = "error" THEN NewOpt("e") ELSE Unset,
                     createdAt |-> Times[second],
                     completedAt |-> IF s \in {"completed", "error"} THEN NewOpt(Times[1]) ELSE Unset])
<1>1. s \in StatusNames
  BY RankFacts DEF StatusNames
<1>2. Times[second] \in DateTimes /\ Times[1] \in DateTimes
  BY TimesAssumption
<1>3. IsOpt(Unset) /\ IsOpt(NewOpt("f")) /\ IsOpt(NewOpt("e")) /\ IsOptDateTime(Unset) /\ IsOptDateTime(NewOpt(Times[1]))
  BY <1>2 DEF IsOpt, IsOptDateTime, Unset, NewOpt
<1>4. 0 \in Int32 /\ 1 \in Int32
  BY Int32Assumption
<1> QED BY <1>1, <1>2, <1>3, <1>4 DEF IsDownload

-----------------------------------------------------------------------------
(* What is true of a call stays true when the table grows.                 *)

Grown(st, fa, le, st2, fa2, le2) ==
  \A d \in Ids : /\ st[d] \in DOMAIN Rank /\ st2[d] \in DOMAIN Rank /\ le[d] \in DOMAIN Rank /\ le2[d] \in DOMAIN Rank
                 /\ Rank[le[d]] <= Rank[st[d]]
                 /\ Rank[le[d]] <= Rank[le2[d]] /\ Rank[st[d]] <= Rank[st2[d]]
                 /\ st[d] # "absent" => fa2[d] = fa[d] /\ st2[d] # "absent"

LEMMA Frame ==
  ASSUME NEW call, NEW st, NEW fa, NEW le, NEW st2, NEW fa2, NEW le2,
         CallOK(call, st, fa, le), Grown(st, fa, le, st2, fa2, le2)
  PROVE  CallOK(call, st2, fa2, le2)
<1> SUFFICES ASSUME call.stage # "idle" PROVE CallOK(call, st2, fa2, le2)
  BY DEF CallOK
<1>1. /\ Made(call) /\ Asking(call) /\ Counted(call)
      /\ call.response # Nothing => Truthful(call, st, fa) /\ Delivered(call)
      /\ Remembered(call, le)
  BY DEF CallOK
<1>2. Remembered(call, le2)
  <2> SUFFICES ASSUME NEW d \in Ids
               PROVE  call.known[d] \in DOMAIN Rank /\ Rank[call.known[d]] <= Rank[le2[d]]
    BY DEF Remembered
  <2>1. /\ call.known[d] \in DOMAIN Rank /\ Rank[call.known[d]] <= Rank[le[d]]
        /\ Rank[le[d]] <= Rank[le2[d]] /\ le[d] \in DOMAIN Rank /\ le2[d] \in DOMAIN Rank
    BY <1>1 DEF Remembered, Grown
  <2>2. Rank[call.known[d]] \in Nat /\ Rank[le[d]] \in Nat /\ Rank[le2[d]] \in Nat
    BY <2>1, RankFacts
  <2> QED BY <2>1, <2>2
<1>3. ASSUME NEW d \in Ids, call.known[d] # "absent"
      PROVE  st[d] # "absent"
  <2>1. /\ call.known[d] \in DOMAIN Rank /\ Rank[call.known[d]] <= Rank[le[d]]
        /\ Rank[le[d]] <= Rank[st[d]] /\ le[d] \in DOMAIN Rank /\ st[d] \in DOMAIN Rank
    BY <1>1 DEF Remembered, Grown
  <2>2. Rank[call.known[d]] >= 1 /\ Rank[call.known[d]] \in Nat /\ Rank[le[d]] \in Nat /\ Rank[st[d]] \in Nat
    BY <2>1, <1>3, RankFacts
  <2> QED BY <2>1, <2>2, RankFacts
<1>4. ASSUME Truthful(call, st, fa)
      PROVE  Truthful(call, st2, fa2)
  <2> DEFINE told == Told(Ok(call.response))
             l == call.response.value.downloads
  <2>1. Stored(told, st)
    BY <1>4 DEF Truthful
  <2>2. Stored(told, st2)
    <3> HIDE DEF told
    <3> SUFFICES ASSUME NEW s \in told
                 PROVE  /\ s.id \in Ids /\ st2[s.id] # "absent"
                        /\ s.status \in DOMAIN Rank /\ Rank[s.status] <= Rank[st2[s.id]]
      BY DEF Stored
    <3>1. /\ s.id \in Ids /\ st[s.id] # "absent"
          /\ s.status \in DOMAIN Rank /\ Rank[s.status] <= Rank[st[s.id]]
      BY <2>1 DEF Stored
    <3>2. /\ st[s.id] \in DOMAIN Rank /\ st2[s.id] \in DOMAIN Rank /\ Rank[st[s.id]] <= Rank[st2[s.id]]
          /\ st2[s.id] # "absent"
      BY <3>1 DEF Grown
    <3>3. Rank[s.status] \in Nat /\ Rank[st[s.id]] \in Nat /\ Rank[st2[s.id]] \in Nat
      BY <3>1, <3>2, RankFacts
    <3> QED BY <3>1, <3>2, <3>3
  <2>3. ASSUME call.response.goType = "DownloadListResponse"
        PROVE  Listed(l, call.decoded.params.secret, fa2)
    <3>1. Listed(l, call.decoded.params.secret, fa)
      BY <1>4, <2>3 DEF Truthful
    <3>2. \A i \in DOMAIN l : fa2[l[i].id] = fa[l[i].id]
      <4>1. told = {l[i] : i \in DOMAIN l}
        BY <2>3 DEF Told, Ok, ToSet
      <4> HIDE DEF told, l
      <4>2. \A i \in DOMAIN l : l[i].id \in Ids /\ st[l[i].id] # "absent"
        BY <2>1, <4>1 DEF Stored
      <4> QED BY <4>2 DEF Grown
    <3> HIDE DEF l
    <3> QED BY <3>1, <3>2 DEF Listed
  <2>4. ASSUME ~call.faulty
        PROVE  Current(call, told, fa2)
    <3>1. Current(call, told, fa)
      BY <1>4, <2>4 DEF Truthful
    <3>2. \A d \in Ids : call.known[d] # "absent" => fa2[d] = fa[d]
      BY <1>3 DEF Grown
    <3> HIDE DEF told
    <3> QED BY <3>1, <3>2 DEF Current
  <2> HIDE DEF l, told
  <2> QED BY <1>4, <2>2, <2>3, <2>4 DEF Truthful, l, told
<1> QED BY <1>1, <1>2, <1>4 DEF CallOK

\* What a step has to show of the table.
NothingLost ==
  \A d \in Ids : /\ Rank[learned[d]] <= Rank[learned'[d]] /\ Rank[status[d]] <= Rank[status'[d]]
                 /\ status[d] # "absent" => facts'[d] = facts[d]

LEMMA Grows ==
  ASSUME TableOK, TableOK', NothingLost
  PROVE  Grown(status, facts, learned, status', facts', learned')
<1> SUFFICES ASSUME NEW d \in Ids
             PROVE  /\ status[d] \in DOMAIN Rank /\ status'[d] \in DOMAIN Rank
                    /\ learned[d] \in DOMAIN Rank /\ learned'[d] \in DOMAIN Rank
                    /\ Rank[learned[d]] <= Rank[status[d]]
                    /\ Rank[learned[d]] <= Rank[learned'[d]] /\ Rank[status[d]] <= Rank[status'[d]]
                    /\ status[d] # "absent" => facts'[d] = facts[d] /\ status'[d] # "absent"
  BY DEF Grown
<1>1. /\ status[d] \in DOMAIN Rank /\ learned[d] \in DOMAIN Rank /\ Rank[learned[d]] <= Rank[status[d]]
  BY DEF TableOK
<1>2. status'[d] \in DOMAIN Rank /\ learned'[d] \in DOMAIN Rank
  BY DEF TableOK
<1>3. /\ Rank[learned[d]] <= Rank[learned'[d]] /\ Rank[status[d]] <= Rank[status'[d]]
      /\ status[d] # "absent" => facts'[d] = facts[d]
  BY DEF NothingLost
<1>4. status[d] # "absent" => status'[d] # "absent"
  BY <1>1, <1>2, <1>3, RankFacts
<1> QED BY <1>1, <1>2, <1>3, <1>4

LEMMA NothingChanged ==
  ASSUME TableOK, UNCHANGED <<status, facts, now, learned>>
  PROVE  TableOK' /\ NothingLost
<1>1. TableOK'
  BY DEF TableOK
<1>2. ASSUME NEW d \in Ids
      PROVE  Rank[learned[d]] \in Nat /\ Rank[status[d]] \in Nat
  BY RankFacts DEF TableOK
<1> QED BY <1>1, <1>2 DEF NothingLost

\* A step of the call in slot c.
LEMMA OneCallSteps ==
  ASSUME IInv, TableOK', NothingLost, NEW c \in Calls, NEW n, Becomes(c, n),
         CallOK(n, status', facts', learned')
  PROVE  IInv'
<1>1. Grown(status, facts, learned, status', facts', learned')
  BY Grows DEF IInv
<1>2. /\ DOMAIN calls' = Calls /\ calls'[c] = n /\ \A x \in Calls \ {c} : calls'[x] = calls[x]
  BY DEF Becomes, IInv
<1>3. ASSUME NEW x \in Calls
      PROVE  CallOK(calls'[x], status', facts', learned')
  <2>1. CASE x = c
    BY <1>2, <2>1
  <2>2. CASE x # c
    <3>1. CallOK(calls[x], status, facts, learned)
      BY DEF IInv
    <3>2. CallOK(calls[x], status', facts', learned')
      BY <1>1, <3>1, Frame
    <3> QED BY <1>2, <2>2, <3>2
  <2> QED BY <2>1, <2>2
<1> QED BY <1>2, <1>3 DEF IInv

\* The same if it leaves the table as it is.
LEMMA OnlyCallSteps ==
  ASSUME IInv, NEW c \in Calls, NEW n, Becomes(c, n), UNCHANGED <<status, facts, now, learned>>,
         CallOK(n, status, facts, learned)
  PROVE  IInv'
<1>1. TableOK' /\ NothingLost
  BY NothingChanged DEF IInv
<1>2. CallOK(n, status', facts', learned')
  BY Zenon
<1> QED BY <1>1, <1>2, OneCallSteps

\* A step of the table alone.
LEMMA TableSteps ==
  ASSUME IInv, TableOK', NothingLost, UNCHANGED calls
  PROVE  IInv'
<1>1. Grown(status, facts, learned, status', facts', learned')
  BY Grows DEF IInv
<1>2. ASSUME NEW x \in Calls
      PROVE  CallOK(calls[x], status', facts', learned')
  <2>1. CallOK(calls[x], status, facts, learned)
    BY DEF IInv
  <2> QED BY <1>1, <2>1, Frame
<1> QED BY <1>2 DEF IInv

-----------------------------------------------------------------------------
(* The clients.                                                            *)

LEMMA TreeEnds ==
  ASSUME NEW method, NEW elem
  PROVE  Tree(method, elem).op \in Operations \union {"notFound", "notAllowed"}
<1>1. \A m, ops, args : \/ m \in DOMAIN ops /\ Leaf(m, ops, args).op = ops[m]
                        \/ Leaf(m, ops, args).op = "notAllowed"
  BY DEF Leaf, Handle, NotAllowed
<1>2. NotFound.op = "notFound"
  BY DEF NotFound
<1>3. \A s, e : AfterDownloads(method, s, e).op \in Operations \union {"notFound", "notAllowed"}
  BY <1>1, <1>2 DEF AfterDownloads, Operations
<1>4. \A s, e : AfterSecret(method, s, e).op \in Operations \union {"notFound", "notAllowed"}
  BY <1>1, <1>2, <1>3 DEF AfterSecret, Operations
<1>5. Leaf(method, [GET |-> "healthcheck"], <<>>).op \in Operations \union {"notFound", "notAllowed"}
  BY <1>1 DEF Operations
<1> QED BY <1>2, <1>4, <1>5, Zenon DEF Tree

LEMMA RoutedSomewhere ==
  ASSUME NEW message
  PROVE  Routed(message).op \in Operations \union {"redirect", "page", "notFound", "notAllowed"}
<1>1. Mux(message.path) \in {"redirect", "api", "page"}
  BY DEF Mux
<1>2. CASE Mux(message.path) = "api"
  <2>1. Routed(message) = Tree(message.method, Elem(ParsePath(message.path)))
    BY <1>2 DEF Routed, ServeHTTP
  <2> QED BY <2>1, TreeEnds
<1>3. CASE Mux(message.path) # "api"
  <2>1. Routed(message).op = Mux(message.path)
    BY <1>3 DEF Routed
  <2> QED BY <1>1, <1>3, <2>1
<1> QED BY <1>2, <1>3

\* The message that is sent for a call is taken for that call.
LEMMA AskedArrives ==
  ASSUME NEW op, NEW params, IsCall(op, params),
         NEW message, message.method = Method[op], message.path = BuildURL(op, params)
  PROVE  /\ op \in Operations /\ Routed(message).op = op
         /\ LET url == ParsePath(message.path)
            IN DecodeParams(op, Routed(message).args, ElemIsEscaped(url)) = params
         /\ ~Refused(params)
<1> DEFINE url    == ParsePath(message.path)
           routed == Routed(message)
           got    == DecodeParams(routed.op, routed.args, ElemIsEscaped(url))
<1>1. Mux(message.path) = "api" /\ Dispatched(message.method, message.path) = <<op, params>>
  BY CallArrives
<1>2. routed = ServeHTTP(message.method, url)
  BY <1>1 DEF Routed
<1>3. op \in Operations
  BY DEF IsCall, Operations
<1>4. Dispatched(message.method, message.path)
        = IF routed.op = "notFound" THEN <<"notFound">>
          ELSE IF routed.op = "notAllowed" THEN <<"notAllowed", routed.allow>>
          ELSE IF Refused(got) THEN <<"refused">> ELSE <<routed.op, got>>
  BY <1>2 DEF Dispatched
<1> HIDE DEF url, routed, got
<1>5. op # "notAllowed"
  BY <1>3 DEF Operations
<1>6. <<op, params>> = <<routed.op, got>> /\ ~Refused(got)
  BY <1>1, <1>4, <1>5
<1>7. routed.op = op /\ got = params
  BY <1>6
<1> QED BY <1>3, <1>6, <1>7 DEF url, routed, got

LEMMA CallStarts ==
  ASSUME IInv, NEW c \in Calls, NEW client \in {"go", "page", "raw"}, NEW asked, NEW message,
         Start(c, client, asked, message),
         client # "raw" => /\ IsCall(asked.op, asked.params)
                           /\ client = "page" => FromLink(asked)
                           /\ message.method = Method[asked.op]
                           /\ message.path = BuildURL(asked.op, asked.params)
                           /\ DecodedRequest(asked.op, message).ok
  PROVE  IInv'
<1> DEFINE n == Sent(client, asked, message)
<1>1. /\ n.stage = "sent" /\ n.client = client /\ n.asked = asked /\ n.message = message /\ n.known = learned
      /\ n.response = Nothing /\ Unanswered(n) /\ n.left = FALSE
      /\ DOMAIN n = Fields
  BY DEF Sent, Fields, Unanswered
<1>2. Becomes(c, n) /\ UNCHANGED <<status, facts, now, learned>>
  BY DEF Start
<1> HIDE DEF n
<1>3. Made(n)
  BY <1>1 DEF Made
<1>4. Asking(n)
  BY <1>1, Zenon DEF Asking
<1>5. Counted(n)
  BY <1>1 DEF Counted, Unanswered
<1>6. Remembered(n, learned)
  <2> SUFFICES ASSUME NEW d \in Ids
               PROVE  n.known[d] \in DOMAIN Rank /\ Rank[n.known[d]] <= Rank[learned[d]]
    BY DEF Remembered
  <2>1. learned[d] \in DOMAIN Rank
    BY DEF IInv, TableOK
  <2>2. Rank[learned[d]] \in Nat
    BY <2>1, RankFacts
  <2> QED BY <1>1, <2>1, <2>2
<1>7. CallOK(n, status, facts, learned)
  BY <1>1, <1>3, <1>4, <1>5, <1>6, Zenon DEF CallOK
<1> QED BY <1>2, <1>7, OnlyCallSteps

LEMMA GoStarts ==
  ASSUME IInv, NEW c \in Calls, NEW asked \in Asked,
         \/ sendHealthcheck(c, asked) \/ sendGetChannelInfo(c, asked) \/ sendListDownloads(c, asked)
         \/ sendGetDownload(c, asked) \/ sendCreateDownload(c, asked)
  PROVE  IInv'
<1>1. IsCall(asked.op, asked.params)
  BY AskedAssumption
<1>2. ASSUME asked.op \in {"healthcheck", "getChannelInfo", "listDownloads", "getDownload"},
             Start(c, "go", asked, Bare("GET", BuildURL(asked.op, asked.params)))
      PROVE  IInv'
  <2> DEFINE message == Bare("GET", BuildURL(asked.op, asked.params))
  <2>1. message.method = "GET" /\ message.path = BuildURL(asked.op, asked.params)
    BY DEF Bare
  <2>2. Method[asked.op] = "GET"
    BY <1>2 DEF Method
  <2>3. DecodedRequest(asked.op, message).ok
    BY <1>2 DEF DecodedRequest, Ok
  <2> HIDE DEF message
  <2>4. Start(c, "go", asked, message)
    BY <1>2 DEF message
  <2> QED BY <1>1, <2>1, <2>2, <2>3, <2>4, CallStarts
<1>3. ASSUME sendCreateDownload(c, asked)
      PROVE  IInv'
  <2> DEFINE request == encodeCreateDownloadRequest([url |-> asked.url])
             message == [method |-> "POST", path |-> BuildURL("createDownload", asked.params),
                         type |-> request.type, body |-> request.body]
  <2>1. /\ message.method = "POST" /\ message.path = BuildURL("createDownload", asked.params)
        /\ message.type = request.type /\ message.body = request.body
    OBVIOUS
  <2>2. asked.op = "createDownload" /\ Start(c, "go", asked, message)
    BY <1>3 DEF sendCreateDownload
  <2>3. Method[asked.op] = "POST"
    BY <2>2 DEF Method
  <2>4. decodeCreateDownloadRequest(request) = Ok([url |-> asked.url])
    BY RequestRoundTrip
  <2> HIDE DEF message, request
  <2>5. decodeCreateDownloadRequest(message) = decodeCreateDownloadRequest(request)
    BY <2>1, Zenon DEF decodeCreateDownloadRequest, DecodeBody
  <2>6. DecodedRequest(asked.op, message).ok
    BY <2>2, <2>4, <2>5 DEF DecodedRequest, Ok
  <2> QED BY <1>1, <2>1, <2>2, <2>3, <2>6, CallStarts
<1>4. CASE sendHealthcheck(c, asked)
  BY <1>2, <1>4 DEF sendHealthcheck, Get
<1>5. CASE sendGetChannelInfo(c, asked)
  BY <1>2, <1>5 DEF sendGetChannelInfo, Get
<1>6. CASE sendListDownloads(c, asked)
  BY <1>2, <1>6 DEF sendListDownloads, Get
<1>7. CASE sendGetDownload(c, asked)
  BY <1>2, <1>7 DEF sendGetDownload, Get
<1> QED BY <1>3, <1>4, <1>5, <1>6, <1>7

LEMMA PageStarts ==
  ASSUME IInv, NEW c \in Calls, NEW secret \in Links, OpenLink(c, secret)
  PROVE  IInv'
<1> DEFINE segment == EscapeSegment(secret)
           params  == [secret |-> segment]
           asked   == [op |-> "getChannelInfo", params |-> params, link |-> secret]
           message == Bare("GET", PageURL(segment))
<1>1. secret \in Texts
  BY LinksAssumption
<1>2. /\ AppSecret(Location(secret)) = segment
      /\ IsCall("getChannelInfo", params) /\ PageURL(segment) = BuildURL("getChannelInfo", params)
  BY <1>1, PageArrives
<1>3. message.method = "GET" /\ message.path = PageURL(segment)
  BY DEF Bare
<1>4. DecodedRequest("getChannelInfo", message).ok
  BY DEF DecodedRequest, Ok
<1>5. Method["getChannelInfo"] = "GET"
  BY DEF Method
<1>6. Start(c, "page", asked, message)
  BY <1>2 DEF OpenLink
<1>7. asked.op = "getChannelInfo" /\ asked.params = params /\ FromLink(asked)
  BY DEF FromLink
<1> HIDE DEF message, asked, params, segment
<1>8. message.path = BuildURL(asked.op, asked.params)
  BY <1>2, <1>3, <1>7
<1> QED BY <1>2, <1>3, <1>4, <1>5, <1>6, <1>7, <1>8, CallStarts

LEMMA RawStarts ==
  ASSUME IInv, NEW c \in Calls, NEW message \in RawMessages, SendRaw(c, message)
  PROVE  IInv'
BY CallStarts DEF SendRaw

-----------------------------------------------------------------------------
(* Steps that give no new answer.                                          *)

LEMMA CallFacts ==
  ASSUME IInv, NEW c \in Calls, calls[c].stage # "idle"
  PROVE  /\ Made(calls[c]) /\ Asking(calls[c]) /\ Counted(calls[c])
         /\ calls[c].response # Nothing => Truthful(calls[c], status, facts) /\ Delivered(calls[c])
         /\ Remembered(calls[c], learned)
BY DEF IInv, CallOK

\* The fields that Sent sets, until the reply is received.
Kept(n, call) == /\ DOMAIN n = Fields
                 /\ n.client = call.client /\ n.asked = call.asked /\ n.known = call.known
                 /\ n.message = call.message

\* What was written and recorded is as it was.
AsRecorded(n, call) == /\ n.reply = call.reply /\ n.recorded = call.recorded /\ n.unwritten = call.unwritten
                       /\ n.requests = call.requests /\ n.errors = call.errors

LEMMA IdleOK == \A st, fa, le : CallOK(Idle, st, fa, le)
BY DEF CallOK, Idle

\* What is true of an answer is true of it whatever becomes of the call.
LEMMA StaysTruthful ==
  ASSUME NEW call, NEW n, NEW st, NEW fa, Truthful(call, st, fa),
         n.decoded = call.decoded, n.response = call.response, n.known = call.known, n.faulty = call.faulty
  PROVE  Truthful(n, st, fa)
BY DEF Truthful, Current

LEMMA CallGoes ==
  ASSUME IInv, NEW c \in Calls, Lose(c) \/ Discard(c)
  PROVE  IInv'
<1>1. Becomes(c, Idle) /\ UNCHANGED <<status, facts, now, learned>>
  BY DEF Lose, Discard
<1> QED BY <1>1, IdleOK, OnlyCallSteps

LEMMA LeaveStep ==
  ASSUME IInv, NEW c \in Calls, Leave(c)
  PROVE  IInv'
<1> DEFINE call == calls[c]
           n    == [call EXCEPT !.left = TRUE]
<1>1. call.stage \in {"handling", "encoding"} /\ Becomes(c, n) /\ UNCHANGED <<status, facts, now, learned>>
  BY DEF Leave, At
<1>2. /\ Made(call) /\ Asking(call) /\ Counted(call)
      /\ call.response # Nothing => Truthful(call, status, facts)
      /\ Remembered(call, learned)
  BY <1>1, CallFacts
<1>3. /\ Kept(n, call) /\ n.left = TRUE /\ n.stage = call.stage /\ n.decoded = call.decoded
      /\ n.response = call.response /\ n.faulty = call.faulty /\ AsRecorded(n, call)
  BY <1>2 DEF Made, Fields, Kept, AsRecorded
<1> HIDE DEF call, n
<1>4. Made(n)
  BY <1>1, <1>2, <1>3 DEF Made, Kept
<1>5. Asking(n)
  <2>1. n.stage \notin {"sent", "answered", "done"} /\ call.stage # "sent"
    BY <1>1, <1>3
  <2> QED BY <1>2, <1>3, <2>1 DEF Asking, Kept
<1>6. Counted(n)
  BY <1>1, <1>2, <1>3 DEF Counted, Unanswered, AsRecorded, Served, Kept
<1>7. Delivered(n)
  BY <1>1, <1>3 DEF Delivered
<1>8. n.response # Nothing => Truthful(n, status, facts)
  BY <1>2, <1>3, StaysTruthful DEF Kept
<1>9. Remembered(n, learned)
  BY <1>2, <1>3 DEF Remembered, Kept
<1>10. CallOK(n, status, facts, learned)
  BY <1>4, <1>5, <1>6, <1>7, <1>8, <1>9 DEF CallOK
<1> QED BY <1>1, <1>10, OnlyCallSteps

LEMMA UnroutedReply ==
  ASSUME NEW method, NEW to \in {"redirect", "page", "notFound", "notAllowed"}
  PROVE  Unrouted(method, to) # Nothing
<1>1. \A code : DOMAIN Text(code) = {"status", "type", "body"}
  BY DEF Text
<1>2. DOMAIN Nothing = {"kind"}
  BY DEF Nothing
<1>3. \A code : Text(code) # Nothing
  BY <1>1, <1>2
<1> QED BY <1>3 DEF Unrouted

\* The last status is recorded; what was written before is not lost.
LEMMA WriteFacts ==
  ASSUME NEW call, DOMAIN call = Fields, NEW written
  PROVE  LET n == Write(call, written)
         IN /\ Kept(n, call) /\ n.recorded = written.status /\ n.reply = Joined(call.reply, written)
            /\ n.stage = call.stage /\ n.decoded = call.decoded
            /\ n.response = call.response /\ n.requests = call.requests /\ n.errors = call.errors
            /\ n.unwritten = call.unwritten /\ n.left = call.left /\ n.faulty = call.faulty
BY DEF Write, Fields, Kept

LEMMA JoinedFacts ==
  ASSUME NEW reply, NEW written
  PROVE  /\ reply = Nothing => Joined(reply, written) = written
         /\ reply # Nothing /\ "status" \in DOMAIN reply =>
              Joined(reply, written).status = reply.status /\ Joined(reply, written) # Nothing
<1>1. reply = Nothing => Joined(reply, written) = written
  BY DEF Joined
<1>2. ASSUME reply # Nothing, "status" \in DOMAIN reply
      PROVE  Joined(reply, written).status = reply.status /\ Joined(reply, written) # Nothing
  <2> DEFINE body   == reply.body \o written.body
             joined == [reply EXCEPT !.body = body]
  <2>1. Joined(reply, written) = joined
    BY <1>2, Zenon DEF Joined
  <2> HIDE DEF body
  <2>2. joined.status = reply.status /\ DOMAIN joined = DOMAIN reply
    BY <1>2
  <2>3. DOMAIN Nothing = {"kind"}
    BY DEF Nothing
  <2> HIDE DEF joined
  <2> QED BY <1>2, <2>1, <2>2, <2>3
<1> QED BY <1>1, <1>2

LEMMA ElsewhereStep ==
  ASSUME IInv, NEW c \in Calls, Elsewhere(c)
  PROVE  IInv'
<1> DEFINE call    == calls[c]
           to      == Routed(call.message).op
           written == Unrouted(call.message.method, to)
           w       == Write(call, written)
           n       == [w EXCEPT !.stage = "answered"]
<1>1. /\ call.stage = "sent" /\ to \notin Operations /\ Becomes(c, n)
      /\ UNCHANGED <<status, facts, now, learned>>
  BY DEF Elsewhere, At
<1>2. Made(call) /\ Asking(call) /\ Counted(call) /\ Remembered(call, learned)
  BY <1>1, CallFacts
<1>3. written # Nothing
  <2>1. to \in {"redirect", "page", "notFound", "notAllowed"}
    BY <1>1, RoutedSomewhere
  <2> HIDE DEF to
  <2> QED BY <2>1, UnroutedReply
<1> HIDE DEF written
<1>4. call.client = "raw"
  <2> SUFFICES ASSUME call.client # "raw" PROVE FALSE
    OBVIOUS
  <2>1. /\ IsCall(call.asked.op, call.asked.params)
        /\ call.message.method = Method[call.asked.op]
        /\ call.message.path = BuildURL(call.asked.op, call.asked.params)
    BY <1>1, <1>2 DEF Asking
  <2>2. to \in Operations
    BY <2>1, AskedArrives
  <2> QED BY <1>1, <2>2
<1>5. call.reply = Nothing /\ call.response = Nothing /\ call.requests = <<>> /\ call.errors = <<>> /\ ~call.left
  BY <1>1, <1>2 DEF Counted, Unanswered, Made
<1>6. /\ Kept(w, call) /\ w.reply = written /\ w.response = call.response
      /\ w.requests = call.requests /\ w.errors = call.errors /\ w.left = call.left
  <2> HIDE DEF call
  <2> QED BY <1>2, <1>5, WriteFacts, JoinedFacts DEF Made
<1> HIDE DEF w
<1>7. /\ Kept(n, call) /\ n.reply = written /\ n.response = Nothing
      /\ n.requests = <<>> /\ n.errors = <<>> /\ n.left = call.left /\ n.stage = "answered"
  BY <1>5, <1>6 DEF Kept, Fields
<1> HIDE DEF n
<1>13. ~Served(n)
  BY <1>1, <1>7 DEF Served, Kept
<1> HIDE DEF call
<1>8. Made(n)
  BY <1>2, <1>7 DEF Made, Kept
<1>9. Asking(n)
  BY <1>4, <1>7 DEF Asking, Kept
<1>10. Counted(n)
  BY <1>3, <1>7, <1>13 DEF Counted, WellRecorded
<1>11. Remembered(n, learned)
  BY <1>2, <1>7 DEF Remembered, Kept
<1>12. CallOK(n, status, facts, learned)
  BY <1>7, <1>8, <1>9, <1>10, <1>11 DEF CallOK
<1> QED BY <1>1, <1>12, OnlyCallSteps

-----------------------------------------------------------------------------
(* The generated server.                                                   *)

\* A handle function returns: what it wrote is the reply.
LEMMA Returned ==
  ASSUME NEW call, DOMAIN call = Fields, call.requests = <<>>, call.errors = <<>>,
         NEW failed \in BOOLEAN, NEW n, n = Return(call, failed)
  PROVE  /\ Kept(n, call) /\ n.stage = "answered"
         /\ Recorded(n, call.recorded, IF failed THEN <<call.recorded>> ELSE <<>>)
         /\ n.decoded = call.decoded /\ n.response = call.response /\ n.reply = call.reply
         /\ n.unwritten = call.unwritten /\ n.left = call.left /\ n.faulty = call.faulty
<1>1. Append(<<>>, call.recorded) = <<call.recorded>>
  OBVIOUS
<1> QED BY <1>1 DEF Return, Fields, Kept, Recorded

\* A handle function returns with an error.
Fails(call) == Return(call, TRUE)

LEMMA ReturnedError ==
  ASSUME NEW call, DOMAIN call = Fields, call.requests = <<>>, call.errors = <<>>
  PROVE  LET n == Fails(call)
         IN /\ Kept(n, call) /\ n.stage = "answered" /\ Recorded(n, call.recorded, <<call.recorded>>)
            /\ n.decoded = call.decoded /\ n.response = call.response /\ n.reply = call.reply
            /\ n.unwritten = call.unwritten /\ n.left = call.left /\ n.faulty = call.faulty
<1>1. Append(<<>>, call.recorded) = <<call.recorded>>
  OBVIOUS
<1> QED BY <1>1 DEF Fails, Return, Fields, Kept, Recorded

LEMMA ErrorWritten ==
  ASSUME NEW code
  PROVE  LET written == [status |-> code, type |-> JSON,
                         body |-> <<Object(Field("error_message", Str("m")))>>]
         IN written.status = code /\ written # Nothing
<1> DEFINE body    == <<Object(Field("error_message", Str("m")))>>
           written == [status |-> code, type |-> JSON, body |-> body]
<1> HIDE DEF body
<1>1. DOMAIN written = {"status", "type", "body"} /\ written.status = code
  OBVIOUS
<1>2. DOMAIN Nothing = {"kind"}
  BY DEF Nothing
<1> HIDE DEF written
<1>3. written.status = code /\ written # Nothing
  BY <1>1, <1>2
<1> QED BY <1>3 DEF written, body

\* A request that is refused before the handler sees it.
RefusedWith(n, call, code) ==
  /\ Kept(n, call) /\ n.stage = "answered" /\ Recorded(n, code, <<code>>)
  /\ n.response = call.response /\ n.unwritten = FALSE /\ n.left = call.left
  /\ n.reply # Nothing /\ n.reply.status = code

LEMMA Refusing ==
  ASSUME NEW call, DOMAIN call = Fields, Unanswered(call), NEW code
  PROVE  RefusedWith(Fails(ErrorHandler(call, code)), call, code)
<1> DEFINE n == Fails(ErrorHandler(call, code))
           written == [status |-> code, type |-> JSON, body |-> <<Object(Field("error_message", Str("m")))>>]
           w       == Write(call, written)
<1>1. written.status = code /\ written # Nothing
  BY ErrorWritten
<1>2. n = Fails(w)
  BY DEF ErrorHandler
<1> HIDE DEF written
<1>3. /\ Kept(w, call) /\ w.recorded = written.status /\ w.reply = written /\ w.response = call.response
      /\ w.requests = <<>> /\ w.errors = <<>> /\ w.unwritten = FALSE /\ w.left = call.left
  BY WriteFacts, JoinedFacts DEF Unanswered
<1> HIDE DEF w, n
<1>4. /\ Kept(n, w) /\ n.stage = "answered" /\ Recorded(n, w.recorded, <<w.recorded>>)
      /\ n.response = w.response /\ n.reply = w.reply /\ n.unwritten = w.unwritten /\ n.left = w.left
  BY <1>2, <1>3, ReturnedError DEF Kept
<1>5. /\ Kept(n, call) /\ n.stage = "answered" /\ Recorded(n, code, <<code>>)
      /\ n.response = call.response /\ n.unwritten = FALSE /\ n.left = call.left
      /\ n.reply # Nothing /\ n.reply.status = code
  BY <1>1, <1>3, <1>4 DEF Kept
<1>6. RefusedWith(n, call, code)
  BY <1>5 DEF RefusedWith
<1> QED BY <1>6 DEF n

LEMMA BeginsStep ==
  ASSUME IInv, NEW c \in Calls, NEW op \in Operations, Begins(c, op)
  PROVE  IInv'
<1> DEFINE call    == calls[c]
           args    == Routed(call.message).args
           escaped == ElemIsEscaped(ParsePath(call.message.path))
           params  == DecodeParams(op, args, escaped)
           request == DecodedRequest(op, call.message)
           n       == Decode(call, op, args, escaped)
<1>1. /\ call.stage = "sent" /\ Routed(call.message).op = op /\ Becomes(c, n)
      /\ UNCHANGED <<status, facts, now, learned>>
  BY DEF Begins, At
<1>2. Made(call) /\ Asking(call) /\ Counted(call) /\ Remembered(call, learned)
  BY <1>1, CallFacts
<1>3. DOMAIN call = Fields /\ Unanswered(call) /\ call.response = Nothing /\ ~call.left /\ Served(call)
  BY <1>1, <1>2 DEF Counted, Made, Served
<1>4. ASSUME call.client # "raw"
      PROVE  op = call.asked.op /\ params = call.asked.params /\ ~Refused(params) /\ request.ok
  <2>1. /\ IsCall(call.asked.op, call.asked.params)
        /\ call.message.method = Method[call.asked.op]
        /\ call.message.path = BuildURL(call.asked.op, call.asked.params)
        /\ DecodedRequest(call.asked.op, call.message).ok
    BY <1>1, <1>2, <1>4 DEF Asking
  <2>2. /\ Routed(call.message).op = call.asked.op
        /\ DecodeParams(call.asked.op, args, escaped) = call.asked.params
        /\ ~Refused(call.asked.params)
    BY <2>1, AskedArrives
  <2> HIDE DEF args, escaped, call
  <2> QED BY <1>1, <2>1, <2>2
<1>5. \/ /\ Refused(params) \/ ~request.ok
         /\ \E code \in {400, 415} : n = Fails(ErrorHandler(call, code))
      \/ /\ ~Refused(params) /\ request.ok
         /\ n = [call EXCEPT !.stage = "handling",
                             !.decoded = [op |-> op, params |-> params, request |-> request.value]]
  <2>1. n = IF Refused(params) THEN Fails(ErrorHandler(call, 400))
            ELSE IF ~request.ok
            THEN Fails(ErrorHandler(call, RefusedBody(call.message)))
            ELSE [call EXCEPT !.stage = "handling",
                              !.decoded = [op |-> op, params |-> params, request |-> request.value]]
    BY DEF Decode, Fails
  <2> HIDE DEF call, params, request, n
  <2>2. CASE Refused(params)
    <3>1. n = Fails(ErrorHandler(call, 400))
      BY <2>1, <2>2
    <3> QED BY <2>2, <3>1
  <2>3. CASE ~Refused(params) /\ ~request.ok
    <3>1. RefusedBody(call.message) \in {400, 415}
      BY DEF RefusedBody
    <3>2. n = Fails(ErrorHandler(call, RefusedBody(call.message)))
      BY <2>1, <2>3, Zenon
    <3> QED BY <2>3, <3>1, <3>2, Zenon
  <2>4. CASE ~Refused(params) /\ request.ok
    BY <2>1, <2>4
  <2> QED BY <2>2, <2>3, <2>4
<1> HIDE DEF n, request, params, args, escaped
<1>6. CASE Refused(params) \/ ~request.ok
  <2>1. PICK code \in {400, 415} : n = Fails(ErrorHandler(call, code))
    BY <1>5, <1>6
  <2>2. call.client = "raw"
    BY <1>4, <1>6
  <2> HIDE DEF call
  <2>3. /\ Kept(n, call) /\ n.stage = "answered" /\ Recorded(n, code, <<code>>)
        /\ n.response = Nothing /\ n.unwritten = FALSE /\ n.left = call.left
        /\ n.reply # Nothing /\ n.reply.status = code
    <3>1. RefusedWith(Fails(ErrorHandler(call, code)), call, code)
      BY <1>3, Refusing
    <3>2. RefusedWith(n, call, code)
      BY <2>1, <3>1
    <3> QED BY <1>3, <3>2 DEF RefusedWith
  <2>4. Made(n)
    BY <1>2, <2>3 DEF Made, Kept
  <2>5. Asking(n)
    BY <2>2, <2>3 DEF Asking, Kept
  <2>6. Counted(n)
    <3>1. Served(n)
      BY <1>3, <2>3 DEF Served, Kept
    <3> QED BY <2>3, <3>1 DEF Counted, WellRecorded, Recorded
  <2>7. Remembered(n, learned)
    BY <1>2, <2>3 DEF Remembered, Kept
  <2>8. CallOK(n, status, facts, learned)
    BY <2>3, <2>4, <2>5, <2>6, <2>7 DEF CallOK
  <2> QED BY <1>1, <2>8, OnlyCallSteps
<1>7. CASE ~Refused(params) /\ request.ok
  <2>1. n = [call EXCEPT !.stage = "handling",
                         !.decoded = [op |-> op, params |-> params, request |-> request.value]]
    BY <1>5, <1>7
  <2> HIDE DEF call
  <2>2. /\ Kept(n, call) /\ n.stage = "handling" /\ Unanswered(n)
        /\ n.response = Nothing /\ n.left = call.left
        /\ n.decoded.op = op /\ n.decoded.params = params
    BY <1>3, <2>1 DEF Kept, Fields, Unanswered
  <2>3. Made(n)
    BY <1>2, <2>2 DEF Made, Kept
  <2>4. Asking(n)
    BY <1>2, <1>4, <2>2 DEF Asking, Kept
  <2>5. Counted(n)
    <3>1. Served(n)
      BY <1>3, <2>2 DEF Served, Kept
    <3> QED BY <2>2, <3>1 DEF Counted, Unanswered
  <2>6. Remembered(n, learned)
    BY <1>2, <2>2 DEF Remembered, Kept
  <2>7. CallOK(n, status, facts, learned)
    BY <2>2, <2>3, <2>4, <2>5, <2>6 DEF CallOK
  <2> QED BY <1>1, <2>7, OnlyCallSteps
<1> QED BY <1>6, <1>7

\* What is encoded is written, unless writing fails.
LEMMA EncodedFacts ==
  ASSUME NEW call, DOMAIN call = Fields, Unanswered(call),
         NEW failed \in BOOLEAN, NEW written, written = EncodeResponse(call.decoded.op, call.response),
         written # Nothing, DOMAIN written = {"status", "type", "body"},
         NEW n, n = Encoded(call, failed)
  PROVE  /\ Kept(n, call) /\ n.stage = "answered" /\ n.decoded = call.decoded
         /\ n.response = call.response /\ n.left = call.left /\ n.faulty = call.faulty
         /\ n.reply # Nothing /\ n.reply.status = written.status /\ n.unwritten = failed
         /\ ~failed => /\ n.reply = written
                       /\ Recorded(n, written.status, IF written.status >= 500 THEN <<written.status>> ELSE <<>>)
         /\ failed => Recorded(n, 500, <<500>>)
<1> DEFINE w == Write(call, written)
<1>1. /\ Kept(w, call) /\ w.recorded = written.status /\ w.reply = written /\ w.response = call.response
      /\ w.requests = <<>> /\ w.errors = <<>> /\ w.unwritten = FALSE
      /\ w.left = call.left /\ w.faulty = call.faulty /\ w.decoded = call.decoded
  BY WriteFacts, JoinedFacts DEF Unanswered
<1>2. n = IF failed THEN Fails(ErrorHandler([w EXCEPT !.unwritten = TRUE], 500))
          ELSE Return(w, w.reply.status >= 500)
  BY DEF Encoded, Fails
<1> HIDE DEF w
<1>3. CASE ~failed
  <2> DEFINE big == written.status >= 500
  <2>1. big \in BOOLEAN /\ n = Return(w, big)
    BY <1>1, <1>2, <1>3
  <2> HIDE DEF big
  <2>2. /\ Kept(n, w) /\ n.stage = "answered"
        /\ Recorded(n, w.recorded, IF big THEN <<w.recorded>> ELSE <<>>)
        /\ n.decoded = w.decoded /\ n.response = w.response /\ n.reply = w.reply
        /\ n.unwritten = w.unwritten /\ n.left = w.left /\ n.faulty = w.faulty
    BY <1>1, <2>1, Returned DEF Kept
  <2>3. Recorded(n, written.status, IF written.status >= 500 THEN <<written.status>> ELSE <<>>)
    BY <1>1, <2>2 DEF big
  <2>4. n.unwritten = failed
    BY <1>1, <1>3, <2>2
  <2> QED BY <1>1, <1>3, <2>2, <2>3, <2>4 DEF Kept
<1>4. CASE failed
  <2> DEFINE second == [status |-> 500, type |-> JSON, body |-> <<Object(Field("error_message", Str("m")))>>]
             u      == [w EXCEPT !.unwritten = TRUE]
             e      == Write(u, second)
             reply  == Joined(written, second)
  <2>1. second.status = 500 /\ n = Fails(e)
    BY <1>2, <1>4 DEF ErrorHandler
  <2> HIDE DEF second
  <2>2. reply.status = written.status /\ reply # Nothing
    BY JoinedFacts
  <2>3. /\ Kept(u, w) /\ u.unwritten = TRUE /\ u.reply = w.reply
        /\ u.response = w.response /\ u.requests = w.requests /\ u.errors = w.errors
        /\ u.left = w.left /\ u.faulty = w.faulty /\ u.decoded = w.decoded
    BY <1>1 DEF Kept, Fields
  <2> HIDE DEF u
  <2>4. /\ Kept(e, u) /\ e.recorded = second.status /\ e.reply = Joined(u.reply, second)
        /\ e.decoded = u.decoded /\ e.response = u.response /\ e.requests = u.requests
        /\ e.errors = u.errors /\ e.unwritten = u.unwritten /\ e.left = u.left /\ e.faulty = u.faulty
    BY <2>3, WriteFacts DEF Kept
  <2> HIDE DEF e
  <2>5. e.recorded = 500 /\ e.requests = <<>> /\ e.errors = <<>> /\ e.unwritten = TRUE /\ DOMAIN e = Fields
    BY <1>1, <2>1, <2>3, <2>4 DEF Kept
  <2>6. Joined(u.reply, second) = reply
    BY <1>1, <2>3
  <2> HIDE DEF reply
  <2>7. /\ Kept(n, e) /\ n.stage = "answered" /\ Recorded(n, e.recorded, <<e.recorded>>)
        /\ n.decoded = e.decoded /\ n.response = e.response /\ n.reply = e.reply
        /\ n.unwritten = e.unwritten /\ n.left = e.left /\ n.faulty = e.faulty
    BY <2>1, <2>5, ReturnedError
  <2>8. /\ Kept(n, call) /\ n.decoded = call.decoded
        /\ n.response = call.response /\ n.left = call.left /\ n.faulty = call.faulty
        /\ n.reply # Nothing /\ n.reply.status = written.status
    BY <1>1, <2>2, <2>3, <2>4, <2>6, <2>7 DEF Kept
  <2>9. n.unwritten = failed
    BY <1>4, <2>5, <2>7
  <2>10. Recorded(n, 500, <<500>>)
    BY <2>5, <2>7
  <2> QED BY <1>4, <2>7, <2>8, <2>9, <2>10
<1> QED BY <1>3, <1>4

\* Every response of an operation is written as a status and a body; the status of a
\* server error is that of the response.
LEMMA EncodedForm ==
  ASSUME NEW op, NEW r, IsResponse(op, r)
  PROVE  LET written == EncodeResponse(op, r)
         IN /\ op \in Operations /\ written # Nothing /\ DOMAIN written = {"status", "type", "body"}
            /\ written.status >= 500 <=> ServerError(r)
<1>1. op \in Operations
  BY DEF IsResponse, Operations
<1>2. \A code, v : Written(code, v).status = code /\ DOMAIN Written(code, v) = {"status", "type", "body"}
  BY DEF Written
<1> DEFINE code == IF IsError(r) THEN r.value.StatusCode ELSE IF op = "createDownload" THEN 202 ELSE 200
<1>3. IsError(r) => /\ op \in {"getChannelInfo", "listDownloads", "createDownload", "getDownload"}
                    /\ r.value.StatusCode \in 400..599
  BY DEF IsResponse, IsError, IsErrorStatus
<1>4. \E v : EncodeResponse(op, r) = Written(code, v)
  <2>1. CASE IsError(r)
    <3>1. encodeError(r) = Written(code, EncodeErrorResponse(r.value.Response))
      BY <1>3, <2>1 DEF encodeError
    <3>2. EncodeResponse(op, r) = encodeError(r)
      BY <1>3, <2>1 DEF EncodeResponse, encodeGetChannelInfoResponse, encodeListDownloadsResponse,
                        encodeCreateDownloadResponse, encodeGetDownloadResponse
    <3> QED BY <3>1, <3>2
  <2>2. CASE ~IsError(r)
    BY <1>1, <2>2 DEF Operations, EncodeResponse, encodeHealthcheckResponse, encodeGetChannelInfoResponse,
                      encodeListDownloadsResponse, encodeCreateDownloadResponse, encodeGetDownloadResponse
  <2> QED BY <2>1, <2>2
<1>5. PICK v : EncodeResponse(op, r) = Written(code, v)
  BY <1>4
<1>6. code >= 500 <=> ServerError(r)
  BY <1>3 DEF ServerError
<1>7. DOMAIN Nothing = {"kind"}
  BY DEF Nothing
<1> DEFINE written == EncodeResponse(op, r)
<1>8. written.status = code /\ DOMAIN written = {"status", "type", "body"}
  BY <1>2, <1>5
<1> HIDE DEF written, code
<1>9. written # Nothing
  BY <1>7, <1>8
<1> QED BY <1>1, <1>6, <1>8, <1>9 DEF written

LEMMA EndsStep ==
  ASSUME IInv, NEW c \in Calls, NEW op \in Operations, Ends(c, op)
  PROVE  IInv'
<1> DEFINE call    == calls[c]
           written == EncodeResponse(call.decoded.op, call.response)
<1>1. call.stage = "encoding" /\ UNCHANGED <<status, facts, now, learned>>
  BY DEF Ends, At
<1>2. PICK failed \in BOOLEAN : (failed => call.left) /\ Becomes(c, Encoded(call, failed))
  BY DEF Ends
<1> DEFINE n == Encoded(call, failed)
<1>3. Made(call) /\ Asking(call) /\ Counted(call) /\ Remembered(call, learned)
  BY <1>1, CallFacts
<1>4. DOMAIN call = Fields /\ Unanswered(call) /\ call.response # Nothing /\ Served(call)
  BY <1>1, <1>3 DEF Counted, Made
<1>5. Truthful(call, status, facts)
  BY <1>1, <1>4, CallFacts
<1>6. /\ written # Nothing /\ DOMAIN written = {"status", "type", "body"}
      /\ written.status >= 500 <=> ServerError(call.response)
  BY <1>5, EncodedForm DEF Truthful
<1> HIDE DEF call
<1>7. /\ Kept(n, call) /\ n.stage = "answered" /\ n.decoded = call.decoded
      /\ n.response = call.response /\ n.left = call.left /\ n.faulty = call.faulty
      /\ n.reply # Nothing /\ n.reply.status = written.status /\ n.unwritten = failed
      /\ ~failed => /\ n.reply = written
                    /\ Recorded(n, written.status, IF written.status >= 500 THEN <<written.status>> ELSE <<>>)
      /\ failed => Recorded(n, 500, <<500>>)
  <2> HIDE DEF written
  <2>1. n = Encoded(call, failed) /\ written = EncodeResponse(call.decoded.op, call.response)
    BY DEF written
  <2> HIDE DEF n
  <2> QED BY <1>4, <1>6, <2>1, EncodedFacts
<1>8. Becomes(c, n)
  BY <1>2
<1>9. n.reply = written \/ n.left
  BY <1>2, <1>7
<1> HIDE DEF n
<1>10. Made(n)
  BY <1>3, <1>7 DEF Made, Kept
<1>11. Asking(n)
  <2>1. n.response # Nothing /\ n.stage # "sent" /\ call.stage # "sent"
    BY <1>1, <1>4, <1>7
  <2> QED BY <1>3, <1>7, <2>1 DEF Asking, Kept
<1>12. Counted(n)
  <2> DEFINE status_ == written.status
  <2>1. Served(n)
    BY <1>4, <1>7 DEF Served, Kept
  <2>2. n.reply.status = status_ /\ (status_ >= 500 <=> ServerError(n.response)) /\ n.response # Nothing
    BY <1>4, <1>6, <1>7
  <2>3. /\ ~failed => Recorded(n, status_, IF status_ >= 500 THEN <<status_>> ELSE <<>>)
        /\ failed => Recorded(n, 500, <<500>>)
    BY <1>7
  <2> HIDE DEF status_, written
  <2>4. WellRecorded(n)
    BY <1>7, <2>1, <2>2, <2>3 DEF Recorded, WellRecorded
  <2>5. n.requests \in {<<>>, <<n.recorded>>} /\ n.errors \in {<<>>, n.requests}
    BY <2>3 DEF Recorded
  <2> QED BY <1>7, <2>4, <2>5 DEF Counted
<1>13. Truthful(n, status, facts)
  BY <1>5, <1>7, StaysTruthful DEF Kept
<1>14. Delivered(n)
  <2>1. n.stage = "answered" /\ (~n.left => n.reply = EncodeResponse(n.decoded.op, n.response))
    BY <1>7, <1>9
  <2> QED BY <2>1 DEF Delivered
<1>15. Remembered(n, learned)
  BY <1>3, <1>7 DEF Remembered, Kept
<1>16. CallOK(n, status, facts, learned)
  BY <1>7, <1>10, <1>11, <1>12, <1>13, <1>14, <1>15 DEF CallOK
<1> QED BY <1>1, <1>8, <1>16, OnlyCallSteps

-----------------------------------------------------------------------------
(* The table.                                                              *)

LEMMA TickStep ==
  ASSUME IInv, Tick
  PROVE  IInv'
<1>1. now' = now + 1 /\ now < Len(Times) /\ UNCHANGED <<calls, status, facts, learned>>
  BY DEF Tick
<1>2. now \in Nat /\ Len(Times) \in Nat /\ DOMAIN Times = 1..Len(Times) /\ now \in DOMAIN Times
  BY TimesAssumption DEF IInv, TableOK
<1>3. now' \in DOMAIN Times
  BY <1>1, <1>2
<1>4. TableOK'
  BY <1>1, <1>3 DEF IInv, TableOK
<1>5. ASSUME NEW d \in Ids
      PROVE  Rank[learned[d]] \in Nat /\ Rank[status[d]] \in Nat
  BY RankFacts DEF TableOK, IInv
<1>6. NothingLost
  BY <1>1, <1>5 DEF NothingLost
<1> QED BY <1>1, <1>4, <1>6, TableSteps

LEMMA ReportStep ==
  ASSUME IInv, NEW d \in Ids, Report(d)
  PROVE  IInv'
<1>1. LC!Report(d) /\ UNCHANGED <<calls, facts, now, learned>>
  BY DEF Report
<1>2. PICK s \in {"downloading", "converting", "completed", "error"} :
        /\ status[d] # "absent" /\ Rank[status[d]] < Rank[s] /\ status' = [status EXCEPT ![d] = s]
  BY <1>1 DEF LC!Report, Rank
<1>3. TableOK
  BY DEF IInv
<1>4. /\ status'[d] = s /\ s \in DOMAIN Rank /\ s # "absent" /\ status' \in [Ids -> DOMAIN Rank]
      /\ \A e \in Ids \ {d} : status'[e] = status[e]
  BY <1>2, <1>3, RankFacts DEF TableOK
<1>5. ASSUME NEW e \in Ids
      PROVE  /\ Rank[status[e]] <= Rank[status'[e]] /\ (status'[e] = "absent" <=> status[e] = "absent")
             /\ Rank[learned[e]] <= Rank[learned'[e]] /\ Rank[learned'[e]] <= Rank[status'[e]]
  <2>1. /\ status[e] \in DOMAIN Rank /\ learned[e] \in DOMAIN Rank /\ status'[e] \in DOMAIN Rank
        /\ Rank[learned[e]] <= Rank[status[e]] /\ learned'[e] = learned[e]
    BY <1>1, <1>3, <1>4 DEF TableOK
  <2>2. Rank[status[e]] \in Nat /\ Rank[learned[e]] \in Nat /\ Rank[status'[e]] \in Nat
    BY <2>1, RankFacts
  <2>3. CASE e = d
    BY <1>2, <1>4, <2>1, <2>2, <2>3
  <2>4. CASE e # d
    BY <1>4, <2>1, <2>2, <2>4
  <2> QED BY <2>3, <2>4
<1>6. NothingLost
  BY <1>1, <1>5 DEF NothingLost
<1>7. TableOK'
  BY <1>1, <1>3, <1>4, <1>5 DEF TableOK
<1> QED BY <1>1, <1>6, <1>7, TableSteps

-----------------------------------------------------------------------------
(* The client gets the reply.                                              *)

\* What Receive makes of what is known of a download.
Latest(told, d) ==
  LET of == {s.status : s \in {t \in told : t.id = d}}
  IN IF of = {} THEN learned[d]
     ELSE LET s == CHOOSE s \in of : TRUE
          IN IF Rank[s] > Rank[learned[d]] THEN s ELSE learned[d]

\* What a client is told of a stored download moves what is known of it forward.
LEMMA LatestFacts ==
  ASSUME TableOK, NEW told, Stored(told, status), NEW d \in Ids
  PROVE  /\ Latest(told, d) \in DOMAIN Rank
         /\ Rank[learned[d]] <= Rank[Latest(told, d)] /\ Rank[Latest(told, d)] <= Rank[status[d]]
<1> DEFINE of == {s.status : s \in {t \in told : t.id = d}}
           s  == CHOOSE s \in of : TRUE
<1>1. Latest(told, d) = IF of = {} THEN learned[d] ELSE IF Rank[s] > Rank[learned[d]] THEN s ELSE learned[d]
  BY DEF Latest
<1>2. /\ learned[d] \in DOMAIN Rank /\ status[d] \in DOMAIN Rank /\ Rank[learned[d]] <= Rank[status[d]]
  BY DEF TableOK
<1>3. Rank[learned[d]] \in Nat /\ Rank[status[d]] \in Nat
  BY <1>2, RankFacts
<1>4. \A x \in of : x \in DOMAIN Rank /\ Rank[x] <= Rank[status[d]]
  BY DEF Stored
<1>5. of # {} => s \in of
  OBVIOUS
<1> HIDE DEF of, s
<1>6. CASE of # {} /\ Rank[s] > Rank[learned[d]]
  <2>1. Latest(told, d) = s
    BY <1>1, <1>6
  <2>2. s \in DOMAIN Rank /\ Rank[s] <= Rank[status[d]]
    BY <1>4, <1>5, <1>6
  <2>3. Rank[s] \in Nat
    BY <2>2, RankFacts
  <2> QED BY <1>3, <1>6, <2>1, <2>2, <2>3
<1>7. CASE ~(of # {} /\ Rank[s] > Rank[learned[d]])
  <2>1. Latest(told, d) = learned[d]
    BY <1>1, <1>7
  <2> QED BY <1>2, <1>3, <2>1
<1> QED BY <1>6, <1>7

LEMMA Learning ==
  ASSUME TableOK, NEW told, Stored(told, status), UNCHANGED <<status, facts, now>>,
         learned' = [d \in Ids |-> Latest(told, d)]
  PROVE  TableOK' /\ NothingLost
<1>1. ASSUME NEW d \in Ids
      PROVE  /\ learned'[d] \in DOMAIN Rank
             /\ Rank[learned[d]] <= Rank[learned'[d]] /\ Rank[learned'[d]] <= Rank[status'[d]]
             /\ Rank[status[d]] <= Rank[status'[d]] /\ status'[d] = status[d] /\ facts'[d] = facts[d]
  <2>1. learned'[d] = Latest(told, d) /\ status'[d] = status[d] /\ facts'[d] = facts[d]
    OBVIOUS
  <2>2. status[d] \in DOMAIN Rank
    BY DEF TableOK
  <2>3. Rank[status[d]] \in Nat
    BY <2>2, RankFacts
  <2>4. Rank[status[d]] <= Rank[status'[d]]
    BY <2>1, <2>3
  <2> QED BY <2>1, <2>4, LatestFacts
<1>2. learned' \in [Ids -> DOMAIN Rank]
  <2>1. \A d \in Ids : Latest(told, d) \in DOMAIN Rank
    BY LatestFacts
  <2> QED BY <2>1
<1>3. NothingLost
  BY <1>1 DEF NothingLost
<1>4. TableOK'
  BY <1>1, <1>2 DEF TableOK
<1> QED BY <1>3, <1>4

LEMMA ReceiveStep ==
  ASSUME IInv, NEW c \in Calls, Receive(c)
  PROVE  IInv'
<1> DEFINE call   == calls[c]
           result == CASE call.client = "go"   -> DecodeResponse(call.asked.op, call.reply)
                       [] call.client = "page" -> PageResult(call.reply)
           told   == IF call.client = "go" THEN Told(result) ELSE {}
           n      == [call EXCEPT !.stage = "done", !.message = Nothing, !.result = result]
<1>1. /\ call.stage = "answered" /\ ~call.left /\ call.client # "raw" /\ Becomes(c, n)
      /\ UNCHANGED <<status, facts, now>>
  BY DEF Receive, At
<1>2. learned' = [d \in Ids |-> Latest(told, d)]
  BY DEF Receive, Rank, Latest
<1>3. Made(call) /\ Asking(call) /\ Counted(call) /\ Remembered(call, learned)
  BY <1>1, CallFacts
<1>4. call.response # Nothing /\ call.decoded.op = call.asked.op
  BY <1>1, <1>3 DEF Asking
<1>5. Truthful(call, status, facts) /\ Delivered(call)
  BY <1>1, <1>4, CallFacts
<1>6. call.reply = EncodeResponse(call.decoded.op, call.response)
  BY <1>1, <1>5 DEF Delivered
<1>7. IsResponse(call.decoded.op, call.response)
  BY <1>5 DEF Truthful
<1>8. DecodeResponse(call.asked.op, call.reply) = Ok(call.response)
  BY <1>4, <1>6, <1>7, ResponseRoundTrip
<1>9. call.client \in {"go", "page"}
  BY <1>1, <1>3 DEF Made
<1>10. result = IF call.client = "go" THEN Ok(call.response) ELSE PageResult(call.reply)
  BY <1>8, <1>9
<1> HIDE DEF result
<1>11. Stored(told, status)
  <2>1. Stored(Told(Ok(call.response)), status)
    BY <1>5 DEF Truthful
  <2>2. Stored({}, status)
    BY DEF Stored
  <2>3. told = Told(Ok(call.response)) \/ told = {}
    BY <1>10
  <2> QED BY <2>1, <2>2, <2>3
<1> HIDE DEF told
<1>12. TableOK' /\ NothingLost
  BY <1>1, <1>2, <1>11, Learning DEF IInv
<1> HIDE DEF call
<1>13. /\ DOMAIN n = Fields /\ n.client = call.client /\ n.asked = call.asked /\ n.known = call.known
       /\ n.stage = "done" /\ n.result = result /\ n.decoded = call.decoded
       /\ n.response = call.response /\ AsRecorded(n, call)
       /\ n.left = call.left /\ n.faulty = call.faulty
  BY <1>3 DEF Made, Fields, AsRecorded
<1> HIDE DEF n
<1>14. Made(n)
  BY <1>1, <1>3, <1>13 DEF Made
<1>15. Asking(n)
  BY <1>1, <1>3, <1>4, <1>13 DEF Asking
<1>16. Counted(n)
  BY <1>3, <1>13 DEF Counted, AsRecorded
<1>17. Truthful(n, status, facts)
  BY <1>5, <1>13, StaysTruthful
<1>18. Delivered(n)
  BY <1>6, <1>10, <1>13 DEF Delivered, AsRecorded
<1>19. Remembered(n, learned)
  BY <1>3, <1>13 DEF Remembered
<1>20. CallOK(n, status, facts, learned)
  BY <1>13, <1>14, <1>15, <1>16, <1>17, <1>18, <1>19 DEF CallOK
<1>21. CallOK(n, status', facts', learned')
  <2>1. Grown(status, facts, learned, status', facts', learned')
    BY <1>12, Grows DEF IInv
  <2> QED BY <1>20, <2>1, Frame
<1> QED BY <1>1, <1>12, <1>21, OneCallSteps

-----------------------------------------------------------------------------
(* The handlers.                                                           *)

\* What a client was told of before the call was sent is in the table.
LEMMA KnownIsRow ==
  ASSUME IInv, NEW c \in Calls, calls[c].stage # "idle", NEW d \in Ids, calls[c].known[d] # "absent"
  PROVE  status[d] # "absent" /\ Rank[status[d]] >= Rank[calls[c].known[d]]
<1> DEFINE known == calls[c].known[d]
<1>1. Remembered(calls[c], learned)
  BY CallFacts
<1>2. known \in DOMAIN Rank /\ Rank[known] <= Rank[learned[d]]
  BY <1>1 DEF Remembered
<1>3. learned[d] \in DOMAIN Rank /\ status[d] \in DOMAIN Rank /\ Rank[learned[d]] <= Rank[status[d]]
  BY DEF IInv, TableOK
<1>4. known # "absent"
  OBVIOUS
<1> HIDE DEF known
<1>5. /\ Rank[known] \in Nat /\ Rank[known] >= 1 /\ Rank[learned[d]] \in Nat
      /\ Rank[status[d]] \in Nat /\ Rank["absent"] = 0
  BY <1>2, <1>3, <1>4, RankFacts
<1>6. status[d] # "absent" /\ Rank[status[d]] >= Rank[known]
  BY <1>2, <1>3, <1>5
<1> QED BY <1>6 DEF known

LEMMA ResponseIsSomething ==
  ASSUME NEW op, NEW r, IsResponse(op, r)
  PROVE  r # Nothing
<1>1. \A goType, value : DOMAIN Response(goType, value) = {"goType", "value"}
  BY DEF Response
<1>2. DOMAIN Nothing = {"kind"}
  BY DEF Nothing
<1>3. \A goType, value : Response(goType, value) # Nothing
  BY <1>1, <1>2
<1>4. \A code, text : ErrorStatus(code, text) # Nothing
  BY <1>3 DEF ErrorStatus
<1> QED BY <1>3, <1>4 DEF IsResponse, IsErrorStatus

\* A handler has answered, and what it answers is true of the table as it is then.
LEMMA Answers ==
  ASSUME IInv, TableOK', NothingLost, NEW c \in Calls, NEW op \in Operations, Handling(c, op), NEW r,
         NEW n, Becomes(c, n),
         \/ n = [calls[c] EXCEPT !.stage = "encoding", !.response = r]
         \/ n = [calls[c] EXCEPT !.stage = "encoding", !.response = r, !.faulty = TRUE],
         IsResponse(op, r), Stored(Told(Ok(r)), status'),
         r.goType = "DownloadListResponse" => Listed(r.value.downloads, Param(c, "secret"), facts'),
         op = "getChannelInfo" => r = ChannelAnswer(Param(c, "secret")),
         ~n.faulty => Current(calls[c], Told(Ok(r)), facts')
  PROVE  IInv'
<1> DEFINE call == calls[c]
<1>1. call.stage = "handling" /\ call.decoded.op = op /\ call.decoded.params["secret"] = Param(c, "secret")
  BY DEF Handling, At, Param
<1>2. Made(call) /\ Asking(call) /\ Counted(call) /\ Remembered(call, learned)
  BY <1>1, CallFacts
<1>3. Remembered(call, learned')
  <2>1. Grown(status, facts, learned, status', facts', learned')
    BY Grows DEF IInv
  <2>2. CallOK(call, status', facts', learned')
    BY <2>1, Frame DEF IInv
  <2> QED BY <1>1, <2>2 DEF CallOK
<1> DEFINE told == Told(Ok(r))
<1>4. ~n.faulty => Current(call, told, facts')
  OBVIOUS
<1>5. \/ n = [call EXCEPT !.stage = "encoding", !.response = r]
      \/ n = [call EXCEPT !.stage = "encoding", !.response = r, !.faulty = TRUE]
  OBVIOUS
<1>6. Stored(told, status')
  OBVIOUS
<1> DEFINE secret == Param(c, "secret")
<1>7. /\ r.goType = "DownloadListResponse" => Listed(r.value.downloads, secret, facts')
      /\ op = "getChannelInfo" => r = ChannelAnswer(secret)
  OBVIOUS
<1>8. r # Nothing
  BY ResponseIsSomething
<1>9. Unanswered(call) /\ Served(call) /\ call.decoded.params.secret = secret
  BY <1>1, <1>2 DEF Counted
<1> HIDE DEF call, secret
<1>10. /\ Kept(n, call) /\ n.stage = "encoding" /\ n.response = r /\ n.decoded = call.decoded
       /\ Unanswered(n) /\ n.left = call.left
  BY <1>2, <1>5, <1>9 DEF Made, Fields, Kept, Unanswered
<1>11. Made(n)
  BY <1>1, <1>2, <1>10 DEF Made, Kept
<1>12. Asking(n)
  BY <1>1, <1>2, <1>10 DEF Asking, Kept
<1>13. Counted(n)
  <2>1. Served(n)
    BY <1>9, <1>10 DEF Served, Kept
  <2> QED BY <1>8, <1>10, <2>1 DEF Counted, Unanswered
<1>14. Truthful(n, status', facts')
  <2>1. n.response = r /\ n.decoded.op = op /\ n.decoded.params.secret = secret
    BY <1>1, <1>9, <1>10
  <2>2. ~n.faulty => Current(n, told, facts')
    <3> HIDE DEF told
    <3> QED BY <1>4, <1>10 DEF Current, Kept
  <2>3. Told(Ok(n.response)) = told
    BY <2>1
  <2> HIDE DEF told
  <2> QED BY <1>6, <1>7, <2>1, <2>2, <2>3 DEF Truthful
<1>15. Delivered(n)
  BY <1>10 DEF Delivered
<1>16. Remembered(n, learned')
  BY <1>3, <1>10 DEF Remembered, Kept
<1>17. CallOK(n, status', facts', learned')
  BY <1>10, <1>11, <1>12, <1>13, <1>14, <1>15, <1>16 DEF CallOK
<1> QED BY <1>17, OneCallSteps

\* The same if the handler leaves the table as it is.
LEMMA RepliesStep ==
  ASSUME IInv, NEW c \in Calls, NEW op \in Operations, Handling(c, op), NEW r, Replies(c, r),
         IsResponse(op, r), Stored(Told(Ok(r)), status),
         r.goType = "DownloadListResponse" => Listed(r.value.downloads, Param(c, "secret"), facts),
         op = "getChannelInfo" => r = ChannelAnswer(Param(c, "secret")),
         Current(calls[c], Told(Ok(r)), facts)
  PROVE  IInv'
<1> DEFINE n    == [calls[c] EXCEPT !.stage = "encoding", !.response = r]
           told == Told(Ok(r))
           secret == Param(c, "secret")
           call   == calls[c]
<1>1. Becomes(c, n) /\ UNCHANGED <<status, facts, now, learned>>
  BY DEF Replies, Responds
<1>2. TableOK' /\ NothingLost
  BY <1>1, NothingChanged DEF IInv
<1>3. status' = status /\ facts' = facts
  BY <1>1
<1>4. /\ Stored(told, status') /\ Current(call, told, facts')
      /\ r.goType = "DownloadListResponse" => Listed(r.value.downloads, secret, facts')
  <2>1. /\ Stored(told, status) /\ Current(call, told, facts)
        /\ r.goType = "DownloadListResponse" => Listed(r.value.downloads, secret, facts)
    OBVIOUS
  <2> HIDE DEF told, secret, call
  <2> QED BY <1>3, <2>1
<1>5. n = [calls[c] EXCEPT !.stage = "encoding", !.response = r]
  OBVIOUS
<1> HIDE DEF n
<1> QED BY <1>1, <1>2, <1>4, <1>5, Answers

Refusals == {"getChannelInfo", "listDownloads", "createDownload", "getDownload"}

\* An error tells of no download.
LEMMA ErrorAnswers ==
  ASSUME NEW op \in Refusals, NEW r \in {errNotFound, errInternal, errBadRequest}
  PROVE  /\ IsResponse(op, r) /\ Told(Ok(r)) = {} /\ r.goType = "ErrorResponseStatusCode"
         /\ \A st : Stored(Told(Ok(r)), st)
<1>1. PICK code \in {400, 404, 500} : r = ErrorStatus(code, "m")
  BY DEF errNotFound, errInternal, errBadRequest
<1>2. r.goType = "ErrorResponseStatusCode" /\ IsErrorStatus(r)
  BY <1>1 DEF ErrorStatus, Response, IsErrorStatus
<1>3. Told(Ok(r)) = {}
  BY <1>2 DEF Told, Ok
<1>4. IsResponse(op, r)
  BY <1>2 DEF IsResponse, Refusals
<1>5. \A st : Stored({}, st)
  BY DEF Stored
<1> QED BY <1>2, <1>3, <1>4, <1>5

\* A statement fails, and the table is what it is, or has a new row.
LEMMA FailsStep ==
  ASSUME IInv, TableOK', NothingLost, NEW c \in Calls,
         NEW op \in {"listDownloads", "createDownload", "getDownload"}, Handling(c, op),
         NEW r \in {errNotFound, errInternal}, StatementFails(c, r)
  PROVE  IInv'
<1> DEFINE n == [calls[c] EXCEPT !.stage = "encoding", !.response = r, !.faulty = TRUE]
<1>1. Becomes(c, n)
  BY DEF StatementFails
<1>2. op \in Refusals /\ op \in Operations /\ r \in {errNotFound, errInternal, errBadRequest}
  BY DEF Refusals, Operations
<1>3. /\ IsResponse(op, r) /\ r.goType = "ErrorResponseStatusCode" /\ Stored(Told(Ok(r)), status')
  BY <1>2, ErrorAnswers
<1>4. n.faulty = TRUE
  <2>1. Made(calls[c])
    BY CallFacts DEF Handling, At
  <2> QED BY <2>1 DEF Made, Fields
<1>5. n = [calls[c] EXCEPT !.stage = "encoding", !.response = r, !.faulty = TRUE]
  OBVIOUS
<1> HIDE DEF n
<1> QED BY <1>1, <1>2, <1>3, <1>4, <1>5, Answers

\* There is no such channel.
LEMMA NoChannelStep ==
  ASSUME IInv, NEW c \in Calls, NEW op \in {"listDownloads", "createDownload", "getDownload"},
         Handling(c, op), GetChannel(Param(c, "secret")) = Nothing, Replies(c, errNotFound)
  PROVE  IInv'
<1> DEFINE secret == Param(c, "secret")
           call   == calls[c]
           told   == Told(Ok(errNotFound))
<1>1. op \in Refusals /\ op \in Operations
  BY DEF Refusals, Operations
<1>2. /\ IsResponse(op, errNotFound) /\ errNotFound.goType = "ErrorResponseStatusCode" /\ Stored(told, status)
  BY <1>1, ErrorAnswers
<1>3. secret \notin DOMAIN channels
  BY ChannelFound
<1>4. call.stage # "idle" /\ call.decoded.params.secret = secret
  BY DEF Handling, At, Param
<1> HIDE DEF told, secret
<1>5. ASSUME NEW d \in Ids, call.known[d] # "absent"
      PROVE  facts[d].secret # secret
  <2>1. status[d] # "absent"
    BY <1>4, <1>5, KnownIsRow
  <2>2. RowOK(facts[d])
    BY <2>1 DEF IInv, TableOK
  <2> QED BY <1>3, <2>2 DEF RowOK
<1>6. Current(call, told, facts)
  BY <1>3, <1>4, <1>5 DEF Current
<1> QED BY <1>1, <1>2, <1>6, RepliesStep DEF told

LEMMA HealthcheckStep ==
  ASSUME IInv, NEW c \in Calls, Healthcheck(c)
  PROVE  IInv'
<1> DEFINE r == Response("HealthResponse", [status |-> "ok"])
<1>1. Handling(c, "healthcheck") /\ Replies(c, r) /\ "healthcheck" \in Operations
  BY DEF Healthcheck, Operations
<1>2. r.goType = "HealthResponse" /\ IsResponse("healthcheck", r)
  BY DEF Response, IsResponse
<1>3. Told(Ok(r)) = {}
  BY <1>2 DEF Told, Ok
<1>4. Stored({}, status)
  BY DEF Stored
<1>5. Current(calls[c], {}, facts)
  BY <1>1 DEF Current, Handling
<1> HIDE DEF r
<1> QED BY <1>1, <1>2, <1>3, <1>4, <1>5, RepliesStep

LEMMA GetChannelInfoStep ==
  ASSUME IInv, NEW c \in Calls, GetChannelInfo(c)
  PROVE  IInv'
<1> DEFINE secret == Param(c, "secret")
           r      == ChannelAnswer(secret)
<1>1. Handling(c, "getChannelInfo") /\ Replies(c, r) /\ "getChannelInfo" \in Operations
  BY DEF GetChannelInfo, ChannelAnswer, Operations
<1>2. IsResponse("getChannelInfo", r) /\ Told(Ok(r)) = {} /\ r.goType # "DownloadListResponse"
  <2>1. CASE GetChannel(secret) = Nothing
    <3>1. r = errNotFound
      BY <2>1 DEF ChannelAnswer
    <3>2. "getChannelInfo" \in Refusals
      BY DEF Refusals
    <3> HIDE DEF r
    <3> QED BY <3>1, <3>2, ErrorAnswers
  <2>2. CASE GetChannel(secret) # Nothing
    <3>1. r = Response("ChannelInfoResponse", [name |-> GetChannel(secret).name])
      BY <2>2 DEF ChannelAnswer
    <3> HIDE DEF r
    <3>2. r.goType = "ChannelInfoResponse" /\ IsResponse("getChannelInfo", r)
      BY <3>1 DEF Response, IsResponse
    <3> QED BY <3>2 DEF Told, Ok
  <2> QED BY <2>1, <2>2
<1>3. Stored({}, status)
  BY DEF Stored
<1>4. Current(calls[c], {}, facts)
  BY <1>1 DEF Current, Handling
<1>5. r = ChannelAnswer(Param(c, "secret"))
  OBVIOUS
<1> HIDE DEF r
<1> QED BY <1>1, <1>2, <1>3, <1>4, <1>5, RepliesStep

\* A row, as the API shows it.
LEMMA RowShown ==
  ASSUME TableOK, NEW d \in Ids, status[d] # "absent"
  PROVE  /\ IsDownload(toAPIDownload(d))
         /\ toAPIDownload(d).id = d /\ toAPIDownload(d).status = status[d]
         /\ status[d] \in DOMAIN Rank /\ Rank[status[d]] \in Nat
<1>1. status[d] \in DOMAIN Rank /\ facts[d].second \in DOMAIN Times
  BY DEF TableOK, RowOK
<1>2. Rank[status[d]] \in Nat
  BY <1>1, RankFacts
<1>3. toAPIDownload(d).id = d /\ toAPIDownload(d).status = status[d]
  BY DEF toAPIDownload
<1>4. IsDownload(toAPIDownload(d))
  BY <1>1, ApiDownload, Zenon DEF toAPIDownload
<1> QED BY <1>1, <1>2, <1>3, <1>4

\* One download is told of.
LEMMA DownloadAnswer ==
  ASSUME NEW op \in {"createDownload", "getDownload"}, NEW a, IsDownload(a)
  PROVE  LET r == Response("Download", a)
         IN IsResponse(op, r) /\ r.goType = "Download" /\ Told(Ok(r)) = {a}
BY DEF Response, IsResponse, Told, Ok

LEMMA GetDownloadStep ==
  ASSUME IInv, NEW c \in Calls, GetDownload(c)
  PROVE  IInv'
<1> DEFINE found == {d \in Rows : Param(c, "id") = <<d>>}
           op    == "getDownload"
           call  == calls[c]
<1>1. Handling(c, op) /\ op \in Operations /\ call.stage # "idle" /\ TableOK
  BY DEF GetDownload, InChannel, Operations, Handling, At, IInv
<1>2. call.decoded.op = op /\ call.decoded.params.id = Param(c, "id")
  BY <1>1 DEF Handling, Param
<1>3. ASSUME GetChannel(Param(c, "secret")) = Nothing, Replies(c, errNotFound)
      PROVE  IInv'
  BY <1>1, <1>3, NoChannelStep
<1>4. ASSUME NEW d \in found, Replies(c, Response("Download", toAPIDownload(d)))
      PROVE  IInv'
  <2> DEFINE a == toAPIDownload(d)
             r == Response("Download", a)
             told == Told(Ok(r))
  <2>1. d \in Ids /\ status[d] # "absent" /\ Param(c, "id") = <<d>>
    BY DEF Rows
  <2>2. /\ IsDownload(a) /\ a.id = d /\ a.status = status[d]
        /\ status[d] \in DOMAIN Rank /\ Rank[status[d]] \in Nat
    BY <1>1, <2>1, RowShown
  <2> HIDE DEF a
  <2>3. IsResponse(op, r) /\ r.goType = "Download" /\ told = {a}
    BY <2>2, DownloadAnswer
  <2> HIDE DEF r, told
  <2>4. Stored(told, status)
    BY <2>1, <2>2, <2>3 DEF Stored
  <2>5. ASSUME NEW e \in Ids, call.known[e] # "absent", call.decoded.params.id = <<e>>
        PROVE  Recent(told, e, call.known[e])
    <3>1. <<e>> = <<d>>
      BY <1>2, <2>1, <2>5
    <3>2. e = d
      BY <3>1
    <3>3. Rank[status[d]] >= Rank[call.known[e]]
      BY <1>1, <2>5, <3>2, KnownIsRow
    <3>4. a \in told /\ a.id = e /\ Rank[a.status] >= Rank[call.known[e]]
      BY <2>2, <2>3, <3>2, <3>3
    <3> QED BY <3>4 DEF Recent
  <2>6. Current(call, told, facts)
    BY <1>2, <2>5 DEF Current
  <2> QED BY <1>1, <1>4, <2>3, <2>4, <2>6, RepliesStep DEF r, told, a
<1>5. ASSUME found = {}, Replies(c, errNotFound)
      PROVE  IInv'
  <2>1. op \in Refusals
    BY DEF Refusals
  <2> DEFINE told == Told(Ok(errNotFound))
  <2>2. IsResponse(op, errNotFound) /\ errNotFound.goType = "ErrorResponseStatusCode" /\ Stored(told, status)
    BY <2>1, ErrorAnswers
  <2> HIDE DEF told
  <2>3. \A d \in Ids : call.known[d] # "absent" => call.decoded.params.id # <<d>>
    <3>1. \A d \in Ids : call.known[d] # "absent" => status[d] # "absent"
      BY <1>1, KnownIsRow
    <3> QED BY <1>2, <1>5, <3>1 DEF Rows
  <2>4. Current(call, told, facts)
    BY <1>2, <2>3 DEF Current
  <2> QED BY <1>1, <1>5, <2>2, <2>4, RepliesStep DEF told
<1>6. ASSUME StatementFails(c, errNotFound), UNCHANGED <<status, facts>>
      PROVE  IInv'
  <2>1. UNCHANGED <<status, facts, now, learned>>
    BY <1>6 DEF StatementFails
  <2>2. TableOK' /\ NothingLost
    BY <1>1, <2>1, NothingChanged
  <2> QED BY <1>1, <1>6, <2>2, FailsStep
<1> QED BY <1>3, <1>4, <1>5, <1>6 DEF GetDownload, InChannel

\* A sequence of SetToSeqs has each element of the set.
LEMMA SeqsOfSet ==
  ASSUME NEW S, IsFiniteSet(S), NEW l \in SetToSeqs(S)
  PROVE  /\ Cardinality(S) \in Nat /\ l \in [1..Cardinality(S) -> S]
         /\ \A x \in S : \E i \in DOMAIN l : l[i] = x
<1> DEFINE n == Cardinality(S)
<1>1. n \in Nat
  BY FS_CardinalityType
<1>2. l \in [1..n -> S] /\ \A i, j \in 1..n : i # j => l[i] # l[j]
  BY DEF SetToSeqs
<1>3. ASSUME NEW x \in S, \A i \in 1..n : l[i] # x
      PROVE  FALSE
  <2> DEFINE T == S \ {x}
  <2>1. T \in SUBSET S /\ T # S
    OBVIOUS
  <2>2. IsFiniteSet(T) /\ Cardinality(T) <= n /\ Cardinality(T) # n
    BY <2>1, FS_Subset
  <2>3. Cardinality(T) \in Nat
    BY <2>2, FS_CardinalityType
  <2>4. IsFiniteSet(1..n) /\ Cardinality(1..n) = n
    <3>1. Cardinality(1..n) = IF 1 > n THEN 0 ELSE n-1+1
      BY <1>1, FS_Interval
    <3>2. IsFiniteSet(1..n)
      BY <1>1, FS_Interval
    <3> QED BY <1>1, <3>1, <3>2
  <2>5. l \in [1..n -> T]
    BY <1>2, <1>3
  <2> HIDE DEF n, T
  <2>6. Cardinality(T) < Cardinality(1..n)
    BY <1>1, <2>2, <2>3, <2>4
  <2>7. \E i, j \in 1..n : i # j /\ l[i] = l[j]
    BY <2>2, <2>4, <2>5, <2>6, FS_PigeonHole
  <2> QED BY <1>2, <2>7
<1>4. DOMAIN l = 1..n
  BY <1>2
<1> HIDE DEF n
<1>5. n \in Nat /\ l \in [1..n -> S] /\ \A x \in S : \E i \in DOMAIN l : l[i] = x
  BY <1>1, <1>2, <1>3, <1>4
<1> QED BY <1>5 DEF n

LEMMA ListAnswer ==
  ASSUME NEW n \in Nat, NEW shown, DOMAIN shown = 1..n, shown = [i \in 1..n |-> shown[i]],
         \A i \in 1..n : IsDownload(shown[i])
  PROVE  LET r == Response("DownloadListResponse", [downloads |-> shown])
         IN /\ IsResponse("listDownloads", r) /\ r.goType = "DownloadListResponse"
            /\ r.value.downloads = shown /\ Told(Ok(r)) = {shown[i] : i \in 1..n}
<1> DEFINE r == Response("DownloadListResponse", [downloads |-> shown])
<1>1. /\ r.goType = "DownloadListResponse" /\ r.value.downloads = shown /\ r.value = [downloads |-> shown]
      /\ r = Response("DownloadListResponse", [downloads |-> r.value.downloads])
  BY DEF Response
<1>2. Len(shown) = n
  OBVIOUS
<1> HIDE DEF r
<1>3. IsResponse("listDownloads", r)
  BY <1>1, <1>2 DEF IsResponse
<1>4. Told(Ok(r)) = ToSet(shown)
  BY <1>1 DEF Told, Ok
<1>5. ToSet(shown) = {shown[i] : i \in 1..n}
  BY DEF ToSet
<1> QED BY <1>1, <1>3, <1>4, <1>5 DEF r

LEMMA ListDownloadsStep ==
  ASSUME IInv, NEW c \in Calls, ListDownloads(c)
  PROVE  IInv'
<1> DEFINE op     == "listDownloads"
           call   == calls[c]
           secret == Param(c, "secret")
           S      == {d \in Rows : facts[d].secret = secret}
<1>1. Handling(c, op) /\ op \in Operations /\ call.stage # "idle" /\ TableOK
  BY DEF ListDownloads, InChannel, Operations, Handling, At, IInv
<1>2. call.decoded.op = op /\ call.decoded.params.secret = secret
  BY <1>1 DEF Handling, Param
<1>3. ASSUME GetChannel(secret) = Nothing, Replies(c, errNotFound)
      PROVE  IInv'
  BY <1>1, <1>3, NoChannelStep
<1>4. ASSUME NEW l \in GetDownloadsByChannel(secret),
             Replies(c, Response("DownloadListResponse", [downloads |-> [i \in DOMAIN l |-> toAPIDownload(l[i])]]))
      PROVE  IInv'
  <2> DEFINE shown == [i \in DOMAIN l |-> toAPIDownload(l[i])]
             r     == Response("DownloadListResponse", [downloads |-> shown])
             told  == Told(Ok(r))
             n     == Cardinality(S)
  <2>1. IsFiniteSet(S)
    <3>1. S \in SUBSET Ids
      BY DEF Rows
    <3> QED BY <3>1, IdsAssumption, FS_Subset
  <2>2. /\ l \in SetToSeqs(S)
        /\ \A i, j \in DOMAIN l : i < j => facts[l[i]].second >= facts[l[j]].second
    BY DEF GetDownloadsByChannel
  <2> HIDE DEF S
  <2>3. n \in Nat /\ l \in [1..n -> S] /\ \A x \in S : \E i \in DOMAIN l : l[i] = x
    BY <2>1, <2>2, SeqsOfSet
  <2>4. DOMAIN l = 1..n /\ DOMAIN shown = 1..n /\ shown = [i \in 1..n |-> shown[i]]
    BY <2>3
  <2> HIDE DEF n
  <2>5. ASSUME NEW i \in 1..n
        PROVE  /\ l[i] \in Ids /\ status[l[i]] # "absent" /\ facts[l[i]].secret = secret
               /\ IsDownload(shown[i]) /\ shown[i].id = l[i] /\ shown[i].status = status[l[i]]
               /\ status[l[i]] \in DOMAIN Rank /\ Rank[status[l[i]]] \in Nat
    <3>1. l[i] \in Ids /\ status[l[i]] # "absent" /\ facts[l[i]].secret = secret
      BY <2>3 DEF S, Rows
    <3>2. shown[i] = toAPIDownload(l[i])
      BY <2>4
    <3> HIDE DEF shown
    <3> QED BY <1>1, <3>1, <3>2, RowShown
  <2> HIDE DEF shown
  <2>6. /\ IsResponse(op, r) /\ r.goType = "DownloadListResponse"
        /\ r.value.downloads = shown /\ told = {shown[i] : i \in 1..n}
    <3>1. \A i \in 1..n : IsDownload(shown[i])
      BY <2>5
    <3>2. DOMAIN shown = 1..n /\ shown = [i \in 1..n |-> shown[i]]
      BY <2>4
    <3>3. LET x == Response("DownloadListResponse", [downloads |-> shown])
          IN /\ IsResponse("listDownloads", x) /\ x.goType = "DownloadListResponse"
             /\ x.value.downloads = shown /\ Told(Ok(x)) = {shown[i] : i \in 1..n}
      <4>1. n \in Nat
        BY <2>3
      <4> QED BY <4>1, <3>1, <3>2, ListAnswer, Zenon
    <3> QED BY <3>3, Zenon
  <2> HIDE DEF r, told
  <2>7. Stored(told, status)
    <3> SUFFICES ASSUME NEW i \in 1..n
                 PROVE  /\ shown[i].id \in Ids /\ status[shown[i].id] # "absent"
                        /\ shown[i].status \in DOMAIN Rank /\ Rank[shown[i].status] <= Rank[status[shown[i].id]]
      BY <2>6 DEF Stored
    <3>1. /\ l[i] \in Ids /\ status[l[i]] # "absent" /\ shown[i].id = l[i] /\ shown[i].status = status[l[i]]
          /\ status[l[i]] \in DOMAIN Rank /\ Rank[status[l[i]]] \in Nat
      BY <2>5
    <3> QED BY <3>1
  <2>8. Listed(r.value.downloads, secret, facts)
    <3>1. \A i \in 1..n : shown[i].id = l[i] /\ facts[l[i]].secret = secret
      BY <2>5
    <3>2. \A i, j \in 1..n : /\ facts[shown[i].id].secret = secret
                             /\ i < j => facts[shown[i].id].second >= facts[shown[j].id].second
      BY <2>2, <2>4, <3>1
    <3> QED BY <2>4, <2>6, <3>2 DEF Listed
  <2>9. ASSUME NEW d \in Ids, call.known[d] # "absent", facts[d].secret = secret
        PROVE  Recent(told, d, call.known[d])
    <3>1. status[d] # "absent" /\ Rank[status[d]] >= Rank[call.known[d]]
      BY <1>1, <2>9, KnownIsRow
    <3>2. d \in S
      BY <2>9, <3>1 DEF S, Rows
    <3>3. PICK i \in 1..n : l[i] = d
      BY <2>3, <2>4, <3>2
    <3>4. shown[i] \in told /\ shown[i].id = d /\ shown[i].status = status[d]
      BY <2>5, <2>6, <3>3
    <3> QED BY <3>1, <3>4 DEF Recent
  <2>10. Current(call, told, facts)
    BY <1>2, <2>9 DEF Current
  <2>11. Replies(c, r)
    BY <1>4 DEF r, shown
  <2> QED BY <1>1, <2>6, <2>7, <2>8, <2>10, <2>11, RepliesStep DEF told
<1>5. ASSUME StatementFails(c, errInternal), UNCHANGED <<status, facts>>
      PROVE  IInv'
  <2>1. UNCHANGED <<status, facts, now, learned>>
    BY <1>5 DEF StatementFails
  <2>2. TableOK' /\ NothingLost
    BY <1>1, <2>1, NothingChanged
  <2> QED BY <1>1, <1>5, <2>2, FailsStep
<1> QED BY <1>3, <1>4, <1>5 DEF ListDownloads, InChannel

\* A row is inserted: nothing else changes, and it has a channel of the configuration.
LEMMA Inserted ==
  ASSUME TableOK, NEW c \in Calls, NEW d \in Ids, Insert(c, d), UNCHANGED <<now, learned>>,
         GetChannel(Param(c, "secret")) # Nothing
  PROVE  /\ TableOK' /\ NothingLost /\ status'[d] = "pending" /\ RowOK(facts'[d])
<1> DEFINE secret == Param(c, "secret")
           fact   == [secret |-> secret, url |-> calls[c].decoded.request.url, second |-> now, ch |-> channels[secret]]
<1>1. status[d] = "absent" /\ status' = [status EXCEPT ![d] = "pending"] /\ facts' = [facts EXCEPT ![d] = fact]
  BY DEF Insert, LC!Register
<1>2. secret \in DOMAIN channels
  BY ChannelFound
<1>3. /\ fact.secret = secret /\ fact.ch = channels[secret] /\ fact.second = now
      /\ DOMAIN fact = {"secret", "url", "second", "ch"}
  OBVIOUS
<1> HIDE DEF fact, secret
<1>4. RowOK(fact)
  BY <1>2, <1>3 DEF TableOK, RowOK
<1>5. fact # Nothing
  <2>1. DOMAIN Nothing = {"kind"}
    BY DEF Nothing
  <2> QED BY <1>3, <2>1
<1>6. /\ status \in [Ids -> DOMAIN Rank] /\ DOMAIN facts = Ids /\ "pending" \in DOMAIN Rank
  BY RankFacts DEF TableOK
<1>7. /\ status'[d] = "pending" /\ status' \in [Ids -> DOMAIN Rank]
      /\ \A e \in Ids \ {d} : status'[e] = status[e]
  BY <1>1, <1>6
<1>8. /\ facts'[d] = fact /\ DOMAIN facts' = Ids /\ \A e \in Ids \ {d} : facts'[e] = facts[e]
  BY <1>1, <1>6
<1>9. ASSUME NEW e \in Ids
      PROVE  /\ facts'[e] = Nothing <=> status'[e] = "absent"
             /\ facts'[e] # Nothing => RowOK(facts'[e])
             /\ Rank[learned[e]] <= Rank[learned'[e]] /\ Rank[learned'[e]] <= Rank[status'[e]]
             /\ Rank[status[e]] <= Rank[status'[e]] /\ (status[e] # "absent" => facts'[e] = facts[e])
  <2>1. /\ facts[e] = Nothing <=> status[e] = "absent"
        /\ facts[e] # Nothing => RowOK(facts[e])
        /\ Rank[learned[e]] <= Rank[status[e]] /\ learned'[e] = learned[e]
        /\ status[e] \in DOMAIN Rank /\ learned[e] \in DOMAIN Rank
    BY DEF TableOK
  <2>2. /\ Rank[status[e]] \in Nat /\ Rank[learned[e]] \in Nat
        /\ Rank["absent"] = 0 /\ Rank["pending"] = 1
    BY <2>1, RankFacts
  <2>3. CASE e = d
    BY <1>1, <1>4, <1>5, <1>7, <1>8, <2>1, <2>2, <2>3
  <2>4. CASE e # d
    BY <1>7, <1>8, <2>1, <2>2, <2>4
  <2> QED BY <2>3, <2>4
<1>10. learned' \in [Ids -> DOMAIN Rank] /\ now' \in DOMAIN Times
  BY DEF TableOK
<1>11. TableOK'
  BY <1>7, <1>8, <1>9, <1>10 DEF TableOK
<1>12. NothingLost
  BY <1>9 DEF NothingLost
<1> QED BY <1>4, <1>7, <1>8, <1>11, <1>12

LEMMA CreateDownloadStep ==
  ASSUME IInv, NEW c \in Calls, CreateDownload(c)
  PROVE  IInv'
<1> DEFINE op     == "createDownload"
           call   == calls[c]
           secret == Param(c, "secret")
<1>1. Handling(c, op) /\ op \in Operations /\ op \in Refusals /\ TableOK
  BY DEF CreateDownload, InChannel, Operations, Refusals, IInv
<1>2. call.decoded.op = op
  BY <1>1 DEF Handling
<1>3. \A told, fa : Current(call, told, fa)
  BY <1>2 DEF Current
<1>4. ASSUME GetChannel(secret) = Nothing, Replies(c, errNotFound)
      PROVE  IInv'
  BY <1>1, <1>4, NoChannelStep
<1>5. ASSUME Replies(c, errBadRequest)
      PROVE  IInv'
  <2> DEFINE told == Told(Ok(errBadRequest))
  <2>1. IsResponse(op, errBadRequest) /\ errBadRequest.goType = "ErrorResponseStatusCode" /\ Stored(told, status)
    BY <1>1, ErrorAnswers
  <2>2. Current(call, told, facts)
    BY <1>3
  <2> HIDE DEF told
  <2> QED BY <1>1, <1>5, <2>1, <2>2, RepliesStep DEF told
<1>6. ASSUME NEW d \in Ids, Insert(c, d), Responds(c, Response("Download", toAPIDownload(d)')),
             UNCHANGED <<now, learned>>, GetChannel(secret) # Nothing
      PROVE  IInv'
  <2> DEFINE a    == toAPIDownload(d)'
             r    == Response("Download", a)
             told == Told(Ok(r))
             n    == [calls[c] EXCEPT !.stage = "encoding", !.response = r]
  <2>1. TableOK' /\ NothingLost /\ status'[d] = "pending" /\ RowOK(facts'[d])
    BY <1>1, <1>6, Inserted
  <2>2. IsDownload(a) /\ a.id = d /\ a.status = "pending"
    <3>1. a = [id |-> d, url |-> facts'[d].url, title |-> Unset, status |-> status'[d],
               progress |-> IF status'[d] \in {"converting", "completed"} THEN 1 ELSE 0,
               filename |-> IF status'[d] = "converting" THEN NewOpt("f") ELSE Unset,
               error |-> IF status'[d] = "error" THEN NewOpt("e") ELSE Unset,
               createdAt |-> Times[facts'[d].second],
               completedAt |-> IF status'[d] \in {"completed", "error"} THEN NewOpt(Times[1]) ELSE Unset]
      BY DEF toAPIDownload
    <3>2. status'[d] \in DOMAIN Rank /\ status'[d] # "absent" /\ facts'[d].second \in DOMAIN Times
      BY <2>1, RankFacts DEF RowOK
    <3>3. IsDownload([id |-> d, url |-> facts'[d].url, title |-> Unset, status |-> status'[d],
               progress |-> IF status'[d] \in {"converting", "completed"} THEN 1 ELSE 0,
               filename |-> IF status'[d] = "converting" THEN NewOpt("f") ELSE Unset,
               error |-> IF status'[d] = "error" THEN NewOpt("e") ELSE Unset,
               createdAt |-> Times[facts'[d].second],
               completedAt |-> IF status'[d] \in {"completed", "error"} THEN NewOpt(Times[1]) ELSE Unset])
      BY <3>2, ApiDownload
    <3>4. a.id = d /\ a.status = status'[d]
      BY <3>1
    <3>5. IsDownload(a)
      BY <3>1, <3>3, Zenon
    <3> QED BY <2>1, <3>4, <3>5
  <2>3. Becomes(c, n)
    BY <1>6 DEF Responds
  <2> HIDE DEF a
  <2>4. IsResponse(op, r) /\ r.goType = "Download" /\ told = {a}
    BY <2>2, DownloadAnswer
  <2>5. n = [calls[c] EXCEPT !.stage = "encoding", !.response = r]
    OBVIOUS
  <2> HIDE DEF r, told, n
  <2>6. Stored(told, status')
    <3>1. "pending" \in DOMAIN Rank /\ Rank["pending"] = 1
      BY RankFacts
    <3> QED BY <2>1, <2>2, <2>4, <3>1 DEF Stored
  <2>7. Current(call, told, facts')
    BY <1>3
  <2> QED BY <1>1, <2>1, <2>3, <2>4, <2>5, <2>6, <2>7, Answers DEF told
<1>7. ASSUME StatementFails(c, errInternal), UNCHANGED <<status, facts>>
      PROVE  IInv'
  <2>1. UNCHANGED <<status, facts, now, learned>>
    BY <1>7 DEF StatementFails
  <2>2. TableOK' /\ NothingLost
    BY <1>1, <2>1, NothingChanged
  <2> QED BY <1>1, <1>7, <2>2, FailsStep
<1>8. ASSUME StatementFails(c, errInternal), NEW d \in Ids, Insert(c, d), GetChannel(secret) # Nothing
      PROVE  IInv'
  <2>1. UNCHANGED <<now, learned>>
    BY <1>8 DEF StatementFails
  <2>2. TableOK' /\ NothingLost
    BY <1>1, <1>8, <2>1, Inserted
  <2> QED BY <1>1, <1>8, <2>2, FailsStep
<1> QED BY <1>4, <1>5, <1>6, <1>7, <1>8 DEF CreateDownload, InChannel

-----------------------------------------------------------------------------
(* The invariant, and what follows from it.                                *)

LEMMA InitOK == Init => IInv
<1> SUFFICES ASSUME Init PROVE IInv
  OBVIOUS
<1>1. /\ calls = [c \in Calls |-> Idle] /\ status = [d \in Ids |-> "absent"]
      /\ facts = [d \in Ids |-> Nothing] /\ now = 1 /\ learned = status
  BY DEF Init, LC!Init
<1>2. "absent" \in DOMAIN Rank /\ Rank["absent"] = 0
  BY RankFacts
<1>3. now \in DOMAIN Times
  <2>1. Len(Times) \in Nat /\ Len(Times) # 0 /\ DOMAIN Times = 1..Len(Times)
    BY TimesAssumption
  <2> QED BY <1>1, <2>1
<1>4. \A d \in Ids : /\ facts[d] = Nothing /\ status[d] = "absent" /\ learned[d] = "absent"
  BY <1>1
<1>5. TableOK
  BY <1>1, <1>2, <1>3, <1>4 DEF TableOK
<1>6. DOMAIN calls = Calls /\ \A c \in Calls : calls[c] = Idle
  BY <1>1
<1>7. \A c \in Calls : CallOK(calls[c], status, facts, learned)
  BY <1>6, IdleOK
<1> QED BY <1>5, <1>6, <1>7 DEF IInv

LEMMA StepOK == IInv /\ [Next]_vars => IInv'
<1> SUFFICES ASSUME IInv, [Next]_vars PROVE IInv'
  OBVIOUS
<1>1. CASE UNCHANGED vars
  <2>1. TableOK' /\ NothingLost
    BY <1>1, NothingChanged DEF vars, IInv
  <2> QED BY <1>1, <2>1, TableSteps DEF vars
<1>2. ASSUME NEW c \in Calls, NEW asked \in Asked,
             \/ sendHealthcheck(c, asked) \/ sendGetChannelInfo(c, asked) \/ sendListDownloads(c, asked)
             \/ sendGetDownload(c, asked) \/ sendCreateDownload(c, asked)
      PROVE  IInv'
  BY <1>2, GoStarts
<1>3. ASSUME NEW c \in Calls, NEW secret \in Links, OpenLink(c, secret)
      PROVE  IInv'
  BY <1>3, PageStarts
<1>4. ASSUME NEW c \in Calls, NEW message \in RawMessages, SendRaw(c, message)
      PROVE  IInv'
  BY <1>4, RawStarts
<1>5. ASSUME NEW c \in Calls, Elsewhere(c) \/ Receive(c) \/ Leave(c) \/ Lose(c) \/ Discard(c)
      PROVE  IInv'
  BY <1>5, ElsewhereStep, ReceiveStep, LeaveStep, CallGoes
<1>6. ASSUME NEW c \in Calls, NEW op \in Operations, Begins(c, op) \/ Ends(c, op)
      PROVE  IInv'
  BY <1>6, BeginsStep, EndsStep
<1>7. ASSUME NEW c \in Calls,
             Healthcheck(c) \/ GetChannelInfo(c) \/ GetDownload(c) \/ ListDownloads(c) \/ CreateDownload(c)
      PROVE  IInv'
  BY <1>7, HealthcheckStep, GetChannelInfoStep, GetDownloadStep, ListDownloadsStep, CreateDownloadStep
<1>8. ASSUME NEW c \in Calls,
             \/ handleHealthcheckRequest(c) \/ handleGetChannelInfoRequest(c) \/ handleGetDownloadRequest(c)
             \/ handleListDownloadsRequest(c) \/ handleCreateDownloadRequest(c)
      PROVE  IInv'
  <2>1. {"healthcheck", "getChannelInfo", "getDownload", "listDownloads", "createDownload"} \subseteq Operations
    BY DEF Operations
  <2> QED BY <1>6, <1>7, <1>8, <2>1
        DEF handleHealthcheckRequest, handleGetChannelInfoRequest, handleGetDownloadRequest,
            handleListDownloadsRequest, handleCreateDownloadRequest
<1>9. ASSUME NEW d \in Ids, Report(d)
      PROVE  IInv'
  BY <1>9, ReportStep
<1>10. ASSUME Tick
       PROVE  IInv'
  BY <1>10, TickStep
<1> QED BY <1>1, <1>2, <1>3, <1>4, <1>5, <1>8, <1>9, <1>10, Zenon DEF Next

\* At every moment each call carries what the stages behind it made of what was
\* asked, and each row what its download has told, however calls overlap, whatever
\* is sent and whichever statements fail.  (oas_handlers_gen.go:60-190,
\* service.go:58-71)
THEOREM Invariance == Spec => []IInv
BY InitOK, StepOK, PTL DEF Spec

\* A call that is done, with what its stages left.
LEMMA DoneFacts ==
  ASSUME IInv, NEW c \in Calls, NEW client \in {"go", "page"}, Done(c, client)
  PROVE  /\ calls[c].response # Nothing /\ ~calls[c].left
         /\ calls[c].decoded.op = calls[c].asked.op /\ calls[c].decoded.params = calls[c].asked.params
         /\ calls[c].reply = EncodeResponse(calls[c].decoded.op, calls[c].response)
         /\ calls[c].result = IF client = "go" THEN Ok(calls[c].response) ELSE PageResult(calls[c].reply)
         /\ Truthful(calls[c], status, facts)
         /\ client = "page" => FromLink(calls[c].asked)
<1> DEFINE call == calls[c]
<1>1. call.stage = "done" /\ call.client = client
  BY DEF Done, At
<1>2. Made(call) /\ Asking(call)
  BY <1>1, CallFacts
<1>3. /\ call.response # Nothing /\ ~call.left
      /\ call.decoded.op = call.asked.op /\ call.decoded.params = call.asked.params
      /\ client = "page" => FromLink(call.asked)
  BY <1>1, <1>2 DEF Asking, Made
<1>4. Truthful(call, status, facts) /\ Delivered(call)
  BY <1>1, <1>3, CallFacts
<1> HIDE DEF call
<1>5. /\ call.reply = EncodeResponse(call.decoded.op, call.response)
      /\ call.result = IF client = "go" THEN Ok(call.response) ELSE PageResult(call.reply)
  BY <1>1, <1>3, <1>4 DEF Delivered
<1> QED BY <1>3, <1>4, <1>5 DEF call

\* Each stage of a call has what the next one works on, and each download of the
\* table what its INSERT set.  (oas_handlers_gen.go:60-190, service.go:58-71)
THEOREM ApiTypeCorrect == Spec => []TypeOK
<1>1. IInv => TypeOK
  <2> SUFFICES ASSUME IInv PROVE TypeOK
    OBVIOUS
  <2>1. /\ status \in [Ids -> DOMAIN LC!Rank] /\ learned \in [Ids -> DOMAIN LC!Rank] /\ now \in DOMAIN Times
        /\ \A d \in Ids : facts[d] = Nothing <=> d \notin Rows
    BY DEF IInv, TableOK, Rank, Rows
  <2>2. ASSUME NEW c \in Calls, calls[c].stage # "idle"
        PROVE  /\ calls[c].stage \in {"sent", "handling", "encoding", "answered", "done"}
               /\ calls[c].requests \in {<<>>, <<calls[c].recorded>>} /\ calls[c].errors \in {<<>>, calls[c].requests}
               /\ calls[c].stage = "encoding" => calls[c].response # Nothing
               /\ calls[c].stage = "answered" => calls[c].reply # Nothing
    <3> DEFINE call == calls[c]
    <3>1. call.stage \in {"sent", "handling", "encoding", "answered", "done"} /\ Counted(call)
      BY <2>2, CallFacts DEF Made
    <3> HIDE DEF call
    <3>2. /\ call.requests \in {<<>>, <<call.recorded>>} /\ call.errors \in {<<>>, call.requests}
          /\ call.stage = "encoding" => call.response # Nothing
          /\ call.stage = "answered" => call.reply # Nothing
      BY <3>1 DEF Counted
    <3> QED BY <3>1, <3>2 DEF call
  <2> QED BY <2>1, <2>2 DEF TypeOK
<1> QED BY <1>1, Invariance, PTL

\* A request for an operation is counted once, with the status that was sent or that
\* of the failed write, and as an error exactly if it was refused, is a server error, or
\* could not be written; what is not for an operation is not counted: whatever anybody
\* sends and whoever leaves.  (oas_handlers_gen.go:22-34, 60-103, 113-192)
THEOREM RecordsAreTrue == Spec => []RecordIsTrue
<1>1. IInv => RecordIsTrue
  <2> SUFFICES ASSUME IInv, NEW c \in Calls, At(c, "answered")
               PROVE  LET call    == calls[c]
                          served  == Routed(call.message).op \in Operations
                          refused == call.response = Nothing
                          failed  == ~refused /\ IsError(call.response) /\ call.response.value.StatusCode >= 500
                          code    == IF call.unwritten THEN 500 ELSE call.reply.status
                      IN /\ call.requests = IF served THEN <<code>> ELSE <<>>
                         /\ call.errors = IF served /\ (refused \/ failed \/ call.unwritten) THEN <<code>> ELSE <<>>
    BY Zenon DEF RecordIsTrue
  <2> DEFINE call == calls[c]
  <2>1. call.stage = "answered" /\ Counted(call)
    BY CallFacts DEF At
  <2> HIDE DEF call
  <2>2. WellRecorded(call)
    BY <2>1 DEF Counted
  <2> QED BY <2>2 DEF WellRecorded, Recorded, Served, ServerError, call
<1> QED BY <1>1, Invariance, PTL

\* What a handler returns is what the caller of the generated client gets, for
\* every response of every operation.  (oas_handlers_gen.go:185-190,
\* oas_client_gen.go:181-195)
THEOREM ResponsesReachCallers == Spec => []ResponseReachesCaller
<1>1. IInv => ResponseReachesCaller
  <2> SUFFICES ASSUME IInv, NEW c \in Calls, Done(c, "go")
               PROVE  calls[c].result = Ok(calls[c].response)
    BY DEF ResponseReachesCaller
  <2>1. calls[c].result = IF "go" = "go" THEN Ok(calls[c].response) ELSE PageResult(calls[c].reply)
    BY DoneFacts
  <2> QED BY <2>1
<1> QED BY <1>1, Invariance, PTL

\* No client is ever told of a download that is not stored, or of a status ahead
\* of its row, whichever statements fail.  (service.go:58-71, handler.go:93-99)
THEOREM ToldOnlyOfStored == Spec => []ToldIsStored
<1>1. IInv => ToldIsStored
  BY DEF IInv, TableOK, ToldIsStored, Rank
<1> QED BY <1>1, Invariance, PTL

\* A list has the downloads of its channel only, latest second first, also when it
\* arrives long after the rows were read.  (queries.sql.go:66-70, ChannelPage.tsx:88)
THEOREM ListsAreInOrder == Spec => []NewestFirst
<1>1. IInv => NewestFirst
  <2> SUFFICES ASSUME IInv, NEW c \in Calls, Done(c, "go"), calls[c].asked.op = "listDownloads",
                      calls[c].result.ok, calls[c].result.value.goType = "DownloadListResponse"
               PROVE  LET l == calls[c].result.value.value.downloads
                      IN \A i, j \in DOMAIN l : /\ facts[l[i].id].secret = calls[c].asked.params.secret
                                                /\ i < j => facts[l[i].id].second >= facts[l[j].id].second
    BY DEF NewestFirst
  <2> DEFINE call == calls[c]
  <2>1. /\ call.result = IF "go" = "go" THEN Ok(call.response) ELSE PageResult(call.reply)
        /\ Truthful(call, status, facts) /\ call.decoded.params = call.asked.params
    BY DoneFacts
  <2> HIDE DEF call
  <2>2. call.result.value = call.response
    BY <2>1 DEF Ok
  <2>3. call.response.goType = "DownloadListResponse"
    BY <2>2 DEF call
  <2>4. Listed(call.response.value.downloads, call.asked.params.secret, facts)
    BY <2>1, <2>3 DEF Truthful
  <2>5. Listed(call.result.value.value.downloads, call.asked.params.secret, facts)
    BY <2>2, <2>4
  <2> QED BY <2>5 DEF Listed, call
<1> QED BY <1>1, Invariance, PTL

\* Whoever was told of a download finds it in the list and under its id by every later
\* call with its secret whose statements succeed, and never in an earlier status,
\* however the calls overlap.  (handler.go:52-82, service.go:58-71)
THEOREM ReadsFollow == Spec => []ReadsFollowWhatWasTold
<1>1. IInv => ReadsFollowWhatWasTold
  <2> SUFFICES ASSUME IInv, NEW c \in Calls, NEW d \in Ids,
                      Done(c, "go"), ~calls[c].faulty, calls[c].known[d] # "absent",
                      \/ calls[c].asked.op = "listDownloads"
                      \/ calls[c].asked.op = "getDownload" /\ calls[c].asked.params.id = <<d>>,
                      d \in Rows, facts[d].secret = calls[c].asked.params.secret
               PROVE  Recent(Told(calls[c].result), d, calls[c].known[d])
    BY Zenon DEF ReadsFollowWhatWasTold, Recent, Rank
  <2> DEFINE call == calls[c]
  <2>1. /\ call.result = IF "go" = "go" THEN Ok(call.response) ELSE PageResult(call.reply)
        /\ Truthful(call, status, facts) /\ call.decoded.params = call.asked.params
        /\ call.decoded.op = call.asked.op
    BY DoneFacts
  <2>2. /\ ~call.faulty /\ call.known[d] # "absent" /\ facts[d].secret = call.asked.params.secret
        /\ \/ call.asked.op = "listDownloads"
           \/ call.asked.op = "getDownload" /\ call.asked.params.id = <<d>>
    OBVIOUS
  <2>3. facts[d].secret \in DOMAIN channels
    BY DEF IInv, TableOK, Rows, RowOK
  <2> HIDE DEF call
  <2>4. Told(call.result) = Told(Ok(call.response))
    BY <2>1
  <2>5. Current(call, Told(call.result), facts)
    BY <2>1, <2>2, <2>4 DEF Truthful
  <2>6. Recent(Told(call.result), d, call.known[d])
    BY <2>1, <2>2, <2>3, <2>5 DEF Current
  <2> QED BY <2>6 DEF call
<1> QED BY <1>1, Invariance, PTL

\* What the page makes of the answer to its request.
LEMMA PageShows ==
  ASSUME NEW secret
  PROVE  PageResult(EncodeResponse("getChannelInfo", ChannelAnswer(secret)))
           = IF GetChannel(secret) = Nothing THEN Ok(Nothing)
             ELSE Ok(Response("ChannelInfoResponse", [name |-> GetChannel(secret).name]))
<1> DEFINE answer == ChannelAnswer(secret)
           reply  == EncodeResponse("getChannelInfo", answer)
           name   == GetChannel(secret).name
<1>1. reply = IF IsError(answer) THEN encodeError(answer)
              ELSE Written(200, EncodeChannelInfoResponse(answer.value))
  BY DEF EncodeResponse, encodeGetChannelInfoResponse
<1>2. CASE GetChannel(secret) = Nothing
  <2>1. answer = ErrorStatus(404, "m")
    BY <1>2 DEF ChannelAnswer, errNotFound
  <2>2. IsError(answer)
    BY <2>1 DEF IsError, ErrorStatus, Response
  <2> HIDE DEF answer
  <2>3. reply = encodeError(ErrorStatus(404, "m"))
    BY <1>1, <2>1, <2>2
  <2> HIDE DEF reply
  <2>4. reply = Written(404, EncodeErrorResponse([message |-> "m"]))
    BY <2>3, ErrorReply
  <2>5. reply.status = 404
    BY <2>4 DEF Written
  <2>6. PageResult(reply) = Ok(Nothing)
    BY <2>5 DEF PageResult
  <2> QED BY <1>2, <2>6 DEF reply, answer
<1>3. CASE GetChannel(secret) # Nothing
  <2> DEFINE s == [name |-> name]
  <2>1. answer = Response("ChannelInfoResponse", s)
    BY <1>3 DEF ChannelAnswer
  <2>2. ~IsError(answer) /\ answer.value = s
    BY <2>1 DEF IsError, Response
  <2> HIDE DEF answer
  <2>3. reply = Written(200, EncodeChannelInfoResponse(s))
    BY <1>1, <2>2
  <2>4. DecodeChannelInfoResponse(EncodeChannelInfoResponse(s)) = Ok(s)
    BY SingleRoundTrips
  <2> HIDE DEF reply, s
  <2>5. reply.status = 200 /\ reply.body[1] = EncodeChannelInfoResponse(s)
    BY <2>3 DEF Written
  <2>6. PageResult(reply) = Ok(Response("ChannelInfoResponse", Ok(s).value))
    BY <2>4, <2>5 DEF PageResult
  <2>7. Ok(s).value = s
    BY DEF Ok
  <2>8. PageResult(reply) = Ok(Response("ChannelInfoResponse", s))
    BY <2>6, <2>7
  <2> QED BY <1>3, <2>8 DEF reply, answer, s
<1> QED BY <1>2, <1>3

\* A link shows a name exactly if the segment of its location, escapes included, is the
\* secret of a channel, and then that of the channel in whose directory the downloads
\* posted with it end, whichever secrets occur twice in the configuration.
\* (service.go:23-38, 53-69, App.tsx:6)
THEOREM LinksShowTheirChannel == Spec => []LinkShowsWhereDownloadsGo
<1>1. IInv => LinkShowsWhereDownloadsGo
  <2> SUFFICES ASSUME IInv, NEW c \in Calls, Done(c, "page"), calls[c].result.ok
               PROVE  LET secret == EscapeSegment(calls[c].asked.link)
                          shown  == calls[c].result.value
                      IN /\ shown # Nothing <=> \E i \in DOMAIN Config : Config[i].secret = secret
                         /\ shown # Nothing =>
                              \A d \in Rows : facts[d].secret = secret => facts[d].ch.name = shown.value.name
    BY DEF LinkShowsWhereDownloadsGo
  <2> DEFINE call   == calls[c]
             secret == EscapeSegment(call.asked.link)
             shown  == call.result.value
             name   == GetChannel(secret).name
  <2>1. /\ call.result = IF "page" = "go" THEN Ok(call.response) ELSE PageResult(call.reply)
        /\ Truthful(call, status, facts) /\ call.decoded.params = call.asked.params
        /\ call.decoded.op = call.asked.op /\ FromLink(call.asked)
        /\ call.reply = EncodeResponse(call.decoded.op, call.response)
    BY DoneFacts
  <2> HIDE DEF call
  <2>2. call.asked.op = "getChannelInfo" /\ call.response = ChannelAnswer(secret)
    BY <2>1 DEF Truthful, FromLink
  <2>3. call.result = PageResult(EncodeResponse("getChannelInfo", ChannelAnswer(secret)))
    BY <2>1, <2>2
  <2> HIDE DEF secret
  <2>4. call.result = IF GetChannel(secret) = Nothing THEN Ok(Nothing)
                      ELSE Ok(Response("ChannelInfoResponse", [name |-> name]))
    BY <2>3, PageShows
  <2>5. CASE GetChannel(secret) = Nothing
    <3>1. shown = Nothing
      BY <2>4, <2>5 DEF Ok
    <3>2. \A i \in DOMAIN Config : Config[i].secret # secret
      BY <2>5, ChannelFound
    <3> QED BY <3>1, <3>2 DEF call, secret
  <2>6. CASE GetChannel(secret) # Nothing
    <3>1. shown = Response("ChannelInfoResponse", [name |-> name])
      BY <2>4, <2>6 DEF Ok
    <3>2. shown.value.name = name /\ DOMAIN shown = {"goType", "value"}
      BY <3>1 DEF Response
    <3>3. DOMAIN Nothing = {"kind"}
      BY DEF Nothing
    <3>4. GetChannel(secret) = channels[secret]
      BY <2>6, ChannelFound
    <3>5. \A d \in Rows : facts[d].secret = secret => facts[d].ch.name = name
      <4> SUFFICES ASSUME NEW d \in Rows, facts[d].secret = secret PROVE facts[d].ch.name = name
        OBVIOUS
      <4>1. RowOK(facts[d])
        BY DEF IInv, TableOK, Rows
      <4>2. facts[d].ch = channels[secret]
        BY <4>1 DEF RowOK
      <4> QED BY <3>4, <4>2
    <3> HIDE DEF shown, name
    <3>6. shown # Nothing
      BY <3>2, <3>3
    <3>7. \E i \in DOMAIN Config : Config[i].secret = secret
      BY <2>6, ChannelFound
    <3> QED BY <3>2, <3>5, <3>6, <3>7 DEF call, secret, shown
  <2> QED BY <2>5, <2>6
<1> QED BY <1>1, Invariance, PTL

=============================================================================
